------------------------------ MODULE MCRules ------------------------------
(*****************************************************************************)
(* The rules, on small programs. A behaviour is a behaviour of one of the    *)
(* models named by Subjects: subject says which one, its variables are the   *)
(* slots x1, x2, ... in the order in which its module declares them, and the *)
(* slots it does not use stay 0. A property speaks of the behaviours of its  *)
(* own model.                                                                *)
(*****************************************************************************)
EXTENDS Integers, Sequences, FiniteSets

CONSTANT Subjects   \* the models that are checked in this run

VARIABLES
  subject,   \* the model of this behaviour
  x1, x2, x3, x4, x5, x6, x7, x8, x9, x10, x11, x12, x13, x14, x15, x16   \* its variables, in the order of its module

vars == <<subject, x1, x2, x3, x4, x5, x6, x7, x8, x9, x10, x11, x12, x13, x14, x15, x16>>

\* What a step of a model with n variables leaves alone: the other ones.
Behind16 == <<subject>>
Behind13 == <<x14, x15, x16, Behind16>>
Behind12 == <<x13, Behind13>>
Behind11 == <<x12, Behind12>>
Behind10 == <<x11, Behind11>>
Behind9 == <<x10, Behind10>>
Behind8 == <<x9, Behind9>>
Behind6 == <<x7, x8, Behind8>>
Behind5 == <<x6, Behind6>>
Behind4 == <<x5, Behind5>>
Behind3 == <<x4, Behind4>>
Behind2 == <<x3, Behind3>>

\* No values.
Blank13 == x14 = 0 /\ x15 = 0 /\ x16 = 0
Blank12 == x13 = 0 /\ Blank13
Blank11 == x12 = 0 /\ Blank12
Blank10 == x11 = 0 /\ Blank11
Blank9 == x10 = 0 /\ Blank10
Blank8 == x9 = 0 /\ Blank9
Blank6 == x7 = 0 /\ x8 = 0 /\ Blank8
Blank5 == x6 = 0 /\ Blank6
Blank4 == x5 = 0 /\ Blank5
Blank3 == x4 = 0 /\ Blank4
Blank2 == x3 = 0 /\ Blank3

-----------------------------------------------------------------------------
(* RedundantAssignment *)

RedundantAssignmentSamples == INSTANCE RedundantAssignment WITH
  Vars <- {"x", "y"}, Initialized <- {"x", "y"}, Literals <- {"1", "2"}, MaxStatements <- 3,
  MaxSegs <- 4, Statements <- {}, phase <- x1, flow <- x2, ctl <- x3, cur <- x4,
  statements <- x5, refs <- x6, variableUsages <- x7, worklist <- x8, in <- x9, out <- x10, reports <- x11

RedundantAssignment == INSTANCE RedundantAssignment WITH
  Vars <- {"x", "y"}, Initialized <- {"x", "y"}, Literals <- {"1", "2"}, MaxStatements <- 3,
  MaxSegs <- 4, Statements <- RedundantAssignmentSamples!NestedStatements, phase <- x1,
  flow <- x2, ctl <- x3, cur <- x4, statements <- x5, refs <- x6, variableUsages <- x7,
  worklist <- x8, in <- x9, out <- x10, reports <- x11

ASSUME RedundantAssignment!RedundantAssumption

\* The message of no-redundant-assignments: the variable "already holds the
\* assigned value along all execution paths", whenever closures are called.
ReportedIsRedundant == subject = "redundant_assignment" => RedundantAssignment!ReportedIsRedundant

\* References stand in the order of evaluation: what an assignment assigns was
\* read, or assigned by the assignment inside it, just before.
InOrderOfEvaluation == subject = "redundant_assignment" => RedundantAssignment!InOrderOfEvaluation

\* reachingDefinitions over-approximates: a value that a variable of no closure
\* has where a segment starts is one of its values there, or they are unknown.
NoDefinitionMissed == subject = "redundant_assignment" => RedundantAssignment!NoDefinitionMissed

\* The loop over the worklist leaves no segment whose in is older than the out of
\* a predecessor.
NothingStale == subject = "redundant_assignment" => RedundantAssignment!NothingStale

\* The worklist becomes empty, although values are not monotone: unknown becomes
\* known when the assigned variable enters the map later.
ReachingDefinitionsTerminates ==
  (subject = "redundant_assignment" /\ RedundantAssignment!Propagating) ~> (subject = "redundant_assignment" /\ RedundantAssignment!Propagated)

-----------------------------------------------------------------------------
(* ReturnValues *)

ReturnValuesInputs ==
  [returns_paths |-> [Inits |-> {"call"}, Literals |-> {"1"}, MaxRefs |-> 1, MaxFunctions |-> 2],
   returns_values |-> [Inits |-> {"1", "2", "call"},
                       Literals |-> {"1", "2"},
                       MaxRefs |-> 4,
                       MaxFunctions |-> 1]]

ReturnValuesSubjects == {"returns_paths", "returns_values"}

ReturnValues(s) == INSTANCE ReturnValues WITH
  DeadCode <- FALSE, Shadowing <- FALSE, MaxReturns <- 2,
  Inits <- ReturnValuesInputs[s].Inits, Literals <- ReturnValuesInputs[s].Literals,
  MaxRefs <- ReturnValuesInputs[s].MaxRefs,
  MaxFunctions <- ReturnValuesInputs[s].MaxFunctions, functionContextStack <- x1,
  functions <- x2, reports <- x3

\* no-inconsistent-returns reports a function exactly when one of its paths
\* returns a value and another one none, by a return statement or at the end,
\* whatever functions it contains.
PathsDisagree == subject = "returns_paths" => ReturnValues("returns_paths")!PathsDisagree

\* All return statements of a function that no-invariant-returns reports return
\* the same value: what x may be is the same at all of them.
ReturnedValuesAgree == subject = "returns_values" => ReturnValues("returns_values")!ReturnedValuesAgree

-----------------------------------------------------------------------------
(* ParameterReassignment *)

ParameterReassignment == INSTANCE ParameterReassignment WITH
  Names <- {"p", "q"}, Bodies <- {"block"}, ArgumentsIn <- {"function"}, MaxDepth <- 3,
  MaxUses <- 4, open <- x1, contexts <- x2, uses <- x3, reports <- x4, expected <- x5

\* Every construct has its context: the stack is pushed and popped by different
\* events.
ContextsAreOpenConstructs == subject = "params_blocks" => ParameterReassignment!ContextsAreOpenConstructs

\* A parameter, a loop variable or an exception that is reassigned before its
\* value is used is reported, and nothing else, whatever names are shadowed and
\* wherever the uses stand.
ReassignedBeforeUse == subject = "params_blocks" => ParameterReassignment!ReassignedBeforeUse

-----------------------------------------------------------------------------
(* ForLoopRules *)

ForLoopRulesSamples == INSTANCE ForLoopRules WITH
  Inits <- {}, Tests <- {}, Updates <- {}, Bodies <- {}, Bound <- 5, loop <- x1,
  reports <- x2, env <- x3, pc <- x4, turns <- x5, seen <- x6

ForLoopRules == INSTANCE ForLoopRules WITH
  Inits <- ForLoopRulesSamples!AllInits, Tests <- ForLoopRulesSamples!SomeTests,
  Updates <- ForLoopRulesSamples!SomeUpdates, Bodies <- ForLoopRulesSamples!SomeBodies,
  Bound <- 5, loop <- x1, reports <- x2, env <- x3, pc <- x4, turns <- x5, seen <- x6

ASSUME ForLoopRules!BoundAssumption

\* A loop whose counter S2251 reports as moving in the wrong direction never
\* reaches its stop condition once it is entered, if the body leaves the
\* variables of the test alone: at most the first test fails.
WrongDirectionNeverStops == subject = "for_loops" => ForLoopRules!WrongDirectionNeverStops

\* A loop that initialises its counter, on an equality of it that S888 excuses,
\* ends.
ExcusedEqualityOfCounterEnds == subject = "for_loops" => ForLoopRules!ExcusedEqualityOfCounterEnds

\* When S1994 reports, the update cannot change the outcome of the test.
MisplacedUpdateIsUseless == subject = "for_loops" => ForLoopRules!MisplacedUpdateIsUseless

\* A loop that counts by a constant towards a literal and that no rule reports
\* ends, whatever its block body does to i and j: the four rules leave no hole
\* between them.
UnreportedLoopsEnd ==
  (subject = "for_loops" /\ ForLoopRules!UnreportedLoop) ~> (subject = "for_loops" /\ ForLoopRules!LoopEnded)

-----------------------------------------------------------------------------
(* LoopsAndNulls *)

LoopsAndNullsSamples == INSTANCE LoopsAndNulls WITH
  Loops <- {"for", "while", "do", "forof"},
  Places <- {"before", "init", "left", "test", "update", "body", "after"}, Conditions <- {},
  Depths <- {0, 1}, MaxUses <- 2, loop <- x1, condition <- x2, alreadyRaisedSymbols <- x3,
  uses <- x4

LoopsAndNulls == INSTANCE LoopsAndNulls WITH
  Loops <- {"for", "while", "do", "forof"},
  Places <- {"before", "init", "left", "test", "update", "body", "after"},
  Conditions <- LoopsAndNullsSamples!BothNested, Depths <- {0, 1}, MaxUses <- 2, loop <- x1,
  condition <- x2, alreadyRaisedSymbols <- x3, uses <- x4

\* A function in a loop that outlives an iteration is reported exactly when a
\* variable it shares with the other iterations changes between them.
SharedVariablesChange == subject = "loops_nulls" => LoopsAndNulls!SharedVariablesChange

\* When the short circuit reports x.p, x is null whenever x.p is evaluated.
ReportedMembersAreNull == subject = "loops_nulls" => LoopsAndNulls!ReportedMembersAreNull

\* A symbol is reported once in a file.
OneIssueForSymbol == subject = "loops_nulls" => LoopsAndNulls!OneIssueForSymbol

\* What is null is reported unless another function writes to it, or the symbol
\* was reported.
NullSymbolsAreReported == subject = "loops_nulls" => LoopsAndNulls!NullSymbolsAreReported

-----------------------------------------------------------------------------
(* TreeWalkRules *)

TreeWalkRulesInputs ==
  [control_statements |-> [Kinds |-> {"If", "ElseIf", "For", "Switch", "SwitchCase", "Labeled", "Break", "Continue", "BreakLabel", "ContinueLabel"},
                           Roles |-> {"none"}, MaxNodes |-> 4, Threshold |-> 1],
   control_expressions |-> [Kinds |-> {"Conditional", "Logical", "Call", "FunctionExpression", "ArrowFunction", "Generator", "Yield", "If"},
                            Roles |-> {"none", "callee"}, MaxNodes |-> 4, Threshold |-> 0],
   endless_loops |-> [Kinds |-> {"While", "ForOf", "Switch", "SwitchCase", "Labeled", "Break", "BreakLabel", "Return", "FunctionDeclaration", "ArrowFunction"},
                      Roles |-> {"none"}, MaxNodes |-> 4, Threshold |-> 2],
   hook_setters |-> [Kinds |-> {"Component", "FunctionDeclaration", "If", "UseState", "OtherState", "SetterCall"},
                     Roles |-> {"none"}, MaxNodes |-> 5, Threshold |-> 9],
   bitwise_tests |-> [Kinds |-> {"If", "Conditional", "AndOr", "Bitwise", "BitwiseAssignment", "ArrowFunction"},
                      Roles |-> {"none", "test"}, MaxNodes |-> 4, Threshold |-> 9]]

TreeWalkRulesSubjects == {"control_statements", "control_expressions", "endless_loops",
                          "hook_setters", "bitwise_tests"}

TreeWalkRules(s) == INSTANCE TreeWalkRules WITH
  MaxNodes <- TreeWalkRulesInputs[s].MaxNodes, Kinds <- TreeWalkRulesInputs[s].Kinds,
  Roles <- TreeWalkRulesInputs[s].Roles,
  Threshold <- TreeWalkRulesInputs[s].Threshold, tree <- x1, open <- x2, nodeStack <- x3,
  jumpTargets <- x4, statementLevel <- x5, yieldStack <- x6, hooks <- x7, bitwise <- x8,
  reports <- x9, done <- x10

ASSUME \A s \in TreeWalkRulesSubjects : TreeWalkRules(s)!BoundsAssumption

\* The stacks of the rules mirror the nodes being visited: whatever is nested in
\* whatever, no rule forgets or keeps a level (nested-control-flow.ts replaces
\* the top for an else-if and then does not pop it).
StacksMirrorTheWalk == subject = "control_statements" => TreeWalkRules("control_statements")!StacksMirrorTheWalk

\* S134 reports exactly the statements inside Threshold others, an else-if
\* counting with its if, and shows one location for each of them.
NestingReported == subject = "control_statements" => TreeWalkRules("control_statements")!NestingReported

\* S135 accuses no loop of a jump that does not concern it: every location is a
\* break or continue of the loop that does not end at an inner target.
JumpsConcernTheLoop == subject = "control_statements" => TreeWalkRules("control_statements")!JumpsConcernTheLoop

\* A loop with more than one break or continue of its own is reported by S135, in
\* programs without a continue in a switch.
LoopsWithManyBreaksReported == subject = "control_statements" => TreeWalkRules("control_statements")!LoopsWithManyBreaksReported

\* S1067 counts every conditional operator in one expression only, and with
\* Threshold 0 none is lost: levels are pushed and reset where they should.
OperatorsCountedOnce == subject = "control_expressions" => TreeWalkRules("control_expressions")!OperatorsCountedOnce

\* S3531 reports the generators with a body that yields nowhere outside nested
\* generators.
GeneratorsThatYieldAreSpared == subject = "control_expressions" => TreeWalkRules("control_expressions")!GeneratorsThatYieldAreSpared

\* S3358 reports a ternary only inside another ternary of the same function, with
\* no array or object between the two.
NestedTernaryInOneExpression == subject = "control_expressions" => TreeWalkRules("control_expressions")!NestedTernaryInOneExpression

\* Two computations of one measure: what S1541 counts in the functions and the
\* metric of the file differ by the code outside functions, the default cases and
\* the operators ?? alone; no node is counted for two functions.
FunctionsAddUpToTheFile == subject = "control_expressions" => TreeWalkRules("control_expressions")!FunctionsAddUpToTheFile

\* A loop reported by S2189 has no statement that ends it (S2189.html: every loop
\* should have an end condition).
ReportedLoopsAreEndless == subject = "endless_loops" => TreeWalkRules("endless_loops")!ReportedLoopsAreEndless

\* A loop without break, return or throw at any depth is reported, however its
\* nested loops and functions end.
EndlessLoopsReported == subject = "endless_loops" => TreeWalkRules("endless_loops")!EndlessLoopsReported

\* S6442 reports exactly the calls that every rendering of an outermost component
\* makes, of a setter that the component got from a hook: not those in nested
\* functions, of shadowing variables or under a condition, and whatever components
\* the file has before (no-hook-setter-in-body).
SettersOfTheRenderingAreReported == subject = "hook_setters" => TreeWalkRules("hook_setters")!SettersOfTheRenderingAreReported

\* S1529 reports exactly an operator & or | in the test of the nearest condition
\* around it that is the only binary bitwise operation of the file, in whatever order
\* the file has others (bitwise-operators).
TheOnlyOperatorOfATestIsReported == subject = "bitwise_tests" => TreeWalkRules("bitwise_tests")!TheOnlyOperatorOfATestIsReported

-----------------------------------------------------------------------------
(* TestCases *)

TestCasesSamples == INSTANCE TestCases WITH
  MaxSegments <- 3, MaxStatements <- 4, Helpers <- FALSE, Nested <- TRUE, Programs <- {},
  functions <- x1, edges <- x2, segments <- x3, statements <- x4, tests <- x5, calls <- x6,
  located <- x7, currentCase <- x8, currentDoneVariable <- x9, currentSegment <- x10,
  doneCall <- x11, doneSegment <- x12, segmentFirstStatement <- x13, catchWithDone <- x14,
  reports <- x15, verdict <- x16

TestCasesInputs ==
  [tests_done |-> [MaxSegments |-> 3,
                   MaxStatements |-> 4,
                   Nested |-> TRUE,
                   Programs |-> TestCasesSamples!NoPrograms],
   tests_catch |-> [MaxSegments |-> 4,
                    MaxStatements |-> 3,
                    Nested |-> FALSE,
                    Programs |-> TestCasesSamples!NoPrograms],
   tests_assertions |-> [MaxSegments |-> 0,
                         MaxStatements |-> 0,
                         Nested |-> FALSE,
                         Programs |-> TestCasesSamples!LayeredPrograms]]

TestCasesSubjects == {"tests_done", "tests_catch", "tests_assertions"}

TestCases(s) == INSTANCE TestCases WITH
  Helpers <- FALSE, MaxSegments <- TestCasesInputs[s].MaxSegments,
  MaxStatements <- TestCasesInputs[s].MaxStatements, Nested <- TestCasesInputs[s].Nested,
  Programs <- TestCasesInputs[s].Programs, functions <- x1, edges <- x2, segments <- x3,
  statements <- x4, tests <- x5, calls <- x6, located <- x7, currentCase <- x8,
  currentDoneVariable <- x9, currentSegment <- x10, doneCall <- x11, doneSegment <- x12,
  segmentFirstStatement <- x13, catchWithDone <- x14, reports <- x15, verdict <- x16

\* A statement is reported only if it runs after the call of done it is reported
\* with: the segment in which done was called is remembered across functions and
\* tests.
ReportedCodeRunsAfterDone == subject = "tests_done" => TestCases("tests_done")!ReportedCodeRunsAfterDone

\* A catch clause is reported only if it calls done.
ReportedCatchCallsDone == subject = "tests_catch" => TestCases("tests_catch")!ReportedCatchCallsDone

\* A test case misses an assertion exactly when none can be reached through the
\* functions it calls.
MissingAssertionsAreReported == subject = "tests_assertions" => TestCases("tests_assertions")!MissingAssertionsAreReported

-----------------------------------------------------------------------------
(* CallsAndAccessors *)

CallsAndAccessorsSamples == INSTANCE CallsAndAccessors WITH
  Calls <- {}, FieldLists <- {}, Accessors <- {}, MaxAccessors <- 1, call <- x1,
  fieldStack <- x2, currentFieldsStack <- x3, accessors <- x4

CallsAndAccessorsInputs ==
  [calls_order |-> [Calls |-> CallsAndAccessorsSamples!ManyCalls,
                    Accessors |-> CallsAndAccessorsSamples!FewAccessors],
   accessors_fields |-> [Calls |-> CallsAndAccessorsSamples!FewCalls,
                         Accessors |-> CallsAndAccessorsSamples!SomeAccessors]]

CallsAndAccessorsSubjects == {"calls_order", "accessors_fields"}

CallsAndAccessors(s) == INSTANCE CallsAndAccessors WITH
  FieldLists <- CallsAndAccessorsSamples!Fields, MaxAccessors <- 1,
  Calls <- CallsAndAccessorsInputs[s].Calls,
  Accessors <- CallsAndAccessorsInputs[s].Accessors, call <- x1, fieldStack <- x2,
  currentFieldsStack <- x3, accessors <- x4

\* An issue of arguments-order names two arguments that would both have the name
\* of their parameter if they were exchanged.
ExchangingArgumentsHelps == subject = "calls_order" => CallsAndAccessors("calls_order")!ExchangingArgumentsHelps

\* A call is reported if two arguments of one type are swapped and no enclosing
\* if compares them.
SwappedArgumentsAreReported == subject = "calls_order" => CallsAndAccessors("calls_order")!SwappedArgumentsAreReported

\* Arguments that an enclosing if statement compares are not reported.
ComparedArgumentsAreIgnored == subject = "calls_order" => CallsAndAccessors("calls_order")!ComparedArgumentsAreIgnored

\* An accessor that uses a field of its own class with its name is not reported,
\* whatever classes and objects stand between them.
ReportedAccessorsMissTheirField == subject = "accessors_fields" => CallsAndAccessors("accessors_fields")!ReportedAccessorsMissTheirField

\* An accessor that uses another field although there is one with its name is
\* reported.
MismatchesAreReported == subject = "accessors_fields" => CallsAndAccessors("accessors_fields")!MismatchesAreReported

-----------------------------------------------------------------------------
(* NameResolution *)

NameResolutionInputs ==
  [names_scopes |-> [Names |-> {"a", "b"},
                     Kinds |-> {"absent", "parameter", "import", "require", "alias", "property", "destructured", "rewritten"},
                     Shadowing |-> TRUE,
                     Cycles |-> TRUE,
                     StackSize |-> 6],
   names_values |-> [Names |-> {"a", "b", "c"},
                     Kinds |-> {"absent", "parameter", "member", "alias", "value"},
                     Shadowing |-> FALSE,
                     Cycles |-> FALSE,
                     StackSize |-> 8]]

NameResolutionSubjects == {"names_scopes", "names_values"}

NameResolution(s) == INSTANCE NameResolution WITH
  Names <- NameResolutionInputs[s].Names, Kinds <- NameResolutionInputs[s].Kinds,
  Shadowing <- NameResolutionInputs[s].Shadowing, Cycles <- NameResolutionInputs[s].Cycles,
  StackSize <- NameResolutionInputs[s].StackSize, defs <- x1, task <- x2, scope <- x3,
  name <- x4, start <- x5, calls <- x6, fqn <- x7, visited <- x8, result <- x9

ASSUME \A s \in NameResolutionSubjects : NameResolution(s)!NamesAssumption

ASSUME \A s \in NameResolutionSubjects : NameResolution(s)!StackAssumption

\* A fully qualified name is the path of the value the name has by the scoping of
\* the language, whatever variables lie in between and whatever names they shadow
\* (getFullyQualifiedNameRaw, checkFqnFromRequire).
NamesFollowTheScopes == subject = "names_scopes" => NameResolution("names_scopes")!NamesFollowTheScopes

\* Every name gets its answer within the depth of the variables, definitions that
\* go round in circles included (visitedVars).
NamesAreResolved == subject = "names_scopes" => NameResolution("names_scopes")!NamesAreResolved

\* The value of a name is the last of the definitions it leads to, unless it is
\* destructured.
ValuesFollowTheScopes == subject = "names_values" => NameResolution("names_values")!ValuesFollowTheScopes

\* Every value gets its answer: the rule returns, and with it the linter.
ValuesAreResolved == subject = "names_values" => NameResolution("names_values")!ValuesAreResolved

-----------------------------------------------------------------------------
(* AwsCdkRules *)

AwsCdkRulesSamples == INSTANCE AwsCdkRules WITH
  Constructs <- {"Volume", "FileSystem", "CfnFileSystem"}, Options <- {}, construct <- x1,
  options <- x2, reports <- x3, done <- x4

AwsCdkRulesInputs ==
  [cdk_options |-> [Constructs |-> {"Volume", "FileSystem", "CfnFileSystem"},
                    Options |-> AwsCdkRulesSamples!EncryptedOptions],
   cdk_names |-> [Constructs |-> {"Queue", "Instance"},
                  Options |-> AwsCdkRulesSamples!NameOptions],
   cdk_storage |-> [Constructs |-> {"DatabaseCluster", "CfnDBCluster"},
                    Options |-> AwsCdkRulesSamples!StorageOptions],
   cdk_domain |-> [Constructs |-> {"Domain"}, Options |-> AwsCdkRulesSamples!DomainOptions],
   cdk_instance |-> [Constructs |-> {"DatabaseInstance"},
                     Options |-> AwsCdkRulesSamples!InstanceOptions],
   cdk_interfaces |-> [Constructs |-> {"CfnInstance"},
                       Options |-> AwsCdkRulesSamples!InterfaceOptions],
   cdk_bucket |-> [Constructs |-> {"Bucket ssl", "Bucket versioning"},
                   Options |-> AwsCdkRulesSamples!BucketArguments],
   cdk_exposure |-> [Constructs |-> {"Bucket granted", "Bucket public", "Bucket encryption"},
                     Options |-> AwsCdkRulesSamples!ExposureOptions],
   cdk_tls |-> [Constructs |-> {"CfnDomainName", "DomainName", "CfnTlsDomain", "TlsDomain", "CfnListener",
                                "LoadBalancerListener"},
                Options |-> AwsCdkRulesSamples!TlsOptions],
   cdk_listeners |-> [Constructs |-> {"ApplicationListener", "NetworkListener", "NetworkLoadBalancer addListener"},
                      Options |-> AwsCdkRulesSamples!ListenerOptions],
   cdk_balancers |-> [Constructs |-> {"LoadBalancer", "CfnLoadBalancer"},
                      Options |-> AwsCdkRulesSamples!BalancerOptions]]

AwsCdkRulesSubjects == {"cdk_options", "cdk_names", "cdk_storage", "cdk_domain", "cdk_instance",
                        "cdk_interfaces", "cdk_bucket", "cdk_exposure", "cdk_tls", "cdk_listeners",
                        "cdk_balancers"}

AwsCdkRules(s) == INSTANCE AwsCdkRules WITH
  Constructs <- AwsCdkRulesInputs[s].Constructs, Options <- AwsCdkRulesInputs[s].Options,
  construct <- x1, options <- x2, reports <- x3, done <- x4

\* Options that are written in the file are judged by the value they have at run
\* time, through variables, spreads and repeated keys (AwsCdkCheckArguments): the
\* option is reported exactly when that value is refused or is missing and
\* needed.
KnownOptionsAreJudgedExactly ==
  \A s \in {"cdk_options", "cdk_names", "cdk_tls"} : subject = s => AwsCdkRules(s)!KnownOptionsAreJudgedExactly

\* Options the file does not show, a parameter, a value that is written several
\* times or a spread of one, are not reported (isUnresolved, getProperty).
\* Options in a variable that is written but cannot be followed are: isUnresolved
\* only knows variables without a write.
UnknownOptionsAreSpared == subject = "cdk_options" => AwsCdkRules("cdk_options")!UnknownOptionsAreSpared

\* A database is reported only when all that the file shows of its storage is
\* unencrypted (checkStorage, getProperty): a setting behind a variable or a
\* spread counts.
StorageReportsAreJustified == subject = "cdk_storage" => AwsCdkRules("cdk_storage")!StorageReportsAreJustified

\* A search domain whose encryption is known to be off is reported and one that
\* may be encrypted is not (domainChecker on the results of helpers/result.ts).
DomainsAreJudgedExactly == subject = "cdk_domain" => AwsCdkRules("cdk_domain")!DomainsAreJudgedExactly

\* A database instance in a public subnet is reported unless it is known not to
\* be accessible (checkDatabaseInstance).
PublicInstancesAreReported == subject = "cdk_instance" => AwsCdkRules("cdk_instance")!PublicInstancesAreReported

\* An instance is reported exactly when some of its network interfaces asks for a
\* public address and is not known to be in a private subnet, wherever it stands
\* in the list (checkCfnInstance, findInArray).
EveryInterfaceIsJudged == subject = "cdk_interfaces" => AwsCdkRules("cdk_interfaces")!EveryInterfaceIsJudged

\* Options in an object with plain keys, none of them twice, and at most one
\* variable in between are judged exactly by the bucket rules (s3.ts getProperty,
\* getValueOfExpression).
VisibleBucketsAreJudged == subject = "cdk_bucket" => AwsCdkRules("cdk_bucket")!VisibleBucketsAreJudged

\* Of the options the bucket rules can see, exactly the ones that grant public
\* access, leave it open or leave the bucket unencrypted are reported.
ExposedBucketsAreReported == subject = "cdk_exposure" => AwsCdkRules("cdk_exposure")!ExposedBucketsAreReported

\* One listener of a list is enough: a classic load balancer is reported exactly
\* when some listener, wherever it stands, names a protocol without TLS, in
\* whatever case it is written (traverseProperties, disallowedValue).
EveryListenerIsJudged == subject = "cdk_balancers" => AwsCdkRules("cdk_balancers")!EveryListenerIsJudged

\* A listener is reported exactly when it speaks a protocol without TLS, by its
\* name or, where the name is left to the library, by its port or the lack of
\* certificates; one whose protocol the file does not show is not
\* (httpOrSensitivePort, NetworkListener).
ListenersAreJudgedByTheirProtocol == subject = "cdk_listeners" => AwsCdkRules("cdk_listeners")!ListenersAreJudgedByTheirProtocol

-----------------------------------------------------------------------------
(* AwsNetworkRules *)

AwsNetworkRules == INSTANCE AwsNetworkRules WITH
  Ports <- {21, 22, 23, 3389}, Wraps <- {"direct", "variables", "unknown"}, access <- x1,
  visited <- x2, reports <- x3

\* An access rule is reported exactly when it opens an administration port to
\* every address, in whatever form it is written (checkAllowFrom,
\* checkIngressObject and the others all read the range their own way).
AdminPortsOpenToAllAreReported == subject = "network_rules" => AwsNetworkRules!AdminPortsOpenToAllAreReported

\* No report rests on a value the file does not show (getArgument,
\* getPropertyValue).
UnknownRulesAreSpared == subject = "network_rules" => AwsNetworkRules!UnknownRulesAreSpared

-----------------------------------------------------------------------------
(* AwsPolicyRules *)

AwsPolicyRulesSamples == INSTANCE AwsPolicyRules WITH
  Effects <- {}, Lists <- {}, Principals <- {}, Conditions <- {TRUE, FALSE}, statement <- x1,
  form <- x2, reports <- x3

AwsPolicyRules == INSTANCE AwsPolicyRules WITH
  Effects <- AwsPolicyRulesSamples!MCEffects, Lists <- AwsPolicyRulesSamples!MCLists,
  Principals <- AwsPolicyRulesSamples!MCPrincipals, Conditions <- {TRUE, FALSE},
  statement <- x1, form <- x2, reports <- x3

\* A statement is judged the same in each of its forms (policyStatementChecker
\* and policyDocumentChecker with the two vocabularies of iam.ts).
FormsAgree == subject = "iam_policies" => AwsPolicyRules!FormsAgree

\* A statement whose effect is denied or cannot be known is never reported, one
\* that grants every action always is (getSensitiveEffect).
OnlyGrantsAreReported == subject = "iam_policies" => AwsPolicyRules!OnlyGrantsAreReported

\* All resources may be granted for KMS actions, and for nothing that goes with
\* them.
OnlyKmsIsExcused == subject = "iam_policies" => AwsPolicyRules!OnlyKmsIsExcused

\* A statement for everyone is reported, one for known principals is not
\* (getSensitivePrincipal).
PublicStatementsAreReported == subject = "iam_policies" => AwsPolicyRules!PublicStatementsAreReported

-----------------------------------------------------------------------------
(* SensitiveOptions *)

SensitiveOptionsSamples == INSTANCE SensitiveOptions WITH
  Calls <- {}, CheckedPermissions <- {}, call <- x1, reports <- x2, done <- x3

SensitiveOptionsInputs ==
  [options_library |-> [Calls |-> SensitiveOptionsSamples!LibraryCalls],
   options_values |-> [Calls |-> SensitiveOptionsSamples!ValueCalls],
   options_uses |-> [Calls |-> SensitiveOptionsSamples!UseCalls]]

SensitiveOptionsSubjects == {"options_library", "options_values", "options_uses"}

SensitiveOptions(s) == INSTANCE SensitiveOptions WITH
  Calls <- SensitiveOptionsInputs[s].Calls, CheckedPermissions <- {"geolocation", "camera", "notifications"}, call <- x1, reports <- x2, done <- x3

\* An option is reported only for a value it can have when the call is made: the
\* last entry of a repeated key counts, in the argument the library reads
\* (checkSensitiveCall, getObjectExpressionProperty).
OptionReportsAreJustified == subject = "options_library" => SensitiveOptions("options_library")!OptionReportsAreJustified

\* An insecure option that is written in the call, or behind one variable where
\* the rule follows it, is reported (checkSensitiveCall,
\* SensitiveMiddlewarePropertyRule).
VisibleOptionsAreReported == subject = "options_library" => SensitiveOptions("options_library")!VisibleOptionsAreReported

\* A policy of directives is reported exactly when, under either of the names, it
\* does not restrict the frames or the mixed content, or allows no frame at all
\* (frame-ancestors, no-mixed-content).
DirectivesAreJudgedByBothNames == subject = "options_values" => SensitiveOptions("options_values")!DirectivesAreJudgedByBothNames

\* A cookie is reported for a flag exactly when that flag is switched off, or
\* when a cookie of csurf is asked for without saying more; the two rules do not
\* mix up their flags and a flag that is left out is not reported
\* (CookieFlagCheck).
CookieFlagsAreJudged == subject = "options_values" => SensitiveOptions("options_values")!CookieFlagsAreJudged

\* The check of the host name is reported when it is switched off or replaced by
\* a function that accepts every name
\* (shouldReportOnCheckServerIdentityCallBack).
HostnamesAreJudged == subject = "options_values" => SensitiveOptions("options_values")!HostnamesAreJudged

\* Connections that may use an old version are reported; flags that contain
\* anything unknown are not (isValidSecureOptions).
OldVersionsAreReported == subject = "options_values" => SensitiveOptions("options_values")!OldVersionsAreReported

\* A token that is verified without its signature is reported, the list of
\* algorithms being read through its variables, and the algorithms that are
\* listed decide, not the key (checkCallToVerify).
UnsignedTokensAreReported == subject = "options_values" => SensitiveOptions("options_values")!UnsignedTokensAreReported

\* A key is reported exactly when its length is known and too short for its
\* algorithm, at the boundary too; a length of zero is not (TooShort reads zero
\* as no length).
ShortKeysAreReported == subject = "options_values" => SensitiveOptions("options_values")!ShortKeysAreReported

\* A use of a feature of the browser is reported exactly when the options of the
\* rule ask for that feature and the call uses it (no-intrusive-permissions).
IntrusiveUsesAreReported == subject = "options_uses" => SensitiveOptions("options_uses")!IntrusiveUsesAreReported

\* An archive is reported only when nothing filters its entries, whatever a
\* spread adds, and always when the visible options have no filter (canBeProperty).
UnfilteredArchivesAreReported == subject = "options_uses" => SensitiveOptions("options_uses")!UnfilteredArchivesAreReported

\* A command that the file does not show is reported exactly when a shell runs it
\* (isQuestionable in os-command).
ShellCommandsAreReported == subject = "options_uses" => SensitiveOptions("options_uses")!ShellCommandsAreReported

\* A window on another site is reported exactly when its features do not keep the
\* opener from it (link-with-target-blank).
OpenersAreWithheld == subject = "options_uses" => SensitiveOptions("options_uses")!OpenersAreWithheld

\* A callback that is authenticated is reported exactly when the session is kept
\* and no call in it, at any depth, makes a new one (session-regeneration).
KeptSessionsAreReported == subject = "options_uses" => SensitiveOptions("options_uses")!KeptSessionsAreReported

\* csurf is reported exactly when it is told, in the call, to ignore a method that
\* changes something (checkIgnoredMethods).
IgnoredMethodsAreJudged == subject = "options_uses" => SensitiveOptions("options_uses")!IgnoredMethodsAreJudged

\* The sanitizer of mustache is reported exactly when a function that returns the
\* text as it is takes its place (isInvalidSanitizerFunction).
EmptySanitizersAreReported == subject = "options_uses" => SensitiveOptions("options_uses")!EmptySanitizersAreReported

-----------------------------------------------------------------------------
(* FileScanRules *)

FileScanRulesSamples == INSTANCE FileScanRules WITH
  Variables <- {"f", "g"}, AssignedValues <- {}, Queries <- {}, Kinds <- {"create", "assign"},
  OptionCalls <- {}, MaxStatements <- 3, MaxFiles <- 2, fileUploadSizeLimit <- 8000000,
  standardSizeLimit <- 2000000, Parent <- <<1>>, Manifests <- {}, CompilerOptions <- {}, Modules <- {},
  Whitelist <- {}, Builtins <- {}, phase <- x1, file <- x2, statements <- x3, uploads <- x4,
  limits <- x5, isDbModuleImported <- x6, usingCryptoInFile <- x7, reports <- x8,
  packageJson <- x9, dirCache <- x10, cache <- x11, context <- x12,
  usages <- x13

NoProject ==
  [Parent |-> FileScanRulesSamples!OneDirectory, Manifests |-> {<<>>},
   CompilerOptions |-> FileScanRulesSamples!NoOptions, Modules |-> FileScanRulesSamples!NoModules]

FileScanRulesInputs ==
  [scan_forms |-> [Variables |-> {"f", "g"},
                   Queries |-> FileScanRulesSamples!NoQueries,
                   Kinds |-> {"create", "assign"},
                   OptionCalls |-> FileScanRulesSamples!NoCalls,
                   MaxStatements |-> 3,
                   MaxFiles |-> 2,
                   Project |-> NoProject],
   scan_queries |-> [Variables |-> {"f"},
                     Queries |-> FileScanRulesSamples!SomeQueries,
                     Kinds |-> {"import", "require", "query", "subtle", "encrypt", "subtle.encrypt", "encrypt(subtle)",
                               "createCipher"},
                     OptionCalls |-> FileScanRulesSamples!NoCalls,
                     MaxStatements |-> 2,
                     MaxFiles |-> 2,
                     Project |-> NoProject],
   scan_uploads |-> [Variables |-> {"f"},
                     Queries |-> FileScanRulesSamples!NoQueries,
                     Kinds |-> {"options"},
                     OptionCalls |-> FileScanRulesSamples!UploadCalls,
                     MaxStatements |-> 1,
                     MaxFiles |-> 1,
                     Project |-> NoProject],
   scan_imports |-> [Variables |-> {"f"},
                     Queries |-> FileScanRulesSamples!NoQueries,
                     Kinds |-> {"module"},
                     OptionCalls |-> FileScanRulesSamples!NoCalls,
                     MaxStatements |-> 1,
                     MaxFiles |-> 2,
                     Project |-> [Parent |-> FileScanRulesSamples!Packages,
                                  Manifests |-> FileScanRulesSamples!SomeManifests,
                                  CompilerOptions |-> FileScanRulesSamples!SomeOptions,
                                  Modules |-> FileScanRulesSamples!SomeModules]],
   scan_calls |-> [Variables |-> {"f", "g", "global"},
                   Queries |-> FileScanRulesSamples!NoQueries,
                   Kinds |-> {"new", "call"},
                   OptionCalls |-> FileScanRulesSamples!NoCalls,
                   MaxStatements |-> 4,
                   MaxFiles |-> 2,
                   Project |-> NoProject]]

FileScanRulesSubjects == {"scan_forms", "scan_queries", "scan_uploads", "scan_imports",
                          "scan_calls"}

FileScanRules(s) == INSTANCE FileScanRules WITH
  AssignedValues <- FileScanRulesSamples!SettingValues, fileUploadSizeLimit <- 8000000,
  standardSizeLimit <- 2000000, Variables <- FileScanRulesInputs[s].Variables,
  Queries <- FileScanRulesInputs[s].Queries, Kinds <- FileScanRulesInputs[s].Kinds,
  OptionCalls <- FileScanRulesInputs[s].OptionCalls,
  MaxStatements <- FileScanRulesInputs[s].MaxStatements,
  MaxFiles <- FileScanRulesInputs[s].MaxFiles, Parent <- FileScanRulesInputs[s].Project.Parent,
  Manifests <- FileScanRulesInputs[s].Project.Manifests,
  CompilerOptions <- FileScanRulesInputs[s].Project.CompilerOptions,
  Modules <- FileScanRulesInputs[s].Project.Modules, Whitelist <- {<<"@scope", "d">>},
  Builtins <- {<<"fs">>}, phase <- x1, file <- x2, statements <- x3,
  uploads <- x4, limits <- x5, isDbModuleImported <- x6, usingCryptoInFile <- x7,
  reports <- x8, packageJson <- x9, dirCache <- x10, cache <- x11, context <- x12,
  usages <- x13

ASSUME \A s \in FileScanRulesSubjects : FileScanRules(s)!LimitsAssumption

\* A form is reported at its creation exactly when the assignments that follow
\* leave it without a directory or with the extensions of the sender, the last
\* one deciding; nothing of an earlier or abandoned file is reported
\* (formidableObjects in file-uploads).
FormsAreJudgedByTheirSettings == subject = "scan_forms" => FileScanRules("scan_forms")!FormsAreJudgedByTheirSettings

\* The size of a form is reported where it was set last, exactly when it is too
\* large, and no longer once a size is assigned that the file does not show
\* (visitAssignment in content-length).
LimitsAreJudgedByTheLastSize == subject = "scan_forms" => FileScanRules("scan_forms")!LimitsAreJudgedByTheLastSize

\* Every query with a variable part, built by a concatenation or a template after
\* the import of a database module in the same file, is reported, and no other
\* query than those with a part that is not a literal (isDbModuleImported,
\* isVariableConcat).
BuiltQueriesAreReported == subject = "scan_queries" => FileScanRules("scan_queries")!BuiltQueriesAreReported

\* A call encrypt is reported exactly when crypto.subtle was used before it in
\* this file or is used by the call itself (usingCryptoInFile, read on exit from
\* the call).
EncryptionFollowsSubtle == subject = "scan_queries" => FileScanRules("scan_queries")!EncryptionFollowsSubtle

\* An upload by multer whose size is not limited, or limited to more than the
\* parameter, is reported; a known smaller limit is not (checkMulter, checkSize).
UnlimitedUploadsAreReported == subject = "scan_uploads" => FileScanRules("scan_uploads")!UnlimitedUploadsAreReported

\* The two caches of no-implicit-dependencies agree whatever the order of the files
\* and of the edits: the dependencies of a directory are those of the directories
\* above it, each read once.
CachesAgree == subject = "scan_imports" => FileScanRules("scan_imports")!CachesAgree

\* The package of an import that is reported is declared in no package.json above
\* the file, unless one was edited after it was read; a module that is not found
\* otherwise and whose package nothing declares is reported, though other files
\* were judged before (no-implicit-dependencies).
ImportsAreJudgedByTheirPackages == subject = "scan_imports" => FileScanRules("scan_imports")!ImportsAreJudgedByTheirPackages

\* A function of the file is reported at its first use that differs from an earlier
\* one, and never again, however its uses go on to alternate (hasIssue in
\* inconsistent-function-call).
InconsistentUsesAreReportedOnce == subject = "scan_calls" => FileScanRules("scan_calls")!InconsistentUsesAreReportedOnce

-----------------------------------------------------------------------------
(* ExpressMiddleware *)

ExpressMiddlewareInputs ==
  [express_apps |-> [Apps |-> {"app", "other"}, MaxStatements |-> 3],
   express_routes |-> [Apps |-> {"app"}, MaxStatements |-> 4]]

ExpressMiddlewareSubjects == {"express_apps", "express_routes"}

ExpressMiddleware(s) == INSTANCE ExpressMiddleware WITH
  MaxMiddlewares <- 1, Apps <- ExpressMiddlewareInputs[s].Apps,
  MaxStatements <- ExpressMiddlewareInputs[s].MaxStatements, file <- x1, ended <- x2,
  app <- x3, appInstantiation <- x4, isSafe <- x5, globalCsrfProtection <- x6,
  importedCsrfMiddleware <- x7, reports <- x8

ASSUME \A s \in ExpressMiddlewareSubjects : ExpressMiddleware(s)!BoundsAssumption

\* At the end of the file the first application is reported exactly when nothing
\* after its creation hides the header or hands the application over (x-powered-
\* by).
BareApplicationIsReported == \A s \in ExpressMiddlewareSubjects : subject = s => ExpressMiddleware(s)!BareApplicationIsReported

\* A route is reported only when no middleware before it or on it protects its
\* application (checkCallExpression of csrf, whose protection is global to the
\* file).
ReportedRoutesAreUnprotected == subject = "express_apps" => ExpressMiddleware("express_apps")!ReportedRoutesAreUnprotected

\* Every sensitive setting of a middleware of the application is reported, once.
EverySensitivePropertyIsReported == subject = "express_apps" => ExpressMiddleware("express_apps")!EverySensitivePropertyIsReported

\* Middlewares of other applications are not judged.
OnlyFollowedAppIsJudged == subject = "express_apps" => ExpressMiddleware("express_apps")!OnlyFollowedAppIsJudged

\* In a file with one application every unprotected route after the import is
\* reported.
UnprotectedRoutesAreReported == subject = "express_routes" => ExpressMiddleware("express_routes")!UnprotectedRoutesAreReported

-----------------------------------------------------------------------------
(* MessageOrigin *)

MessageOrigin == INSTANCE MessageOrigin WITH
  Places <- {"top", "test", "body", "innerTest", "function", "functionTest"},
  Listeners <- {"function", "name", "constant", "calling"}, Fallbacks <- FALSE,
  BlockScoped <- FALSE, DataReads <- TRUE, MaxStatements <- 3, statements <- x1, result <- x2

ASSUME MessageOrigin!PlacesAssumption

\* A listener that tests the origin of its event, directly, as the one of
\* originalEvent or through a variable that joins both, is not reported, whatever
\* else it does before.
ComparedOriginsAreAccepted == subject = "message_listeners" => MessageOrigin!ComparedOriginsAreAccepted

\* A listener that reads nothing but the data of its event, or the origin outside
\* of every if of its function, is reported: event references alone verify
\* nothing.
UnreadOriginsAreReported == subject = "message_listeners" => MessageOrigin!UnreadOriginsAreReported

-----------------------------------------------------------------------------
(* TestAssertions *)

TestAssertionsSamples == INSTANCE TestAssertions WITH
  Chains <- {}, Constructs <- {}, MaxConstructs <- 1, around <- x1, testCases <- x2,
  statement <- x3, reports <- x4

TestAssertionsInputs ==
  [assert_certain |-> [Chains |-> TestAssertionsSamples!CertainChains,
                       Constructs |-> TestAssertionsSamples!TestOnly,
                       MaxConstructs |-> 1],
   assert_compare |-> [Chains |-> TestAssertionsSamples!CompareChains,
                       Constructs |-> TestAssertionsSamples!MCConstructs,
                       MaxConstructs |-> 2]]

TestAssertionsSubjects == {"assert_certain", "assert_compare"}

TestAssertions(s) == INSTANCE TestAssertions WITH
  Chains <- TestAssertionsInputs[s].Chains, Constructs <- TestAssertionsInputs[s].Constructs,
  MaxConstructs <- TestAssertionsInputs[s].MaxConstructs, around <- x1, testCases <- x2,
  statement <- x3, reports <- x4

\* The two elements reported as uncertain belong to one assertion.
UncertainElementsApply == subject = "assert_certain" => TestAssertions("assert_certain")!UncertainElementsApply

\* An assertion of throw is reported in tests only, and never when it is negated.
ThrowReportsAreNotNegated == subject = "assert_certain" => TestAssertions("assert_certain")!ThrowReportsAreNotNegated

\* The test cases around a statement are exactly the ones of the stack.
TestCasesAreAround == subject = "assert_compare" => TestAssertions("assert_compare")!TestCasesAreAround

\* Arguments are reported as inverted in a test case only, where a literal stands
\* for the actual value and none for the expected one, and both are there.
InvertedArgumentsAreInverted == subject = "assert_compare" => TestAssertions("assert_compare")!InvertedArgumentsAreInverted

\* An assertion is reported for the same argument twice exactly when its target
\* and arguments hold the same expression twice.
SameArgumentsAreReported == subject = "assert_compare" => TestAssertions("assert_compare")!SameArgumentsAreReported

\* A statement of expect, or of should on a variable, that checks nothing is
\* reported.
IdleAssertionsAreReported == subject = "assert_compare" => TestAssertions("assert_compare")!IdleAssertionsAreReported

-----------------------------------------------------------------------------
(* RegexRules *)

RegexRulesSamples == INSTANCE RegexRules WITH
  Patterns <- {}, Classes <- {}, Quantifiers <- {}, Escapes <- {}, Literals <- {}, Flags <- {}, Strings <- {},
  visited <- x1, flags <- x2, reports <- x3

RegexRulesInputs ==
  [rules_anchors |-> [Patterns |-> RegexRulesSamples!AnchorPatterns,
                      Classes |-> RegexRulesSamples!None,
                      Quantifiers |-> RegexRulesSamples!None,
                      Escapes |-> RegexRulesSamples!None,
                      Literals |-> RegexRulesSamples!None,
                      Flags |-> RegexRulesSamples!NoFlags,
                      Strings |-> RegexRulesSamples!AllStrings],
   rules_groups |-> [Patterns |-> RegexRulesSamples!GroupPatterns,
                     Classes |-> RegexRulesSamples!None,
                     Quantifiers |-> RegexRulesSamples!None,
                     Escapes |-> RegexRulesSamples!None,
                     Literals |-> RegexRulesSamples!None,
                     Flags |-> RegexRulesSamples!NoFlags,
                     Strings |-> RegexRulesSamples!ShortStrings],
   rules_reluctant |-> [Patterns |-> RegexRulesSamples!ReluctantPatterns,
                        Classes |-> RegexRulesSamples!None,
                        Quantifiers |-> RegexRulesSamples!None,
                        Escapes |-> RegexRulesSamples!None,
                        Literals |-> RegexRulesSamples!None,
                        Flags |-> RegexRulesSamples!SomeFlags,
                        Strings |-> RegexRulesSamples!AllStrings],
   rules_concise |-> [Patterns |-> RegexRulesSamples!None,
                      Classes |-> RegexRulesSamples!BulkyClasses,
                      Quantifiers |-> RegexRulesSamples!AllQuantifiers,
                      Escapes |-> RegexRulesSamples!None,
                      Literals |-> RegexRulesSamples!None,
                      Flags |-> RegexRulesSamples!SomeFlags,
                      Strings |-> RegexRulesSamples!None],
   rules_unicode |-> [Patterns |-> RegexRulesSamples!None,
                      Classes |-> RegexRulesSamples!SingleClasses,
                      Quantifiers |-> RegexRulesSamples!None,
                      Escapes |-> RegexRulesSamples!AnyEscapes,
                      Literals |-> RegexRulesSamples!None,
                      Flags |-> RegexRulesSamples!UnicodeFlags,
                      Strings |-> RegexRulesSamples!None],
   rules_location |-> [Patterns |-> RegexRulesSamples!None,
                       Classes |-> RegexRulesSamples!None,
                       Quantifiers |-> RegexRulesSamples!None,
                       Escapes |-> RegexRulesSamples!None,
                       Literals |-> RegexRulesSamples!StringLiterals,
                       Flags |-> RegexRulesSamples!NoFlags,
                       Strings |-> RegexRulesSamples!None]]

RegexRulesSubjects == {"rules_anchors", "rules_groups", "rules_reluctant", "rules_concise",
                       "rules_unicode", "rules_location"}

RegexRules(s) == INSTANCE RegexRules WITH
  Patterns <- RegexRulesInputs[s].Patterns, Classes <- RegexRulesInputs[s].Classes,
  Quantifiers <- RegexRulesInputs[s].Quantifiers, Escapes <- RegexRulesInputs[s].Escapes,
  Literals <- RegexRulesInputs[s].Literals,
  Flags <- RegexRulesInputs[s].Flags, Strings <- RegexRulesInputs[s].Strings, visited <- x1,
  flags <- x2, reports <- x3

\* Where anchor-precedence asks to group the alternatives, the anchors at the
\* ends really belong to one alternative only: taking them out of it changes what
\* is matched.
GroupingMatters == subject = "rules_anchors" => RegexRules("rules_anchors")!GroupingMatters

\* The only empty alternative of a group, if no-empty-alternatives does not
\* report it, makes the group optional: the group without it, with a question
\* mark, has the same matches in the same order.
SparedEmptyIsOptional == subject = "rules_groups" => RegexRules("rules_groups")!SparedEmptyIsOptional

\* An alternation single-character-alternation reports matches what a character
\* class matches.
AlternationIsAClass == subject = "rules_groups" => RegexRules("rules_groups")!AlternationIsAClass

\* A reluctant quantifier reported as repeating the minimum of times only, or as
\* the same as a greedy one, is so on every input, without the flag m.
ReluctanceIsUseless == subject = "rules_reluctant" => RegexRules("rules_reluctant")!ReluctanceIsUseless

\* The class concise-regex suggests matches the same characters (a dot only with
\* the flag s).
ConciseClassIsEqual == subject = "rules_concise" => RegexRules("rules_concise")!ConciseClassIsEqual

\* The quantifier concise-regex suggests has the bounds of the one it replaces.
ConciseQuantifierIsEqual == subject = "rules_concise" => RegexRules("rules_concise")!ConciseQuantifierIsEqual

\* Unicode property escapes without the flag u, and only they, are found, when
\* enough text follows the regular expression.
PropertiesAreFound == subject = "rules_unicode" => RegexRules("rules_unicode")!PropertiesAreFound

\* Code point escapes \u{hhhh} and \u{hhhhh} of decimal digits are reported
\* without the flag u.
CodePointsAreReported == subject = "rules_unicode" => RegexRules("rules_unicode")!CodePointsAreReported

\* A character that single-char-in-character-classes asks to take out of its
\* class means the same outside of it.
SingleMeansTheSame == subject = "rules_unicode" => RegexRules("rules_unicode")!SingleMeansTheSame

\* The nodes from one character of the regular expression to another are located
\* at the text of these characters in the literal, escapes and line continuations
\* included, and an empty node before the character that follows it
\* (helpers/regex/range.ts, tokenizer.ts).
LocationsAreThoseOfTheText == subject = "rules_location" => RegexRules("rules_location")!LocationsAreThoseOfTheText

\* Whatever regexpp says of the positions, the location of a node lies inside its
\* literal, so that getLocFromIndex finds it.
LocationsAreInTheLiteral == subject = "rules_location" => RegexRules("rules_location")!LocationsAreInTheLiteral

-----------------------------------------------------------------------------
(* RegexUsage *)

RegexUsageSamples == INSTANCE RegexUsage WITH
  Regexes <- {"r", "s"}, Matchers <- {"m", "n"}, Shapes <- {}, References <- {},
  Kinds <- {"declare", "match", "index", "name", "replace"}, MaxStatements <- 3,
  DeclaredFirst <- TRUE, shape <- x1, statements <- x2, knowledge <- x3, bindings <- x4,
  regexes <- x5, invocations <- x6, resets <- x7, reports <- x8, done <- x9

RegexUsageInputs ==
  [regex_groups |-> [Regexes |-> {"r", "s"},
                     Matchers |-> {"m", "n"},
                     Shapes |-> RegexUsageSamples!GroupShapes,
                     References |-> RegexUsageSamples!FewReferences,
                     Kinds |-> {"declare", "match", "index", "name", "replace"},
                     MaxStatements |-> 3],
   regex_access |-> [Regexes |-> {"r", "s"},
                     Matchers |-> {"m"},
                     Shapes |-> RegexUsageSamples!GroupShapes,
                     References |-> RegexUsageSamples!FewReferences,
                     Kinds |-> {"declare", "match", "index", "name"},
                     MaxStatements |-> 4],
   regex_references |-> [Regexes |-> {"r"},
                         Matchers |-> {"m"},
                         Shapes |-> RegexUsageSamples!NumberShapes,
                         References |-> RegexUsageSamples!OneDigit,
                         Kinds |-> {"declare", "replace"},
                         MaxStatements |-> 3],
   regex_state |-> [Regexes |-> {"r", "s"},
                    Matchers |-> {"m"},
                    Shapes |-> RegexUsageSamples!FlagShapes,
                    References |-> RegexUsageSamples!FewReferences,
                    Kinds |-> {"declare", "exec", "reset"},
                    MaxStatements |-> 4]]

RegexUsageSubjects == {"regex_groups", "regex_access", "regex_references", "regex_state"}

RegexUsage(s) == INSTANCE RegexUsage WITH
  DeclaredFirst <- TRUE, Regexes <- RegexUsageInputs[s].Regexes,
  Matchers <- RegexUsageInputs[s].Matchers, Shapes <- RegexUsageInputs[s].Shapes,
  References <- RegexUsageInputs[s].References, Kinds <- RegexUsageInputs[s].Kinds,
  MaxStatements <- RegexUsageInputs[s].MaxStatements, shape <- x1, statements <- x2,
  knowledge <- x3, bindings <- x4, regexes <- x5, invocations <- x6, resets <- x7,
  reports <- x8, done <- x9

\* A named group is reported as unused exactly when the regular expression is
\* matched into a variable and nothing in the file uses the group: no access to a
\* match, no replacement and no reference inside the regular expression
\* (knowledge, bindings, checkUnusedGroups).
UnusedGroupsAreUnused == subject = "regex_groups" => RegexUsage("regex_groups")!UnusedGroupsAreUnused

\* An access to a match is judged by the regular expression that was matched last
\* into the variable: a name it does not have and a number that has a name are
\* reported (checkNonExistingGroupReference, checkIndexBasedGroupReference).
AccessesAreJudgedByTheLastMatch == subject = "regex_access" => RegexUsage("regex_access")!AccessesAreJudgedByTheLastMatch

\* A replacement that refers to no group of its regular expression is reported
\* (extractReferences, isReferencingExistingGroup).
MissingGroupsAreReported == subject = "regex_references" => RegexUsage("regex_references")!MissingGroupsAreReported

\* A global regular expression is reported exactly when it meets different inputs
\* and its state is never reset, neither by an assignment nor by an empty input
\* (checkMultipleInputsRegex).
SharedStateIsReported == subject = "regex_state" => RegexUsage("regex_state")!SharedStateIsReported

-----------------------------------------------------------------------------
(* RegexComplexity *)

RegexComplexitySamples == INSTANCE RegexComplexity WITH
  Expressions <- {}, Variables <- {}, THRESHOLD <- 6, MaxNodes <- 4, MaxDepth <- 4,
  MaxAlternatives <- 3, expression <- x1, parts <- x2, position <- x3, open <- x4,
  nesting <- x5, complexity <- x6, log <- x7, reported <- x8

RegexComplexityInputs ==
  [complexity_visit |-> [Expressions |-> RegexComplexitySamples!OneLiteral,
                         Variables |-> RegexComplexitySamples!NoVariables,
                         THRESHOLD |-> 6,
                         MaxNodes |-> 4,
                         MaxDepth |-> 4,
                         MaxAlternatives |-> 3],
   complexity_parts |-> [Expressions |-> RegexComplexitySamples!TwoLiterals,
                         Variables |-> RegexComplexitySamples!NoVariables,
                         THRESHOLD |-> 3,
                         MaxNodes |-> 4,
                         MaxDepth |-> 3,
                         MaxAlternatives |-> 2],
   complexity_sources |-> [Expressions |-> RegexComplexitySamples!Sources,
                           Variables |-> RegexComplexitySamples!MCVariables,
                           THRESHOLD |-> 3,
                           MaxNodes |-> 0,
                           MaxDepth |-> 0,
                           MaxAlternatives |-> 1]]

RegexComplexitySubjects == {"complexity_visit", "complexity_parts", "complexity_sources"}

RegexComplexity(s) == INSTANCE RegexComplexity WITH
  Expressions <- RegexComplexityInputs[s].Expressions,
  Variables <- RegexComplexityInputs[s].Variables,
  THRESHOLD <- RegexComplexityInputs[s].THRESHOLD,
  MaxNodes <- RegexComplexityInputs[s].MaxNodes,
  MaxDepth <- RegexComplexityInputs[s].MaxDepth,
  MaxAlternatives <- RegexComplexityInputs[s].MaxAlternatives, expression <- x1, parts <- x2,
  position <- x3, open <- x4, nesting <- x5, complexity <- x6, log <- x7, reported <- x8

\* While a literal is visited the complexity is the one described: it depends on
\* the counter of the nesting being put back whenever a node is left.
ComplexityIsAsDescribed == subject = "complexity_visit" => RegexComplexity("complexity_visit")!ComplexityIsAsDescribed

\* A part is reported exactly when what is described of all its literals together
\* is above the threshold.
PartsAreJudged == subject = "complexity_parts" => RegexComplexity("complexity_parts")!PartsAreJudged

\* "The complexity is calculated for each variable individually": the literals of
\* a variable are one part, and no literal is left out.
PartsAreVariables == subject = "complexity_sources" => RegexComplexity("complexity_sources")!PartsAreVariables

-----------------------------------------------------------------------------
(* CharacterClass *)

CharacterClassSamples == INSTANCE CharacterClass WITH
  MAX_CODE_POINT <- 6, Upper <- {}, Lower <- {}, Elements <- {}, MaxElements <- 3,
  IgnoreCase <- {TRUE, FALSE}, ignoreCase <- x1, elements <- x2, contents <- x3,
  duplicates <- x4

CharacterClass == INSTANCE CharacterClass WITH
  MAX_CODE_POINT <- 6, Upper <- CharacterClassSamples!ToUpper,
  Lower <- CharacterClassSamples!ToLower, Elements <- CharacterClassSamples!AllElements,
  MaxElements <- 3, IgnoreCase <- {TRUE, FALSE}, ignoreCase <- x1, elements <- x2,
  contents <- x3, duplicates <- x4

ASSUME CharacterClass!CodePointAssumption

\* A class is reported only when two of its elements match a common character,
\* for ranges whose ends keep their order when folded, and without the flag i
\* always then.
ReportedIffDuplicates == subject = "character_class" => CharacterClass!ReportedIffDuplicates

\* While no duplicate was found, the map covers exactly the characters of the
\* elements, so that the next element is compared with all of them.
CoveredWhileDistinct == subject = "character_class" => CharacterClass!CoveredWhileDistinct

-----------------------------------------------------------------------------
(* CommentedCode *)

CommentedCodeSamples == INSTANCE CommentedCode WITH
  Texts <- {}, MaxItems <- 4, file <- x1, reports <- x2

CommentedCodeInputs ==
  [commented_groups |-> [Texts |-> CommentedCodeSamples!PlainTexts, MaxItems |-> 4],
   commented_texts |-> [Texts |-> CommentedCodeSamples!CodeTexts, MaxItems |-> 1]]

CommentedCodeSubjects == {"commented_groups", "commented_texts"}

CommentedCode(s) == INSTANCE CommentedCode WITH
  Texts <- CommentedCodeInputs[s].Texts, MaxItems <- CommentedCodeInputs[s].MaxItems,
  file <- x1, reports <- x2

ASSUME \A s \in CommentedCodeSubjects : CommentedCode(s)!CommentsAssumption

\* Every comment is in exactly one group and keeps its place in it
\* (getGroupedComments).
EveryCommentIsGrouped == subject = "commented_groups" => CommentedCode("commented_groups")!EveryCommentIsGrouped

\* The quick fix of a report removes from the first to the last comment of the
\* group; no code stands between them (areAdjacentLineComments).
RemovalSparesCode == subject = "commented_groups" => CommentedCode("commented_groups")!RemovalSparesCode

\* Code that is cut in the middle of a block is still recognised
\* (injectMissingBraces): a single comment of calls and braces that close no more
\* than they open is reported.
CutCodeIsRecognised == subject = "commented_texts" => CommentedCode("commented_texts")!CutCodeIsRecognised

\* The last characters of a block comment, white space, stars and slashes, do not
\* hide that a line is code (EndWithDetector).
MarginDoesNotHideCode == subject = "commented_texts" => CommentedCode("commented_texts")!MarginDoesNotHideCode

-----------------------------------------------------------------------------
(* LayoutRules *)

LayoutRules == INSTANCE LayoutRules WITH
  Subjects <- {"statements", "conditions", "lines", "functions"}, Columns <- {0, 1, 2},
  MaxLine <- 4, BodyHeights <- {0}, Positions <- {"statement"}, MaxTokens <- 2, MaxLines <- 3,
  CommentsOfLine <- 1, Names <- {"", "f", "F"}, MaxFunctions <- 2, subject <- x1,
  statements <- x2, condition <- x3, lines <- x4, functionStack <- x5, functionKnowledge <- x6

\* no-unenclosed-multiline-block reports the statement behind a body of one line
\* without braces exactly when it looks like a part of the body: it is on the
\* line of the body or to the right of the statement the body belongs to.
LooksEnclosed == subject = "layout_rules" => LayoutRules!LooksEnclosed

\* The size of the block in the message reaches from the body to the last
\* statement under it.
PileIsWholeBlock == subject = "layout_rules" => LayoutRules!PileIsWholeBlock

\* The size of a function is the number of its lines with code.
LinesOfCode == subject = "layout_rules" => LayoutRules!LinesOfCode

\* A long function is ignored only if it is invoked at once, or has a name with a
\* capital letter and returns an element itself: what the functions in it return
\* does not count.
OnlyComponentsAreIgnored == subject = "layout_rules" => LayoutRules!OnlyComponentsAreIgnored

-----------------------------------------------------------------------------
(* NamesAndImports *)

NamesAndImportsInputs ==
  [unused_names |-> [Subjects |-> {"parameters", "variables"}, Trailings |-> {TRUE, FALSE},
                     Kinds |-> {}, Specifying |-> {}, MaxImports |-> 0],
   unused_imports |-> [Subjects |-> {"imports"}, Trailings |-> {FALSE},
                       Kinds |-> {}, Specifying |-> {}, MaxImports |-> 0],
   imports_kept |-> [Subjects |-> {"duplicates"}, Trailings |-> {}, Kinds |-> {"value", "type"},
                     Specifying |-> {{}, {"default"}, {"namespace"}, {"named"}, {"default", "namespace"}, {"default", "named"}},
                     MaxImports |-> 3],
   imports_parse |-> [Subjects |-> {"duplicates"}, Trailings |-> {}, Kinds |-> {"value"},
                      Specifying |-> {{"default"}, {"named"}, {"default", "named"}},
                      MaxImports |-> 4]]

NamesAndImportsSubjects == {"unused_names", "unused_imports", "imports_kept", "imports_parse"}

NamesAndImports(s) == INSTANCE NamesAndImports WITH
  Shapes <- {"(p)", "p"}, Commas <- {FALSE}, MaxNames <- 3,
  Scopes <- {"module", "function", "block"}, Subjects <- NamesAndImportsInputs[s].Subjects,
  Trailings <- NamesAndImportsInputs[s].Trailings, Kinds <- NamesAndImportsInputs[s].Kinds,
  Specifying <- NamesAndImportsInputs[s].Specifying, MaxImports <- NamesAndImportsInputs[s].MaxImports,
  subject <- x1, case <- x2, imports <- x3, written <- x4, fixing <- x5, parses <- x6

\* After the quick fix that removes an unused parameter the function has the
\* other parameters, and the code around it is the same.
RemovesOneParameter == subject = "unused_names" => NamesAndImports("unused_names")!RemovesOneParameter

\* Unused variables are reported in functions and, unless they are vars of the
\* whole file, in the statements of a file; no other variables are.
LocalVariables == subject = "unused_names" => NamesAndImports("unused_names")!LocalVariables

\* After the quick fix of an unused import the statement imports the other names.
RemovesOneImport == subject = "unused_imports" => NamesAndImports("unused_imports")!RemovesOneImport

\* However the reports are fixed, one after the other, a named import is never
\* lost, and the default and the namespace neither when there is one:
\* mergeSpecifiers takes what both declarations have, and only the reported one
\* is removed.
SpecifiersAreKept == subject = "imports_kept" => NamesAndImports("imports_kept")!SpecifiersAreKept

\* A quick fix leaves a file that parses, so that the next report, on a file with
\* more imports of the module, can be fixed as well.
FixedFilesParse == subject = "imports_parse" => NamesAndImports("imports_parse")!FixedFilesParse

-----------------------------------------------------------------------------
(* What the runs ask *)

\* What is said of programs agrees with what happens when they run: the values
\* that reaching-definitions finds redundant are, on every path, and so is what
\* the rules say of loops, of the functions in them and of null.
ProgramsAreJudgedAsTheyRun ==
  /\ ReportedIsRedundant
  /\ InOrderOfEvaluation
  /\ NoDefinitionMissed
  /\ NothingStale
  /\ WrongDirectionNeverStops
  /\ ExcusedEqualityOfCounterEnds
  /\ MisplacedUpdateIsUseless
  /\ ReportedLoopsAreEndless
  /\ EndlessLoopsReported
  /\ SharedVariablesChange
  /\ ReportedMembersAreNull
  /\ OneIssueForSymbol
  /\ NullSymbolsAreReported

\* What rules keep during the walk is what the tree says: their stacks and flags
\* are those of the constructs that are open, and names are followed to what they
\* stand for by the scoping of the language, with an answer for circles too.
VerdictsFollowTheTree ==
  /\ StacksMirrorTheWalk
  /\ NestingReported
  /\ JumpsConcernTheLoop
  /\ LoopsWithManyBreaksReported
  /\ OperatorsCountedOnce
  /\ GeneratorsThatYieldAreSpared
  /\ NestedTernaryInOneExpression
  /\ FunctionsAddUpToTheFile
  /\ SettersOfTheRenderingAreReported
  /\ TheOnlyOperatorOfATestIsReported
  /\ PathsDisagree
  /\ ReturnedValuesAgree
  /\ ContextsAreOpenConstructs
  /\ ReassignedBeforeUse
  /\ ReportedCodeRunsAfterDone
  /\ ReportedCatchCallsDone
  /\ MissingAssertionsAreReported
  /\ NamesFollowTheScopes
  /\ NamesAreResolved
  /\ ValuesFollowTheScopes
  /\ ValuesAreResolved
  /\ ExchangingArgumentsHelps
  /\ SwappedArgumentsAreReported
  /\ ComparedArgumentsAreIgnored
  /\ ReportedAccessorsMissTheirField
  /\ MismatchesAreReported

\* Loops end: that over the worklist of reaching-definitions although segments come
\* back on it, and those of the analysed programs that no rule reports.
LoopsEnd ==
  /\ ReachingDefinitionsTerminates
  /\ UnreportedLoopsEnd

\* Constructs, policies and access rules of AWS and calls of libraries are judged
\* by the values and options that take effect, in whatever form they are written
\* and by the statements before them in their own file only; what the file does
\* not show is spared.
CallsAreJudgedByTheirValues ==
  /\ KnownOptionsAreJudgedExactly
  /\ UnknownOptionsAreSpared
  /\ StorageReportsAreJustified
  /\ DomainsAreJudgedExactly
  /\ PublicInstancesAreReported
  /\ EveryInterfaceIsJudged
  /\ VisibleBucketsAreJudged
  /\ ExposedBucketsAreReported
  /\ EveryListenerIsJudged
  /\ ListenersAreJudgedByTheirProtocol
  /\ AdminPortsOpenToAllAreReported
  /\ UnknownRulesAreSpared
  /\ FormsAgree
  /\ OnlyGrantsAreReported
  /\ OnlyKmsIsExcused
  /\ PublicStatementsAreReported
  /\ OptionReportsAreJustified
  /\ VisibleOptionsAreReported
  /\ DirectivesAreJudgedByBothNames
  /\ CookieFlagsAreJudged
  /\ HostnamesAreJudged
  /\ OldVersionsAreReported
  /\ UnsignedTokensAreReported
  /\ ShortKeysAreReported
  /\ IntrusiveUsesAreReported
  /\ UnfilteredArchivesAreReported
  /\ ShellCommandsAreReported
  /\ OpenersAreWithheld
  /\ KeptSessionsAreReported
  /\ IgnoredMethodsAreJudged
  /\ EmptySanitizersAreReported
  /\ FormsAreJudgedByTheirSettings
  /\ LimitsAreJudgedByTheLastSize
  /\ BuiltQueriesAreReported
  /\ EncryptionFollowsSubtle
  /\ UnlimitedUploadsAreReported
  /\ CachesAgree
  /\ ImportsAreJudgedByTheirPackages
  /\ InconsistentUsesAreReportedOnce

\* Applications, listeners and assertions are judged by what happens to them in
\* the order of the statements, and by nothing that happens to others.
StatementsAreJudgedInOrder ==
  /\ BareApplicationIsReported
  /\ ReportedRoutesAreUnprotected
  /\ EverySensitivePropertyIsReported
  /\ OnlyFollowedAppIsJudged
  /\ UnprotectedRoutesAreReported
  /\ ComparedOriginsAreAccepted
  /\ UnreadOriginsAreReported
  /\ UncertainElementsApply
  /\ ThrowReportsAreNotNegated
  /\ TestCasesAreAround
  /\ InvertedArgumentsAreInverted
  /\ SameArgumentsAreReported
  /\ IdleAssertionsAreReported

\* What the rules say of regular expressions, classes and groups agrees with what
\* they match and with how the file uses them.
RegexesAreJudgedByTheirMatches ==
  /\ GroupingMatters
  /\ SparedEmptyIsOptional
  /\ AlternationIsAClass
  /\ ReluctanceIsUseless
  /\ ConciseClassIsEqual
  /\ ConciseQuantifierIsEqual
  /\ PropertiesAreFound
  /\ CodePointsAreReported
  /\ SingleMeansTheSame
  /\ LocationsAreThoseOfTheText
  /\ LocationsAreInTheLiteral
  /\ UnusedGroupsAreUnused
  /\ AccessesAreJudgedByTheLastMatch
  /\ MissingGroupsAreReported
  /\ SharedStateIsReported
  /\ ComplexityIsAsDescribed
  /\ PartsAreJudged
  /\ PartsAreVariables
  /\ ReportedIffDuplicates
  /\ CoveredWhileDistinct

\* Comments, layout and names are judged as they stand in the text, and a quick
\* fix takes away what was reported and nothing else, however often fixes follow
\* each other.
FixesLeaveTheRest ==
  /\ EveryCommentIsGrouped
  /\ RemovalSparesCode
  /\ CutCodeIsRecognised
  /\ MarginDoesNotHideCode
  /\ LooksEnclosed
  /\ PileIsWholeBlock
  /\ LinesOfCode
  /\ OnlyComponentsAreIgnored
  /\ RemovesOneParameter
  /\ LocalVariables
  /\ RemovesOneImport
  /\ SpecifiersAreKept
  /\ FixedFilesParse

-----------------------------------------------------------------------------
(***************************************************************************)
(* The rules that follow control flow, scopes and trees.                    *)
(***************************************************************************)
FlowInit ==
  /\ subject \in Subjects
  /\ \/ subject = "redundant_assignment" /\ RedundantAssignment!Init /\ Blank11
     \/ \E s \in ReturnValuesSubjects : subject = s /\ ReturnValues(s)!Init /\ Blank3
     \/ subject = "params_blocks" /\ ParameterReassignment!Init /\ Blank5
     \/ subject = "for_loops" /\ ForLoopRules!Init /\ Blank6
     \/ subject = "loops_nulls" /\ LoopsAndNulls!Init /\ Blank4
     \/ \E s \in TreeWalkRulesSubjects : subject = s /\ TreeWalkRules(s)!Init /\ Blank10
     \/ \E s \in TestCasesSubjects : subject = s /\ TestCases(s)!Init
     \/ \E s \in CallsAndAccessorsSubjects : subject = s /\ CallsAndAccessors(s)!Init /\ Blank4
     \/ \E s \in NameResolutionSubjects : subject = s /\ NameResolution(s)!Init /\ Blank9

FlowNext ==
  \/ subject = "redundant_assignment" /\ RedundantAssignment!Next /\ UNCHANGED Behind11
  \/ \E s \in ReturnValuesSubjects : subject = s /\ ReturnValues(s)!Next /\ UNCHANGED Behind3
  \/ subject = "params_blocks" /\ ParameterReassignment!Next /\ UNCHANGED Behind5
  \/ subject = "for_loops" /\ ForLoopRules!Next /\ UNCHANGED Behind6
  \/ subject = "loops_nulls" /\ LoopsAndNulls!Next /\ UNCHANGED Behind4
  \/ \E s \in TreeWalkRulesSubjects : subject = s /\ TreeWalkRules(s)!Next /\ UNCHANGED Behind10
  \/ \E s \in TestCasesSubjects : subject = s /\ TestCases(s)!Next /\ UNCHANGED Behind16
  \/ \E s \in CallsAndAccessorsSubjects : subject = s /\ CallsAndAccessors(s)!Next /\ UNCHANGED Behind4
  \/ \E s \in NameResolutionSubjects : subject = s /\ NameResolution(s)!Next /\ UNCHANGED Behind9

\* The worklist of Program:exit goes on, and a loop under analysis with its turns.
FlowSpec ==
  /\ FlowInit /\ [][FlowNext]_vars
  /\ WF_vars(subject = "redundant_assignment" /\ (RedundantAssignment!Propagate \/ RedundantAssignment!CheckSegments)
             /\ UNCHANGED Behind11)
  /\ WF_vars(subject = "for_loops" /\ ForLoopRules!Next /\ UNCHANGED Behind6)

(***************************************************************************)
(* The rules about libraries and cloud constructs, and those about texts.   *)
(***************************************************************************)
LibraryAndTextInit ==
  /\ subject \in Subjects
  /\ \/ \E s \in AwsCdkRulesSubjects : subject = s /\ AwsCdkRules(s)!Init /\ Blank4
     \/ subject = "network_rules" /\ AwsNetworkRules!Init /\ Blank3
     \/ subject = "iam_policies" /\ AwsPolicyRules!Init /\ Blank3
     \/ \E s \in SensitiveOptionsSubjects : subject = s /\ SensitiveOptions(s)!Init /\ Blank3
     \/ \E s \in FileScanRulesSubjects : subject = s /\ FileScanRules(s)!Init /\ Blank13
     \/ \E s \in ExpressMiddlewareSubjects : subject = s /\ ExpressMiddleware(s)!Init /\ Blank8
     \/ subject = "message_listeners" /\ MessageOrigin!Init /\ Blank2
     \/ \E s \in TestAssertionsSubjects : subject = s /\ TestAssertions(s)!Init /\ Blank4
     \/ \E s \in RegexRulesSubjects : subject = s /\ RegexRules(s)!Init /\ Blank3
     \/ \E s \in RegexUsageSubjects : subject = s /\ RegexUsage(s)!Init /\ Blank9
     \/ \E s \in RegexComplexitySubjects : subject = s /\ RegexComplexity(s)!Init /\ Blank8
     \/ subject = "character_class" /\ CharacterClass!Init /\ Blank4
     \/ \E s \in CommentedCodeSubjects : subject = s /\ CommentedCode(s)!Init /\ Blank2
     \/ subject = "layout_rules" /\ LayoutRules!Init /\ Blank6
     \/ \E s \in NamesAndImportsSubjects : subject = s /\ NamesAndImports(s)!Init /\ Blank6

LibraryAndTextNext ==
  \/ \E s \in AwsCdkRulesSubjects : subject = s /\ AwsCdkRules(s)!Next /\ UNCHANGED Behind4
  \/ subject = "network_rules" /\ AwsNetworkRules!Next /\ UNCHANGED Behind3
  \/ subject = "iam_policies" /\ AwsPolicyRules!Next /\ UNCHANGED Behind3
  \/ \E s \in SensitiveOptionsSubjects : subject = s /\ SensitiveOptions(s)!Next /\ UNCHANGED Behind3
  \/ \E s \in FileScanRulesSubjects : subject = s /\ FileScanRules(s)!Next /\ UNCHANGED Behind13
  \/ \E s \in ExpressMiddlewareSubjects : subject = s /\ ExpressMiddleware(s)!Next /\ UNCHANGED Behind8
  \/ subject = "message_listeners" /\ MessageOrigin!Next /\ UNCHANGED Behind2
  \/ \E s \in TestAssertionsSubjects : subject = s /\ TestAssertions(s)!Next /\ UNCHANGED Behind4
  \/ \E s \in RegexRulesSubjects : subject = s /\ RegexRules(s)!Next /\ UNCHANGED Behind3
  \/ \E s \in RegexUsageSubjects : subject = s /\ RegexUsage(s)!Next /\ UNCHANGED Behind9
  \/ \E s \in RegexComplexitySubjects : subject = s /\ RegexComplexity(s)!Next /\ UNCHANGED Behind8
  \/ subject = "character_class" /\ CharacterClass!Next /\ UNCHANGED Behind4
  \/ \E s \in CommentedCodeSubjects : subject = s /\ CommentedCode(s)!Next /\ UNCHANGED Behind2
  \/ subject = "layout_rules" /\ LayoutRules!Next /\ UNCHANGED Behind6
  \/ \E s \in NamesAndImportsSubjects : subject = s /\ NamesAndImports(s)!Next /\ UNCHANGED Behind6

LibraryAndTextSpec == LibraryAndTextInit /\ [][LibraryAndTextNext]_vars

=============================================================================
