--------------------------- MODULE TreeWalkRules ---------------------------
(***************************************************************************)
(* Rules that keep a stack while ESLint walks the syntax tree: nesting of   *)
(* control flow (S134), jumps in loops (S135), conditional operators of an  *)
(* expression (S1067), generators without yield (S3531), nested ternaries   *)
(* (S3358), the complexity of functions (S1541) and of the file (metrics),  *)
(* setters of React hooks (S6442), bitwise operators in conditions (S1529). *)
(* The walk enters and leaves the nodes of every program of a small         *)
(* grammar; each handler updates the state of its rule.                     *)
(***************************************************************************)
EXTENDS Integers, Sequences, FiniteSets, SequencesExt

CONSTANTS
  Kinds,       \* node types that occur in the programs of the instance
  Roles,       \* places below their parents that nodes of the instance have
  MaxNodes,    \* bound on the nodes of a program
  Threshold    \* the parameter of S134, S1067 and S1541

BoundsAssumption == MaxNodes \in Nat /\ Threshold \in Nat

VARIABLES
  tree,            \* the nodes entered so far, in source order
  open,            \* indices of the nodes being visited, outermost first
  nodeStack,       \* nested-control-flow
  jumpTargets,     \* too-many-break-or-continue-in-loop
  statementLevel,  \* expression-complexity
  yieldStack,      \* generator-without-yield
  hooks,           \* no-hook-setter-in-body
  bitwise,         \* bitwise-operators
  reports,         \* [rule, node, locations] of every context.report
  done             \* Program:exit was handled

vars == <<tree, open, nodeStack, jumpTargets, statementLevel, yieldStack, hooks, bitwise, reports, done>>

Nodes == DOMAIN tree

Kind(i) == tree[i].kind

ParentOf(i) == tree[i].parent

\* A component is a function declaration with a name that starts with a capital letter.
Functions == {"FunctionDeclaration", "Component", "Generator", "FunctionExpression", "ArrowFunction"}

Loops == {"For", "While", "ForOf"}

Jumps == {"Break", "Continue", "BreakLabel", "ContinueLabel"}

\* const [state, setState] = useState(..), or the call of another function.
Declarations == {"UseState", "OtherState"}

Leaves == Jumps \cup Declarations \cup {"Return", "Throw", "SetterCall"}

\* The kinds that are expressions; the others are statements or cases.
Expressions == {"Conditional", "Logical", "Nullish", "Call", "DefineCall", "Object", "Array",
                "FunctionExpression", "ArrowFunction", "Yield", "AndOr", "Bitwise", "BitwiseAssignment"}

\* The kinds with a test.
Conditions == {"If", "ElseIf", "For", "While", "Conditional"}

\* Ancestors, outermost first: the open nodes while a node is visited.
OpenKind(k) == {j \in 1..Len(open) : Kind(open[j]) \in k}

Last0(S) == IF S = {} THEN 0 ELSE CHOOSE j \in S : \A l \in S : l <= j

InnerFunction == Last0(OpenKind(Functions))

\* The programs of the language: where a node of a kind may stand.
MayEnter(kind) ==
  LET parent == IF open = <<>> THEN "Program" ELSE Kind(Last(open))
      siblings == {i \in Nodes : open # <<>> /\ ParentOf(i) = Last(open)}
      inside(k) == \E j \in OpenKind(k) : j > InnerFunction
  IN /\ parent \notin Leaves
     /\ kind = "ElseIf" => parent \in {"If", "ElseIf"}
     /\ \A i \in siblings : Kind(i) # "ElseIf"
     /\ (kind \in {"SwitchCase", "DefaultCase"}) <=> (parent = "Switch")
     /\ kind = "DefaultCase" => \A i \in siblings : Kind(i) # "DefaultCase"
     /\ parent \in Expressions \ Functions => kind \in Expressions
     /\ parent \in {"Conditional", "Logical", "Nullish", "AndOr", "Bitwise"} => Cardinality(siblings) < 2
     /\ kind \in Declarations => siblings = {} /\ (open = <<>> => tree = <<>>)
     /\ kind = "Yield" => InnerFunction > 0 /\ Kind(open[InnerFunction]) = "Generator"
     /\ kind = "Return" => InnerFunction > 0
     /\ kind = "Break" => inside(Loops \cup {"Switch"})
     /\ kind = "Continue" => inside(Loops)
     /\ kind = "BreakLabel" => inside({"Labeled"})
     /\ kind = "ContinueLabel" =>
          \E j \in OpenKind({"Labeled"}) :
            j > InnerFunction /\ j < Len(open) /\ Kind(open[j + 1]) \in Loops
     /\ kind = "Labeled" => ~inside({"Labeled"})

Report(rule, node, locations) == [rule |-> rule, node |-> node, locations |-> locations]

(***************************************************************************)
(* nested-control-flow.                                                    *)
(***************************************************************************)
ControlFlowNodes == Loops \cup {"If", "ElseIf", "Try", "Switch"}

NestedEnter(kind, node) ==
  IF kind \notin ControlFlowNodes THEN nodeStack
  ELSE IF kind = "ElseIf" THEN Append(Front(nodeStack), node)
  ELSE Append(nodeStack, node)

NestedReport(kind, node) ==
  IF kind \in ControlFlowNodes \ {"ElseIf"} /\ Len(nodeStack) = Threshold
  THEN {Report("S134", node, Range(nodeStack))}
  ELSE {}

NestedExit(kind) ==
  IF kind \in ControlFlowNodes \ {"ElseIf"} /\ nodeStack # <<>> THEN Front(nodeStack) ELSE nodeStack

(***************************************************************************)
(* too-many-break-or-continue-in-loop.  An unlabelled jump looks for the    *)
(* label undefined, which loops and switches have.                         *)
(***************************************************************************)
JumpLabel(kind) == IF kind \in {"BreakLabel", "ContinueLabel", "Labeled"} THEN "label" ELSE "undefined"

IncreaseNumberOfJumps(kind, node) ==
  LET target == Last0({j \in DOMAIN jumpTargets : jumpTargets[j].label = JumpLabel(kind)})
  IN [j \in DOMAIN jumpTargets |->
        IF j >= target THEN [jumpTargets[j] EXCEPT !.jumps = Append(@, node)] ELSE jumpTargets[j]]

JumpsEnter(kind, node) ==
  IF kind \in Jumps THEN IncreaseNumberOfJumps(kind, node)
  ELSE IF kind \in Loops \cup {"Switch", "Labeled"}
       THEN Append(jumpTargets, [label |-> JumpLabel(kind), jumps |-> <<>>])
       ELSE jumpTargets

JumpsReport(kind, node) ==
  IF kind \in Loops /\ Len(Last(jumpTargets).jumps) > 1
  THEN {Report("S135", node, Range(Last(jumpTargets).jumps))}
  ELSE {}

JumpsExit(kind) ==
  IF kind \in Loops \cup {"Switch", "Labeled"} THEN Front(jumpTargets) ELSE jumpTargets

(***************************************************************************)
(* expression-complexity.  Arrow functions and plain function declarations  *)
(* open no new level.                                                      *)
(***************************************************************************)
ScopeLike == {"FunctionExpression", "Generator", "Object", "Call", "DefineCall"}

ConditionalLike == {"Conditional", "Logical", "Nullish"}

NewLevel == [nested |-> 0, operators |-> {}]

Top == Len(statementLevel)

ExpressionEnter(kind, node) ==
  IF kind \in ConditionalLike
  THEN [statementLevel EXCEPT ![Top] =
          [nested |-> @.nested + 1, operators |-> @.operators \cup {node}]]
  ELSE IF kind \in ScopeLike THEN Append(statementLevel, NewLevel) ELSE statementLevel

ExpressionReport(kind, node) ==
  IF /\ kind \in ConditionalLike
     /\ statementLevel[Top].nested = 1
     /\ Cardinality(statementLevel[Top].operators) > Threshold
  THEN {Report("S1067", node, statementLevel[Top].operators)}
  ELSE {}

ExpressionExit(kind) ==
  IF kind \in ConditionalLike
  THEN [statementLevel EXCEPT ![Top] =
          [nested |-> @.nested - 1,
           operators |-> IF @.nested = 1 THEN {} ELSE @.operators]]
  ELSE IF kind \in ScopeLike THEN Front(statementLevel) ELSE statementLevel

(***************************************************************************)
(* generator-without-yield and no-nested-conditional.                      *)
(***************************************************************************)
YieldEnter(kind) ==
  IF kind = "Generator" THEN Append(yieldStack, 0)
  ELSE IF kind = "Yield" /\ yieldStack # <<>>
       THEN [yieldStack EXCEPT ![Len(yieldStack)] = @ + 1]
       ELSE yieldStack

HasBody(node) == \E i \in Nodes : ParentOf(i) = node

YieldReport(kind, node) ==
  IF kind = "Generator" /\ Last(yieldStack) = 0 /\ HasBody(node)
  THEN {Report("S3531", node, {})} ELSE {}

YieldExit(kind) == IF kind = "Generator" THEN Front(yieldStack) ELSE yieldStack

BreaksNesting == {"Array", "Object", "FunctionExpression", "ArrowFunction"}

NestedConditionalReport(kind, node) ==
  LET outer == Last0(OpenKind({"Conditional"}))
  IN IF kind = "Conditional" /\ outer > 0
        /\ \A j \in OpenKind(BreaksNesting) : j < outer
     THEN {Report("S3358", node, {})} ELSE {}

(***************************************************************************)
(* cyclomatic-complexity: every function is computed at Program:exit by a   *)
(* visitor of its own that does not descend into nested functions.  The     *)
(* token of a logical expression is the first || or && after its left       *)
(* operand, wherever in the file it stands.                                *)
(***************************************************************************)
InSubtree(i, root) ==
  LET up[k \in Nodes \cup {0}] == IF k = 0 THEN FALSE ELSE k = root \/ up[ParentOf(k)]
  IN up[i]

\* The function a node is visited for: its nearest function, itself included.
OwnerOf(i) ==
  LET up[k \in Nodes \cup {0}] ==
        IF k = 0 \/ Kind(k) \in Functions THEN k ELSE up[ParentOf(k)]
  IN up[i]

\* The place of the operator of a logical expression: after its left operand.
OperatorPlace(i) ==
  LET children == {j \in Nodes : ParentOf(j) = i}
      left == CHOOSE j \in children : \A l \in children : j <= l
  IN IF children = {} THEN i ELSE Last0({j \in Nodes : InSubtree(j, left)})

After(i, j) ==
  OperatorPlace(j) > OperatorPlace(i) \/ (OperatorPlace(j) = OperatorPlace(i) /\ j < i)

HasToken(i) ==
  \/ Kind(i) \in Loops \cup {"If", "ElseIf", "SwitchCase", "Conditional", "Logical"}
  \/ Kind(i) = "Nullish" /\ \E j \in Nodes : Kind(j) = "Logical" /\ After(i, j)

ComplexityTokens(f) == {f} \cup {i \in Nodes : Kind(i) \notin Functions /\ OwnerOf(i) = f /\ HasToken(i)}

Ancestors(i) == {j \in Nodes : j # i /\ InSubtree(i, j)}

\* A function expression that is called at once is not checked.
ImmediatelyInvoked(f) == Kind(f) = "FunctionExpression" /\ tree[f].role = "callee"

\* Nor is one in a call of define, at any depth.
DefinesModule(f) == Kind(f) = "FunctionExpression" /\ \E j \in Ancestors(f) : Kind(j) = "DefineCall"

ComplexityReport ==
  {Report("S1541", f, ComplexityTokens(f)) :
     f \in {i \in Nodes : /\ Kind(i) \in Functions
                          /\ ~DefinesModule(i) /\ ~ImmediatelyInvoked(i)
                          /\ Cardinality(ComplexityTokens(i)) > Threshold}}

\* The complexity of the file, a metric: every node of these types.
ComplexityNodes ==
  {"If", "ElseIf", "Conditional", "SwitchCase", "DefaultCase", "Logical", "Nullish"} \cup Functions \cup Loops

FileComplexity == Cardinality({i \in Nodes : Kind(i) \in ComplexityNodes})

(***************************************************************************)
(* no-infinite-loop: the loops while(true) and for(;;) without an end       *)
(* condition.  The visitor of a body goes through arrow functions and       *)
(* through for-of loops as if they were plain statements.                  *)
(***************************************************************************)
InNestedLoop(j, loop) == \E t \in Ancestors(j) : loop \in Ancestors(t) /\ Kind(t) \in {"For", "While"}

EndCondition(j, loop) ==
  \/ Kind(j) = "Break" /\ ~InNestedLoop(j, loop)
  \/ Kind(j) = "BreakLabel"
  \/ Kind(j) \in {"Yield", "Return", "Throw"}

HasEndCondition(loop) ==
  \E j \in Nodes :
    /\ loop \in Ancestors(j)
    /\ \A f \in Ancestors(j) :
         loop \in Ancestors(f) => Kind(f) \notin {"FunctionExpression", "FunctionDeclaration", "Generator"}
    /\ EndCondition(j, loop)

EndlessReport(kind, node) ==
  IF kind \in {"For", "While"} /\ ~HasEndCondition(node) THEN {Report("S2189", node, {})} ELSE {}

(***************************************************************************)
(* no-hook-setter-in-body.  The programs have one name for setters: it is   *)
(* the variable of the innermost scope around that declares it.             *)
(***************************************************************************)
NoHooks == [reactComponentScope |-> 0, setters |-> {}]

DeclaredIn(scope) == {d \in Nodes : ParentOf(d) = scope /\ Kind(d) \in Declarations}

getVariableFromName ==
  LET scopes == <<0>> \o open
      found == {j \in DOMAIN scopes : DeclaredIn(scopes[j]) # {}}
  IN IF found = {} THEN {} ELSE DeclaredIn(scopes[Last0(found)])

isInsideFunctionScope ==
  hooks.reactComponentScope # 0 /\ InnerFunction > 0 /\ open[InnerFunction] = hooks.reactComponentScope

isInsideConditional == \E j \in OpenKind({"If", "ElseIf"}) : j > InnerFunction

matchesReactComponentName(kind) == kind = "Component"

isHookCall(kind) == kind = "UseState"

\* The outermost component is followed.
HooksEnter(kind, node) ==
  CASE matchesReactComponentName(kind) /\ hooks.reactComponentScope = 0 -> [hooks EXCEPT !.reactComponentScope = node]
    [] isHookCall(kind) /\ isInsideFunctionScope -> [hooks EXCEPT !.setters = @ \cup {node}]
    [] OTHER -> hooks

HooksReport(kind, node) ==
  IF /\ kind = "SetterCall"
     /\ isInsideFunctionScope /\ hooks.setters # {} /\ ~isInsideConditional
     /\ getVariableFromName \cap hooks.setters # {}
  THEN {Report("S6442", node, {})} ELSE {}

HooksExit(node) == IF node = hooks.reactComponentScope THEN NoHooks ELSE hooks

(***************************************************************************)
(* bitwise-operators.  AndOr is & or | on operands that are not numbers,    *)
(* Bitwise another binary operation.  Assignments and the unary operator    *)
(* are no binary expressions and go unseen.                                 *)
(***************************************************************************)
NoBitwise == [lonelyBitwiseAndOr |-> 0, fileContainsSeveralBitwiseOperations |-> FALSE]

BitwiseEnter(kind, node) ==
  IF kind = "AndOr" /\ bitwise.lonelyBitwiseAndOr = 0 THEN [bitwise EXCEPT !.lonelyBitwiseAndOr = node]
  ELSE IF kind \in {"AndOr", "Bitwise"} THEN [bitwise EXCEPT !.fileContainsSeveralBitwiseOperations = TRUE]
  ELSE bitwise

\* From the node upwards, functions included, to the first statement or operator with a test.
insideCondition(node) ==
  LET up[i \in Nodes] ==
        IF ParentOf(i) = 0 THEN FALSE
        ELSE IF Kind(ParentOf(i)) \in Conditions THEN tree[i].role = "test"
        ELSE up[ParentOf(i)]
  IN up[node]

BitwiseReport ==
  LET node == bitwise.lonelyBitwiseAndOr
  IN IF node # 0 /\ ~bitwise.fileContainsSeveralBitwiseOperations /\ insideCondition(node)
     THEN {Report("S1529", node, {})} ELSE {}

(***************************************************************************)
(* The walk.                                                               *)
(***************************************************************************)
Init ==
  /\ tree = <<>>
  /\ open = <<>>
  /\ nodeStack = <<>>
  /\ jumpTargets = <<>>
  /\ statementLevel = <<NewLevel>>
  /\ yieldStack = <<>>
  /\ hooks = NoHooks
  /\ bitwise = NoBitwise
  /\ reports = {}
  /\ done = FALSE

\* The first child of a call may be its callee, that of a condition its test.
MayHaveRole(kind, role) ==
  role # "none" =>
    /\ open # <<>> /\ \A i \in Nodes : ParentOf(i) # Last(open)
    /\ \/ role = "callee" /\ kind = "FunctionExpression" /\ Kind(Last(open)) = "Call"
       \/ role = "test" /\ kind \in Expressions /\ Kind(Last(open)) \in Conditions

Enter(kind, role) ==
  LET node == Len(tree) + 1
  IN /\ ~done
     /\ Len(tree) < MaxNodes
     /\ MayEnter(kind)
     /\ MayHaveRole(kind, role)
     /\ tree' = Append(tree, [kind |-> kind, role |-> role,
                              parent |-> IF open = <<>> THEN 0 ELSE Last(open)])
     /\ open' = Append(open, node)
     /\ nodeStack' = NestedEnter(kind, node)
     /\ jumpTargets' = JumpsEnter(kind, node)
     /\ statementLevel' = ExpressionEnter(kind, node)
     /\ yieldStack' = YieldEnter(kind)
     /\ hooks' = HooksEnter(kind, node)
     /\ bitwise' = BitwiseEnter(kind, node)
     /\ reports' = reports \cup NestedReport(kind, node) \cup NestedConditionalReport(kind, node) \cup HooksReport(kind, node)
     /\ UNCHANGED done

Exit ==
  /\ open # <<>>
  /\ LET node == Last(open)
         kind == Kind(node)
     IN /\ open' = Front(open)
        /\ nodeStack' = NestedExit(kind)
        /\ reports' = reports \cup JumpsReport(kind, node) \cup ExpressionReport(kind, node)
                        \cup YieldReport(kind, node) \cup EndlessReport(kind, node)
        /\ jumpTargets' = JumpsExit(kind)
        /\ statementLevel' = ExpressionExit(kind)
        /\ yieldStack' = YieldExit(kind)
        /\ hooks' = HooksExit(node)
        /\ UNCHANGED <<tree, bitwise, done>>

ProgramExit ==
  /\ open = <<>> /\ tree # <<>> /\ ~done
  /\ done' = TRUE
  /\ reports' = reports \cup ComplexityReport \cup BitwiseReport
  /\ UNCHANGED <<tree, open, nodeStack, jumpTargets, statementLevel, yieldStack, hooks, bitwise>>

Finished == done /\ UNCHANGED vars

Next ==
  \/ \E kind \in Kinds, role \in Roles : Enter(kind, role)
  \/ Exit
  \/ ProgramExit
  \/ Finished

Spec == Init /\ [][Next]_vars

-----------------------------------------------------------------------------
ReportsOf(rule) == {r \in reports : r.rule = rule}

\* The stacks of the rules mirror the nodes being visited: whatever is nested
\* in whatever, no rule forgets or keeps a level (nested-control-flow.ts
\* replaces the top for an else-if and then does not pop it).
StacksMirrorTheWalk ==
  /\ Len(nodeStack) = Cardinality(OpenKind(ControlFlowNodes \ {"ElseIf"}))
  /\ Len(jumpTargets) = Cardinality(OpenKind(Loops \cup {"Switch", "Labeled"}))
  /\ Len(statementLevel) = 1 + Cardinality(OpenKind(ScopeLike))
  /\ Len(yieldStack) = Cardinality(OpenKind({"Generator"}))

\* S134 reports exactly the statements inside Threshold others, an else-if
\* counting with its if, and shows one location for each of them.
NestingReported ==
  LET levels(i) == {j \in Ancestors(i) : Kind(j) \in ControlFlowNodes \ {"ElseIf"}}
      nested == {i \in Nodes : Kind(i) \in ControlFlowNodes \ {"ElseIf"}
                               /\ Cardinality(levels(i)) = Threshold}
  IN /\ {r.node : r \in ReportsOf("S134")} = nested
     /\ \A r \in ReportsOf("S134") : Cardinality(r.locations) = Threshold

\* The loops and switches a jump leaves or continues.
JumpsOf(loop) ==
  {j \in Nodes : Kind(j) \in Jumps /\ loop \in Ancestors(j) /\ OwnerOf(j) = OwnerOf(loop)}

\* A jump that stays inside a statement nested in the loop.
StaysInside(j, loop) ==
  \E t \in Ancestors(j) :
    /\ loop \in Ancestors(t)
    /\ \/ Kind(j) = "Break" /\ Kind(t) \in Loops \cup {"Switch"}
       \/ Kind(j) = "Continue" /\ Kind(t) \in Loops
       \/ Kind(j) \in {"BreakLabel", "ContinueLabel"} /\ Kind(t) = "Labeled"

\* S135 accuses no loop of a jump that does not concern it: every location is
\* a break or continue of the loop that does not end at an inner target.
JumpsConcernTheLoop ==
  \A r \in ReportsOf("S135") :
    \A j \in r.locations : j \in JumpsOf(r.node) /\ ~StaysInside(j, r.node)

\* A loop that was left with more than one break or continue of its own is
\* reported (S135.html: only one break or continue is acceptable in a loop).
LoopsWithManyJumpsReported ==
  done => \A i \in Nodes :
    Kind(i) \in Loops /\ Cardinality({j \in JumpsOf(i) : ~StaysInside(j, i)}) > 1
    => \E r \in ReportsOf("S135") : r.node = i

\* The same for the programs without a continue in a switch.
LoopsWithManyBreaksReported ==
  (\A i \in Nodes : Kind(i) = "Continue" => \A j \in Ancestors(i) : Kind(j) # "Switch")
  => LoopsWithManyJumpsReported

\* S1067 counts every conditional operator in one expression only, and with
\* Threshold 0 none is lost: levels are pushed and reset where they should.
OperatorsCountedOnce ==
  /\ \A r, s \in ReportsOf("S1067") : r # s => r.locations \cap s.locations = {}
  /\ done /\ Threshold = 0 =>
       UNION {r.locations : r \in ReportsOf("S1067")} = {i \in Nodes : Kind(i) \in ConditionalLike}

\* S3531 reports the generators with a body that yields nowhere outside
\* nested generators.
GeneratorsThatYieldAreSpared ==
  done => {r.node : r \in ReportsOf("S3531")} =
            {g \in Nodes : /\ Kind(g) = "Generator" /\ HasBody(g)
                           /\ \A y \in Nodes : Kind(y) = "Yield" => OwnerOf(y) # g}

\* S3358 reports a ternary only inside another ternary of the same function,
\* with no array or object between the two.
NestedTernaryInOneExpression ==
  \A r \in ReportsOf("S3358") :
    \E o \in Ancestors(r.node) :
      /\ Kind(o) = "Conditional"
      /\ \A b \in Ancestors(r.node) : Kind(b) \in BreaksNesting => o \notin Ancestors(b)

\* Two computations of one measure: what S1541 counts in the functions and
\* the metric of the file differ by the code outside functions, the default
\* cases and the operators ?? alone; no node is counted for two functions.
FunctionsAddUpToTheFile ==
  done =>
    LET functions == {f \in Nodes : Kind(f) \in Functions}
        counted == UNION {ComplexityTokens(f) : f \in functions}
        apart == {i \in Nodes \ counted : Kind(i) \in ComplexityNodes}
    IN /\ \A f, g \in functions : f # g => ComplexityTokens(f) \cap ComplexityTokens(g) = {}
       /\ FileComplexity = Cardinality(counted) + Cardinality(apart)
       /\ \A i \in apart : OwnerOf(i) = 0 \/ Kind(i) \in {"DefaultCase", "Nullish"}

\* The complexity of a function is that of the function: it does not change
\* with the code around it (S1541.html).
ComplexityOfTheFunctionAlone ==
  done => \A i \in Nodes :
    Kind(i) = "Nullish" =>
      (HasToken(i) <=> \E j \in Nodes : Kind(j) = "Logical" /\ After(i, j) /\ OwnerOf(j) = OwnerOf(i))

\* The statements of the function of a loop that end the loop.
EndsLoop(j, loop) ==
  /\ loop \in Ancestors(j) /\ OwnerOf(j) = OwnerOf(loop)
  /\ LET targets == {t \in Ancestors(j) : Kind(t) \in Loops \cup {"Switch"}}
         labels == {t \in Ancestors(j) : Kind(t) = "Labeled"}
     IN \/ Kind(j) = "Break" /\ \A t \in targets : t <= loop
        \/ Kind(j) = "BreakLabel" /\ \A t \in labels : t <= loop
        \/ Kind(j) = "ContinueLabel" /\ \A t \in labels : t < loop /\ ParentOf(loop) # t
        \/ Kind(j) \in {"Return", "Throw", "Yield"}

\* A loop reported by S2189 has no statement that ends it (S2189.html: every
\* loop should have an end condition).
ReportedLoopsAreEndless ==
  \A r \in ReportsOf("S2189") : \A j \in Nodes : ~EndsLoop(j, r.node)

\* A loop without break, return or throw at any depth is reported, however
\* its nested loops and functions end.
EndlessLoopsReported ==
  done => \A i \in Nodes :
    /\ Kind(i) \in {"For", "While"}
    /\ \A j \in Nodes : i \in Ancestors(j) /\ Kind(j) \in Leaves =>
         \E t \in Ancestors(j) : i \in Ancestors(t) /\ Kind(t) \in {"For", "While", "FunctionDeclaration"}
                                 /\ Kind(j) \in {"Break"} \cup (IF Kind(t) = "FunctionDeclaration" THEN {"Return"} ELSE {})
    => \E r \in ReportsOf("S2189") : r.node = i

\* The declaration that a call refers to when it runs: the one in the nearest block around.
SetterOf(call) ==
  LET visible == {d \in Nodes : Kind(d) \in Declarations /\ (ParentOf(d) = 0 \/ ParentOf(d) \in Ancestors(call))}
  IN Last0({d \in visible : \A e \in visible : ParentOf(e) <= ParentOf(d)})

\* S6442 reports exactly the calls that every rendering of an outermost component makes, of
\* a setter that the component got from a hook: not those in nested functions, of shadowing
\* variables or under a condition, and whatever components the file has before.
SettersOfTheRenderingAreReported ==
  {r.node : r \in ReportsOf("S6442")} =
    {i \in Nodes :
       LET component == OwnerOf(i)
       IN /\ Kind(i) = "SetterCall" /\ component # 0
          /\ Kind(component) = "Component" /\ \A c \in Ancestors(component) : Kind(c) # "Component"
          /\ SetterOf(i) # 0
          /\ Kind(SetterOf(i)) = "UseState" /\ OwnerOf(SetterOf(i)) = component
          /\ \A c \in Ancestors(i) : Kind(c) \in {"If", "ElseIf"} => component \notin Ancestors(c)}

\* The same for every component (S6442.html: not directly in the body of a component).
EverySetterOfARenderingIsReported ==
  \A i \in Nodes :
    /\ Kind(i) = "SetterCall" /\ OwnerOf(i) # 0 /\ ParentOf(i) = OwnerOf(i) /\ Kind(OwnerOf(i)) = "Component"
    /\ \E d \in DeclaredIn(OwnerOf(i)) : Kind(d) = "UseState"
    => \E r \in ReportsOf("S6442") : r.node = i

\* What the value of an expression decides: the nearest condition above it.
ConditionOf(i) == Last0({c \in Ancestors(i) : Kind(c) \in Conditions})

\* S1529 reports exactly an operator & or | in the test of the nearest condition around it
\* that is the only binary bitwise operation of the file, in whatever order the file has
\* others; an operation in a branch or a body is not in the test.
TheOnlyOperatorOfATestIsReported ==
  done =>
    LET operations == {i \in Nodes : Kind(i) \in {"AndOr", "Bitwise"}}
        tests(c) == {t \in Nodes : ParentOf(t) = c /\ tree[t].role = "test"}
    IN {r.node : r \in ReportsOf("S1529")} =
         {i \in operations :
            /\ Kind(i) = "AndOr" /\ operations = {i}
            /\ ConditionOf(i) # 0 /\ \E t \in tests(ConditionOf(i)) : InSubtree(i, t)}

\* Other bitwise operations show that the operator is meant (S1529.html).
IntendedOperatorsAreSpared ==
  ReportsOf("S1529") # {} => \A i \in Nodes : Kind(i) # "BitwiseAssignment"

=============================================================================
