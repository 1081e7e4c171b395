--------------------------- MODULE RegexComplexity ---------------------------
(***************************************************************************)
(* The rule regex-complexity: the literals a regular expression is written  *)
(* with are found, each is visited with a counter of the nesting, and the   *)
(* complexities of the literals of one part are added up.  A literal is     *)
(* visited node by node; which nodes it has is chosen as the visit goes.    *)
(***************************************************************************)
EXTENDS Integers, Sequences, FiniteSets, SequencesExt, Functions, FiniteSetsExt

CONSTANTS
  Expressions,  \* what regular expressions are made from
  Variables,    \* the expressions the variables are written with
  THRESHOLD,
  MaxNodes,     \* bound on the nodes of a regular expression
  MaxDepth,     \* bound on the open nodes
  MaxAlternatives

VARIABLES
  expression,
  parts,        \* the parts that are still to be visited
  position,     \* which literal of the first part is visited, 0 before the first
  open,         \* the nodes the visitor is in
  nesting, complexity,
  log,          \* the nodes visited, each with the ones around it
  reported

vars == <<expression, parts, position, open, nesting, complexity, log, reported>>

(***************************************************************************)
(* RegexPartFinder.                                                         *)
(***************************************************************************)
String(id) == [type |-> "String", id |-> id]
Template(id) == [type |-> "Template", id |-> id]
Regex(id) == [type |-> "Regex", id |-> id]
Identifier(name) == [type |-> "Identifier", name |-> name]
Plus(left, right) == [type |-> "Plus", left |-> left, right |-> right]
RegExp(pattern) == [type |-> "RegExp", pattern |-> pattern]
Other == [type |-> "Other"]

\* Literals of a concatenation go to the list of the concatenation; everything else is
\* looked for by itself, and its parts come first.
RECURSIVE find(_), findInStringConcatenation(_)

findInStringConcatenation(node) ==
  CASE node.type = "String" -> [literals |-> <<node>>, parts |-> <<>>]
    [] node.type = "Plus" ->
         LET left == findInStringConcatenation(node.left)
             right == findInStringConcatenation(node.right)
         IN [literals |-> left.literals \o right.literals, parts |-> left.parts \o right.parts]
    [] OTHER -> [literals |-> <<>>, parts |-> find(node)]

find(node) ==
  CASE node.type = "RegExp" -> find(node.pattern)
    [] node.type \in {"String", "Template", "Regex"} -> <<<<node>>>>
    [] node.type = "Identifier" -> IF node.name \in DOMAIN Variables THEN find(Variables[node.name]) ELSE <<>>
    [] node.type = "Plus" ->
         LET found == findInStringConcatenation(node)
         IN found.parts \o (IF found.literals = <<>> THEN <<>> ELSE <<found.literals>>)
    [] OTHER -> <<>>

(***************************************************************************)
(* ComplexityCalculator.  A node is [type, alternatives].                   *)
(***************************************************************************)
Node(type, alternatives) == [type |-> type, alternatives |-> alternatives]

Several(node) == node.alternatives > 1

Lookaround == "Lookaround"

\* What entering a node adds to the nesting, and leaving it takes away.
Deeper(node) ==
  (IF Several(node) THEN 1 ELSE 0) + (IF node.type \in {Lookaround, "CharacterClass", "Quantifier"} THEN 1 ELSE 0)

\* The first | counts with the nesting, the others 1.
onDisjunctionEnter(node, level) == IF Several(node) THEN level + node.alternatives - 2 ELSE 0

increaseComplexity(node, level) ==
  (CASE node.type = Lookaround -> level + onDisjunctionEnter(node, level + 1)
     [] node.type = "Quantifier" -> level
     [] node.type \in {"Backreference", "CharacterClass"} -> 1
     [] OTHER -> onDisjunctionEnter(node, level))

Enter(node) ==
  /\ complexity' = complexity + increaseComplexity(node, nesting)
  /\ nesting' = nesting + Deeper(node)
  /\ open' = Append(open, [type |-> node.type, alternatives |-> node.alternatives, elements |-> 0])
  /\ log' = Append(log, [node |-> node, around |-> [k \in DOMAIN open |-> Node(open[k].type, open[k].alternatives)]])
  /\ UNCHANGED <<expression, parts, position, reported>>

\* A new calculator for the next literal.
EnterPattern ==
  /\ parts # <<>> /\ open = <<>> /\ position < Len(Head(parts))
  /\ \E n \in 1..MaxAlternatives :
       LET node == Node("Pattern", n) IN
       /\ complexity' = complexity + increaseComplexity(node, 1)
       /\ nesting' = 1 + Deeper(node)
       /\ open' = <<[type |-> "Pattern", alternatives |-> n, elements |-> 0]>>
       /\ log' = Append(log, [node |-> node, around |-> <<>>])
  /\ position' = position + 1
  /\ UNCHANGED <<expression, parts, reported>>

\* A literal that is no regular expression by itself is not visited.
SkipLiteral ==
  /\ parts # <<>> /\ open = <<>> /\ position < Len(Head(parts))
  /\ position' = position + 1
  /\ UNCHANGED <<expression, parts, open, nesting, complexity, log, reported>>

\* Classes hold no such nodes, a quantifier has one element.
MayEnter ==
  /\ open # <<>> /\ Len(log) < MaxNodes /\ Len(open) < MaxDepth
  /\ Last(open).type \notin {"CharacterClass", "Backreference"}
  /\ Last(open).type = "Quantifier" => Last(open).elements = 0

EnterGroup == MayEnter /\ \E type \in {"Group", Lookaround}, n \in 1..MaxAlternatives : Enter(Node(type, n))

EnterElement == MayEnter /\ \E type \in {"CharacterClass", "Backreference"} : Enter(Node(type, 1))

EnterQuantifier == MayEnter /\ Last(open).type # "Quantifier" /\ Enter(Node("Quantifier", 1))

onLeave(node) == Deeper(node)

Leave ==
  /\ open # <<>>
  /\ nesting' = nesting - onLeave(Last(open))
  /\ open' = LET rest == Front(open) IN
             IF rest = <<>> THEN rest ELSE [rest EXCEPT ![Len(rest)].elements = @ + 1]
  /\ UNCHANGED <<expression, parts, position, complexity, log, reported>>

(***************************************************************************)
(* checkRegexComplexity: one report for the literals of a part.             *)
(***************************************************************************)
IsTooComplex(n) == n > THRESHOLD

ReportPart ==
  /\ parts # <<>> /\ open = <<>> /\ position = Len(Head(parts))
  /\ reported' = Append(reported, [part |-> Head(parts), log |-> log, issue |-> IsTooComplex(complexity)])
  /\ parts' = Tail(parts) /\ position' = 0 /\ nesting' = 1 /\ complexity' = 0 /\ log' = <<>>
  /\ UNCHANGED <<expression, open>>

Done == parts = <<>> /\ UNCHANGED vars

Init ==
  /\ expression \in Expressions /\ parts = find(expression) /\ position = 0 /\ open = <<>>
  /\ nesting = 1 /\ complexity = 0 /\ log = <<>> /\ reported = <<>>

Next == EnterPattern \/ SkipLiteral \/ EnterGroup \/ EnterElement \/ EnterQuantifier \/ Leave \/ ReportPart \/ Done

Spec == Init /\ [][Next]_vars

(***************************************************************************)
(* Properties.                                                              *)
(***************************************************************************)
\* What the description of the rule counts: a bar, a quantifier or a lookaround counts the
\* number of those operators around it and one, a further bar, a class or a back reference one.
OperatorsAround(around) ==
  FoldFunction(LAMBDA node, n : n + (IF Several(node) THEN 1 ELSE 0) + (IF node.type \in {Lookaround, "Quantifier"} THEN 1 ELSE 0), 0, around)

Described(entry) ==
  LET level == 1 + OperatorsAround(entry.around)
      inner == level + (IF entry.node.type = Lookaround THEN 1 ELSE 0)
  IN (IF entry.node.type \in {Lookaround, "Quantifier"} THEN level ELSE 0)
     + (IF entry.node.type \in {"CharacterClass", "Backreference"} THEN 1 ELSE 0)
     + (IF Several(entry.node) THEN inner + entry.node.alternatives - 2 ELSE 0)

Sum(entries) == FoldFunction(LAMBDA entry, n : n + Described(entry), 0, entries)

\* While a literal is visited the complexity is the one described: it depends on the counter
\* of the nesting being put back whenever a node is left.
ComplexityIsAsDescribed == complexity = Sum(log)

\* A part is reported exactly when what is described of all its literals together is above
\* the threshold.
PartsAreJudged == \A i \in DOMAIN reported : reported[i].issue <=> Sum(reported[i].log) > THRESHOLD

\* The literals an expression, or the expression of a variable in it, is written with.
RECURSIVE Written(_, _)

Written(node, owner) ==
  CASE node.type \in {"String", "Template", "Regex"} -> {[owner |-> owner, literal |-> node]}
    [] node.type = "RegExp" -> Written(node.pattern, owner)
    [] node.type = "Plus" -> Written(node.left, owner) \cup Written(node.right, owner)
    [] node.type = "Identifier" /\ node.name \in DOMAIN Variables -> Written(Variables[node.name], node.name)
    [] OTHER -> {}

\* "The complexity is calculated for each variable individually": the literals of a variable
\* are one part, and no literal is left out.
PartsAreVariables ==
  parts = find(expression) =>
    LET written == Written(expression, "")
    IN {ToSet(parts[i]) : i \in DOMAIN parts}
       = {{w.literal : w \in {v \in written : v.owner = owner}} : owner \in {w.owner : w \in written}}

-----------------------------------------------------------------------------
\* Expressions for the runs of RegexComplexity.

MCVariables == [x |-> String(7), y |-> Plus(String(8), String(9)), z |-> Plus(Identifier("x"), String(10))]

OneLiteral == {Regex(1)}

TwoLiterals == {Plus(String(1), String(2))}

Leaves == {String(1), String(2), Identifier("x"), Identifier("y"), Identifier("z"), Identifier("u"), Other}

Concatenations ==
  LET two == {Plus(l, r) : l \in Leaves, r \in Leaves}
  IN Leaves \cup two \cup {Plus(t, l) : t \in two, l \in Leaves} \cup {Plus(l, t) : l \in Leaves, t \in two}

Sources == {RegExp(e) : e \in Concatenations} \cup {Regex(1), Template(1)}

Templates == {RegExp(Plus(String(1), Template(2)))}

NoVariables == [v \in {} |-> Other]

=============================================================================
