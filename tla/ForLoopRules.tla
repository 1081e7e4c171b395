---------------------------- MODULE ForLoopRules ----------------------------
(***************************************************************************)
(* The rules on the counters of for loops - the direction of the increment  *)
(* (S2251), equality as stop condition (S888), test and update on different *)
(* variables (S1994), counters assigned in the body (S2310) - against what  *)
(* the loop does when it runs.  Init picks a loop; Check evaluates the      *)
(* rules; the other actions execute the loop on two integer variables.      *)
(***************************************************************************)
EXTENDS Integers, Sequences, FiniteSets

CONSTANTS
  Inits, Tests, Updates, Bodies,  \* the clauses the loops are made of
  Bound                           \* values beyond it: the loop runs away

BoundAssumption == Bound \in Nat

VARIABLES
  loop,      \* the ForStatement: init, test, update, body
  reports,   \* the rules that report it
  env,       \* value of i and j
  pc,        \* next clause, or how the loop ended
  turns,     \* iterations so far, saturating at 2
  seen       \* env when the current update began

vars == <<loop, reports, env, pc, turns, seen>>

Variables == {"i", "j"}

Identifier(e, name) == e.type = "Identifier" /\ e.name = name

Number(e) == IF e.type = "-" THEN -e.value ELSE e.value

HasNumber(e) == e.type \in {"Literal", "-", "+"}

Single(update) == Len(update) = 1

(***************************************************************************)
(* for-loop-increment-sign.                                                *)
(***************************************************************************)
DirectionFromValue(e) ==
  IF ~HasNumber(e) \/ Number(e) = 0 THEN 0 ELSE IF Number(e) > 0 THEN 1 ELSE -1

\* Only a single expression is an increment; for i = j + 1 the left operand
\* must be the assigned variable.
FindInLoopUpdate(update) ==
  LET u == update[1] IN
  IF ~Single(update) \/ u.operator \notin {"++", "--", "+=", "-=", "=+", "=-"}
     \/ (u.operator \in {"=+", "=-"} /\ u.base # u.name)
  THEN [name |-> "", direction |-> 0]
  ELSE [name |-> u.name,
        direction |-> CASE u.operator = "++" -> 1
                        [] u.operator = "--" -> -1
                        [] u.operator \in {"+=", "=+"} -> DirectionFromValue(u.by)
                        [] OTHER -> -DirectionFromValue(u.by)]

GetWrongDirection(test, name) ==
  LET less == CASE test.operator \in {"<", "<="} -> -1
                [] test.operator \in {">", ">="} -> 1
                [] OTHER -> 0
  IN CASE Identifier(test.left, name) -> less
       [] Identifier(test.right, name) -> -less
       [] OTHER -> 0

WrongIncrement(l) ==
  LET increment == FindInLoopUpdate(l.update)
      wrong == GetWrongDirection(l.test, increment.name)
  IN l.update # <<>> /\ l.test.type = "Binary" /\ wrong # 0 /\ wrong = increment.direction

(***************************************************************************)
(* no-equals-in-for-termination.                                           *)
(***************************************************************************)
IsIncDec(u) == u.operator \in {"++", "--", "+=", "-="}

CollectCounters(update) == {update[k].name : k \in {k \in DOMAIN update : IsIncDec(update[k])}}

IsNontrivialConditionException(l) ==
  ~(l.test.left.type = "Identifier" /\ l.test.left.name \in CollectCounters(l.update))

CheckForUpdateByOne(l) ==
  LET u == l.update[1] IN
  IF Single(l.update) /\ u.name \notin l.body.uses
     /\ (u.operator \in {"++", "--"} \/ (u.operator \in {"+=", "-="} /\ u.by.type = "Literal" /\ u.by.value = 1))
  THEN IF u.operator \in {"++", "+="} THEN 1 ELSE -1
  ELSE 0

\* Mutant: the sign of the distance is not compared with the increment.
IsTrivialUnsigned(l) ==
  /\ l.test.operator = "!="
  /\ l.init.type \in {"VariableDeclaration", "Assignment"}
  /\ CheckForUpdateByOne(l) # 0
  /\ l.test.right.type = "Literal"
  /\ l.test.right.value # l.init.value

\* The init counts whatever variable it sets; with two declarators it has no value.
IsTrivialIteratorException(l) ==
  /\ l.test.operator = "!="
  /\ l.init.type \in {"VariableDeclaration", "Assignment"}
  /\ CheckForUpdateByOne(l) # 0
  /\ l.test.right.type = "Literal"
  /\ CheckForUpdateByOne(l) = DirectionFromValue([type |-> "Literal", value |-> l.test.right.value - l.init.value])

EqualsInTermination(l) ==
  /\ l.test.type = "Binary" /\ l.update # <<>>
  /\ l.test.operator \in {"!=", "=="}
  /\ \A k \in DOMAIN l.update : IsIncDec(l.update[k])
  /\ ~IsNontrivialConditionException(l)
  /\ ~IsTrivialIteratorException(l)

(***************************************************************************)
(* misplaced-loop-counter: the identifiers of the test against those        *)
(* assigned, incremented or called on in the update.                       *)
(***************************************************************************)
TestedExpressions(test) ==
  {e.name : e \in {f \in {test.left, test.right} : f.type = "Identifier"}}

UpdatedExpressions(update) == {update[k].name : k \in DOMAIN update}

MisplacedCounter(l) ==
  /\ UpdatedExpressions(l.update) # {} /\ l.test.type # "none"
  /\ TestedExpressions(l.test) \cap UpdatedExpressions(l.update) = {}

(***************************************************************************)
(* updated-loop-counter: writes in a block body of the variables that the   *)
(* update assigns.                                                         *)
(***************************************************************************)
CollectCountersFor(update) == {update[k].name : k \in {k \in DOMAIN update : update[k].operator # "call"}}

\* Mutant: only a write that follows a use is looked at.
UpdatedAndUsed(l) == l.body.block /\ CollectCountersFor(l.update) \cap (l.body.writes \ l.body.uses) # {}

UpdatedCounter(l) == l.body.block /\ CollectCountersFor(l.update) \cap l.body.writes # {}

Rules(l) ==
  {r \in {"S2251", "S888", "S1994", "S2310"} :
     CASE r = "S2251" -> WrongIncrement(l)
       [] r = "S888" -> EqualsInTermination(l)
       [] r = "S1994" -> MisplacedCounter(l)
       [] OTHER -> UpdatedCounter(l)}

(***************************************************************************)
(* The execution of the loop.  i and j have values before init sets them.    *)
(***************************************************************************)
Value(e) == IF e.type = "Identifier" THEN env[e.name] ELSE Number(e)

Holds(test) ==
  LET a == Value(test.left)
      b == Value(test.right)
  IN CASE test.type = "none" -> TRUE
       [] test.operator = "<" -> a < b
       [] test.operator = "<=" -> a <= b
       [] test.operator = ">" -> a > b
       [] test.operator = ">=" -> a >= b
       [] test.operator = "==" -> a = b
       [] OTHER -> a # b

Amount(u) == IF u.operator \in {"++", "--"} THEN 1 ELSE Value(u.by)

RunUpdate(e, u) ==
  CASE u.operator \in {"++", "+="} -> [e EXCEPT ![u.name] = @ + Amount(u)]
    [] u.operator \in {"--", "-="} -> [e EXCEPT ![u.name] = @ - Amount(u)]
    [] u.operator = "=+" -> [e EXCEPT ![u.name] = e[u.base] + Amount(u)]
    [] u.operator = "=-" -> [e EXCEPT ![u.name] = e[u.base] - Amount(u)]
    [] OTHER -> e

Init ==
  /\ loop \in [init : Inits, test : Tests, update : Updates, body : Bodies]
  /\ reports = {}
  /\ env \in {[i |-> 0, j |-> 1], [i |-> 4, j |-> 1]}
  /\ pc = "Check"
  /\ turns = 0
  /\ seen = env

Check ==
  /\ pc = "Check"
  /\ reports' = Rules(loop)
  /\ env' = IF loop.init.type = "none" THEN env
            ELSE [env EXCEPT ![loop.init.name] = loop.init.value]
  /\ pc' = "test"
  /\ UNCHANGED <<loop, turns, seen>>

Test ==
  /\ pc = "test"
  /\ pc' = IF \E v \in Variables : env[v] > Bound \/ env[v] < -Bound THEN "runaway"
           ELSE IF Holds(loop.test) THEN "body" ELSE "ended"
  /\ UNCHANGED <<loop, reports, env, turns, seen>>

Body ==
  /\ pc = "body"
  /\ env' = [v \in Variables |-> IF v \in loop.body.writes THEN env[v] + loop.body.by ELSE env[v]]
  /\ seen' = env'
  /\ pc' = "update"
  /\ turns' = IF turns = 2 THEN 2 ELSE turns + 1
  /\ UNCHANGED <<loop, reports>>

Update ==
  /\ pc = "update"
  /\ env' = LET run[k \in 0..Len(loop.update)] ==
                  IF k = 0 THEN env ELSE RunUpdate(run[k - 1], loop.update[k])
            IN run[Len(loop.update)]
  /\ pc' = "test"
  /\ UNCHANGED <<loop, reports, turns, seen>>

Stopped == pc \in {"ended", "runaway"} /\ UNCHANGED vars

Next == Check \/ Test \/ Body \/ Update \/ Stopped

\* The loop is sequential code: it takes its next step.
Spec == Init /\ [][Next]_vars /\ WF_vars(Next)

-----------------------------------------------------------------------------
\* A loop whose counter S2251 reports as moving in the wrong direction never
\* reaches its stop condition once it is entered, if the body leaves the
\* variables of the test alone: at most the first test fails.
WrongDirectionNeverStops ==
  "S2251" \in reports /\ loop.body.writes \cap TestedExpressions(loop.test) = {}
  => (pc = "ended" => turns = 0)

\* A loop on an equality of its counter that S888 excuses ends (S888.html:
\* the counter starts below the ending value and is incremented by 1, or
\* starts above it and is decremented by 1).
ExcusedEqualityEnds ==
  /\ pc # "Check" /\ "S888" \notin reports
  /\ loop.test.type = "Binary" /\ loop.test.operator = "!=" /\ loop.init.type # "none"
  /\ Single(loop.update) /\ IsIncDec(loop.update[1])
  /\ Identifier(loop.test.left, loop.update[1].name) /\ loop.body.writes = {}
  => pc # "runaway"

\* The same for the loops that initialise their counter.
ExcusedEqualityOfCounterEnds ==
  (loop.update # <<>> /\ loop.init.type # "none" => loop.init.name = loop.update[1].name)
  => ExcusedEqualityEnds

\* When S1994 reports, the update cannot change the outcome of the test.
MisplacedUpdateIsUseless ==
  "S1994" \in reports /\ pc = "test" /\ turns > 0 =>
    \A v \in TestedExpressions(loop.test) : env[v] = seen[v]

UnreportedLoop ==
  (/\ pc = "test" /\ reports = {}
   /\ loop.test.type = "Binary" /\ loop.test.operator \in {"<", "<=", ">", ">=", "!="}
   /\ Identifier(loop.test.left, "i") /\ loop.test.right.type = "Literal"
   /\ loop.init.type # "none" /\ loop.init.name = "i" /\ loop.body.block
   /\ Single(loop.update) /\ loop.update[1].name = "i"
   /\ \/ loop.update[1].operator \in {"++", "--"}
      \/ IsIncDec(loop.update[1]) /\ DirectionFromValue(loop.update[1].by) # 0)

LoopEnded == (pc = "ended")

\* A loop that counts by a constant towards a literal and that no rule
\* reports ends, whatever its block body does to i and j: the four rules
\* leave no hole between them.
UnreportedLoopsEnd == UnreportedLoop ~> LoopEnded

-----------------------------------------------------------------------------
\* Clauses of the for loops of the instances of ForLoopRules.

Id(x) == [type |-> "Identifier", name |-> x]

Lit(n) == [type |-> "Literal", value |-> n]

NoInit == [type |-> "none"]

Set(t, x, n) == [type |-> t, name |-> x, value |-> n]

\* var i = 0;  i = 3;  none;  var i = 0, j = 1 (no value for the rule)
OwnInits == {Set("VariableDeclaration", "i", 0), Set("Assignment", "i", 3),
             Set("Declarations", "i", 0), NoInit}

\* With j = 0.
AllInits == OwnInits \cup {Set("Assignment", "j", 0)}

Binary(l, op, r) == [type |-> "Binary", left |-> l, operator |-> op, right |-> r]

SomeTests ==
  {Binary(Id("i"), op, Lit(2)) : op \in {"<", ">", "<=", "!=", "=="}}
  \cup {Binary(Lit(2), op, Id("i")) : op \in {"<", ">", ">=", "!="}}
  \cup {Binary(Id("i"), op, Id("j")) : op \in {"<", ">", "!="}}
  \cup {[type |-> "none", operator |-> "", left |-> Lit(0), right |-> Lit(0)]}

\* The counter is written, after the update expressions with ++ and += apart:
\* base is the left operand of i = i + 1.
Up(op, x, base, by) == [operator |-> op, name |-> x, base |-> base, by |-> by]

Ups ==
  {Up(op, "i", "i", Lit(1)) : op \in {"++", "--", "+=", "-=", "=+", "=-"}}
  \cup {Up(op, "i", "i", [type |-> "-", value |-> 1]) : op \in {"+=", "-="}}
  \cup {Up("+=", "i", "i", Lit(0)), Up("+=", "i", "i", Lit(2)), Up("+=", "i", "i", Id("j")),
        Up("=+", "i", "j", Lit(1)), Up("++", "j", "j", Lit(1)), Up("call", "it", "it", Lit(0))}

SomeUpdates ==
  {<<u>> : u \in Ups} \cup {<<>>}
  \cup {<<Up("++", "j", "j", Lit(1)), u>> : u \in {Up("+=", "i", "i", Lit(1)), Up("--", "i", "i", Lit(1))}}

BodyOf(uses, writes, block) == [uses |-> uses, writes |-> writes, by |-> 1, block |-> block]

SomeBodies ==
  {BodyOf({}, {}, TRUE), BodyOf({"i"}, {}, TRUE), BodyOf({"i"}, {"i"}, TRUE),
   BodyOf({"i"}, {"i"}, FALSE), BodyOf({"j"}, {"j"}, TRUE)}

=============================================================================
