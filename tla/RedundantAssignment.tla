------------------------- MODULE RedundantAssignment -------------------------
(***************************************************************************)
(* helpers/reaching-definitions.ts and the rule no-redundant-assignments   *)
(* (S4165) that uses it: which literals a variable may hold where a        *)
(* segment of the code path starts, and the assignments that give a        *)
(* variable the one literal it already holds.                              *)
(*                                                                         *)
(* The environment chooses a function of declarations, assignments,        *)
(* closures, branches and loops.  A statement is the sequence of events of *)
(* its visit: assignments and code paths are entered and left, identifiers *)
(* are met in the order of the text.                                       *)
(***************************************************************************)
EXTENDS Naturals, Sequences, SequencesExt, FiniteSets

CONSTANTS
  Vars,        \* local variables
  Initialized, \* those declared with an initializer, in the first segment
  Literals,    \* raw text of literals
  MaxStatements, \* bound: statements of the function
  MaxSegs,     \* bound: code path segments
  Statements   \* statements that may occur, each the sequence of its events

RedundantAssumption ==
  /\ {MaxStatements, MaxSegs} \subseteq Nat \ {0} /\ Initialized \subseteq Vars
  /\ \A st \in Statements : \A ref \in {st[i] : i \in {j \in DOMAIN st : st[j].event = "Identifier"}} :
       ref.v \in Vars /\ ref.e.t \in {"Literal", "Identifier", "assignment", "compound", "other", "read"}

VARIABLES
  phase,       \* "walk", "propagate", "done"
  flow, ctl, cur,  \* edges, open blocks and current segment of the walk
  statements,  \* statements walked so far
  refs,        \* segment -> references in order
  variableUsages, \* variable -> code paths that use it, named by their first segments
  worklist,
  in, out,     \* segment -> variable -> values
  reports      \* <<segment, position>> reported

vars == <<phase, flow, ctl, cur, statements, refs, variableUsages, worklist, in, out, reports>>

Segs == 1..Len(refs)
NextSegs(s) == {t \in Segs : <<s, t>> \in flow}
PrevSegs(s) == {t \in Segs : <<t, s>> \in flow}
Declared == {refs[1][i].v : i \in DOMAIN refs[1]}

(***************************************************************************)
(* Values: absent from the map, unknownValue, or AssignedValues.           *)
(***************************************************************************)
Absent == [type |-> "Absent", lits |-> {}]
UnknownValue == [type |-> "UnknownValue", lits |-> {}]
AssignedValues(S) == [type |-> "AssignedValues", lits |-> S]
NoValues == [v \in Vars |-> Absent]

(***************************************************************************)
(* The walk                                                                *)
(***************************************************************************)
Init ==
  /\ phase = "walk" /\ flow = {} /\ ctl = <<>> /\ cur = 1 /\ statements = 0
  /\ refs = <<<<>>>> /\ variableUsages = [v \in Vars |-> {}]
  /\ worklist = <<>> /\ in = <<>> /\ out = <<>> /\ reports = {}

(***************************************************************************)
(* The visit of a statement works on w: paths is codePathStack, whose      *)
(* entries have a current segment and the stack of assignment contexts.    *)
(* A reference has the sides on which it stands of the assignments around  *)
(* it, from the outermost of its code path.                                *)
(***************************************************************************)
IsWrite(ref) == ref.e.t # "read"

TopPath(w) == Last(w.paths)

WithAssignments(w, stack) == [w EXCEPT !.paths[Len(w.paths)].assignments = stack]

ProcessReference(w, ref) ==
  LET stack == TopPath(w).assignments
      depth == Len(stack)
  IN IF depth > 0
     THEN WithAssignments(w, [stack EXCEPT ![depth][ref.sides[depth]] = Append(@, ref)])
     ELSE [w EXCEPT !.refs[TopPath(w).segment] = Append(@, ref)]

PushAssignmentContext(w) == WithAssignments(w, Append(TopPath(w).assignments, [lhs |-> <<>>, rhs |-> <<>>]))

PopAssignmentContext(w) ==
  LET assignment == Last(TopPath(w).assignments)
      popped == WithAssignments(w, Front(TopPath(w).assignments))
  IN FoldLeft(ProcessReference, popped, assignment.rhs \o assignment.lhs)

\* The reference that an identifier stands for, in its scope or an outer one.
ResolveReference(node) == [v |-> node.v, e |-> node.e, sides |-> node.sides]

CheckIdentifierUsage(w, node) ==
  [ProcessReference(w, ResolveReference(node)) EXCEPT !.variableUsages[node.v] = @ \cup {TopPath(w).id}]

\* A code path starts with a segment of its own.
PushContext(w) ==
  [w EXCEPT !.refs = Append(@, <<>>),
            !.paths = Append(@, [id |-> Len(w.refs) + 1, segment |-> Len(w.refs) + 1, assignments |-> <<>>])]

PopContext(w) == [w EXCEPT !.paths = Front(@)]

Visit(w, node) ==
  CASE node.event = "assignment" -> PushAssignmentContext(w)
    [] node.event = "assignment:exit" -> PopAssignmentContext(w)
    [] node.event = "Identifier" -> CheckIdentifierUsage(w, node)
    [] node.event = "onCodePathStart" -> PushContext(w)
    [] node.event = "onCodePathEnd" -> PopContext(w)

MayUse(v) == v \in Declared \/ v \notin Initialized

\* A variable is declared by its first assignment, in the first segment.
MayVisit(st) ==
  \A i \in DOMAIN st : st[i].event = "Identifier" =>
    \/ MayUse(st[i].v)
    \/ /\ cur = 1 /\ st[1].event # "onCodePathStart"
       /\ st[i].sides = <<"lhs">> /\ st[i].e.t # "compound"

AddReferences(st) ==
  /\ phase = "walk" /\ statements < MaxStatements
  /\ MayVisit(st)
  /\ \E w \in {FoldLeft(Visit, [paths |-> <<[id |-> 1, segment |-> cur, assignments |-> <<>>]>>,
                                refs |-> refs, variableUsages |-> variableUsages], st)} :
       /\ Len(w.refs) + Len(ctl) <= MaxSegs
       /\ refs' = w.refs /\ variableUsages' = w.variableUsages
  /\ statements' = statements + 1
  /\ UNCHANGED <<phase, flow, ctl, cur, worklist, in, out, reports>>

NewSeg == Len(refs) + 1

Begin(kind) ==
  /\ phase = "walk" /\ Len(refs) + Len(ctl) + 2 <= MaxSegs
  /\ refs' = Append(refs, <<>>)
  /\ flow' = flow \cup {<<cur, NewSeg>>}
  /\ ctl' = Append(ctl, [kind |-> kind, from |-> cur, head |-> NewSeg])
  /\ cur' = NewSeg
  /\ UNCHANGED <<phase, statements, variableUsages, worklist, in, out, reports>>

End ==
  /\ phase = "walk" /\ ctl # <<>>
  /\ refs' = Append(refs, <<>>)
  /\ LET b == Last(ctl)
     IN flow' = flow \cup (IF b.kind = "branch" THEN {<<cur, NewSeg>>, <<b.from, NewSeg>>}
                           ELSE {<<cur, b.head>>, <<b.head, NewSeg>>})
  /\ ctl' = Front(ctl)
  /\ cur' = NewSeg
  /\ UNCHANGED <<phase, statements, variableUsages, worklist, in, out, reports>>

ProgramExit ==
  /\ phase = "walk" /\ ctl = <<>>
  /\ phase' = "propagate"
  /\ worklist' = [s \in Segs |-> s]
  /\ in' = [s \in Segs |-> NoValues] /\ out' = [s \in Segs |-> NoValues]
  /\ UNCHANGED <<flow, ctl, cur, statements, refs, variableUsages, reports>>

(***************************************************************************)
(* resolveAssignedValues.  The writeExpr of a compound assignment is its   *)
(* right side.                                                             *)
(***************************************************************************)
ResolveAssignedValues(lhs, e, state) ==
  CASE e.t \in {"Literal", "compound"} -> AssignedValues({e.of})
    [] e.t = "Identifier" /\ e.of # lhs /\ state[e.of] # Absent -> state[e.of]
    [] OTHER -> UnknownValue

Update(state, ref) ==
  IF IsWrite(ref) THEN [state EXCEPT ![ref.v] = ResolveAssignedValues(ref.v, ref.e, state)] ELSE state

\* join for one variable
JoinValues(a, b) ==
  CASE b = Absent -> a
    [] a.type # "UnknownValue" /\ b.type = "AssignedValues" -> AssignedValues(a.lits \cup b.lits)
    [] OTHER -> UnknownValue

InOf(s) ==
  FoldLeft(LAMBDA state, p : [v \in Vars |-> JoinValues(state[v], out[p][v])],
           NoValues, SetToSortSeq(PrevSegs(s), <))

\* Mutant: the segment itself is put back.
RequeueItself(s, newOut) == <<s>>

Requeue(s, newOut) == IF out[s] # newOut THEN SetToSortSeq(NextSegs(s), <) ELSE <<>>

\* reachingDefinitions: one turn of the loop over the worklist, a stack.
Propagate ==
  /\ phase = "propagate" /\ worklist # <<>>
  /\ LET s == Last(worklist)
         newOut == FoldLeft(Update, InOf(s), refs[s])
     IN /\ in' = [in EXCEPT ![s] = InOf(s)]
        /\ out' = [out EXCEPT ![s] = newOut]
        /\ worklist' = Front(worklist) \o Requeue(s, newOut)
  /\ UNCHANGED <<phase, flow, ctl, cur, statements, refs, variableUsages, reports>>

(***************************************************************************)
(* checkSegment: references that are not to be reported are skipped, and   *)
(* then their value does not enter assignedValuesMap either.               *)
(***************************************************************************)
VariableUsedOutsideOfCodePath(v) == Cardinality(variableUsages[v]) > 1

IsSelfAssignment(ref) == ref.e.t = "Identifier" /\ ref.e.of = ref.v

IsCompoundAssignment(e) == e.t = "compound"

ShouldReport(ref) ==
  /\ IsWrite(ref)
  /\ ref.v \in Initialized
  /\ ~IsCompoundAssignment(ref.e) /\ ~IsSelfAssignment(ref)
  /\ ~VariableUsedOutsideOfCodePath(ref.v)

MapBefore(s, i) ==
  FoldLeft(LAMBDA state, ref : IF ShouldReport(ref) THEN Update(state, ref) ELSE state,
           in[s], SubSeq(refs[s], 1, i - 1))

References == UNION {{s} \X DOMAIN refs[s] : s \in Segs}

IsWrittenOnlyOnce(v) ==
  Cardinality({p \in References : refs[p[1]][p[2]].v = v /\ IsWrite(refs[p[1]][p[2]])}) = 1

CheckRedundantAssignment(s, i) ==
  LET ref == refs[s][i]
      lhs == MapBefore(s, i)[ref.v]
      rhs == ResolveAssignedValues(ref.v, ref.e, MapBefore(s, i))
  IN /\ ShouldReport(ref)
     /\ Cardinality(lhs.lits) = 1 /\ Cardinality(rhs.lits) = 1
     /\ ~IsWrittenOnlyOnce(ref.v) /\ lhs.lits = rhs.lits

CheckSegments ==
  /\ phase = "propagate" /\ worklist = <<>>
  /\ phase' = "done"
  /\ reports' = {p \in References : CheckRedundantAssignment(p[1], p[2])}
  /\ UNCHANGED <<flow, ctl, cur, statements, refs, variableUsages, worklist, in, out>>

Done == phase = "done" /\ UNCHANGED vars

Next ==
  \/ \E st \in Statements : AddReferences(st)
  \/ \E kind \in {"branch", "loop"} : Begin(kind)
  \/ End \/ ProgramExit \/ Propagate \/ CheckSegments \/ Done

Spec == Init /\ [][Next]_vars /\ WF_vars(Propagate \/ CheckSegments)

-----------------------------------------------------------------------------
ValuesOK(w) == w \in {Absent, UnknownValue} \cup {AssignedValues(S) : S \in SUBSET Literals \ {{}}}
TypeOK ==
  /\ phase \in {"walk", "propagate", "done"}
  /\ flow \subseteq Segs \X Segs /\ cur \in Segs
  /\ phase # "walk" => \A s \in Segs : \A v \in Vars : ValuesOK(in[s][v]) /\ ValuesOK(out[s][v])

(***************************************************************************)
(* What the analysed function does: an environment gives each variable a   *)
(* literal, or "none" before its declaration; an unknown expression may    *)
(* give any literal.  A closure may be called between any two statements   *)
(* and inside expressions: a variable that it writes has then any literal. *)
(***************************************************************************)
\* The segments of the function itself; the others belong to closures.
OwnSegs == {1} \cup {s \in Segs : \E e \in flow : s \in {e[1], e[2]}}

Shared ==
  {v \in Vars : \E s \in Segs \ OwnSegs : \E i \in DOMAIN refs[s] : refs[s][i].v = v /\ IsWrite(refs[s][i])}

Interfere(env) ==
  {written @@ env : written \in [{v \in Shared : env[v] # "none"} -> Literals]}

Run(env, ref) ==
  CASE ~IsWrite(ref) -> {env}
    [] ref.e.t = "Literal" -> {[env EXCEPT ![ref.v] = ref.e.of]}
    [] ref.e.t \in {"Identifier", "assignment"} /\ env[ref.e.of] # "none" -> {[env EXCEPT ![ref.v] = env[ref.e.of]]}
    [] OTHER -> {[env EXCEPT ![ref.v] = l] : l \in Literals}
RunAll(envs, ref) == UNION {Interfere(new) : new \in UNION {Run(env, ref) : env \in envs}}
After(envs, rs) == FoldLeft(RunAll, envs, rs)

\* <<segment, environment>> pairs that occur where the segment starts
Reachable ==
  LET grow[n \in 0..12] ==
        IF n = 0 THEN {<<1, [v \in Vars |-> "none"]>>}
        ELSE LET known == grow[n - 1]
             IN known \cup UNION {{t} \X After({p[2] : p \in {q \in known : q[1] = s}}, refs[s]) :
                                    <<s, t>> \in flow}
  IN grow[12]

\* References stand in the order of evaluation: what an assignment assigns was
\* read, or assigned by the assignment inside it, just before.
InOrderOfEvaluation ==
  \A p \in References :
    LET ref == refs[p[1]][p[2]]
    IN ref.e.t \in {"Identifier", "assignment"} =>
         /\ p[2] > 1
         /\ refs[p[1]][p[2] - 1].v = ref.e.of
         /\ IsWrite(refs[p[1]][p[2] - 1]) <=> ref.e.t = "assignment"

\* The values of variables that closures write are not copied to others.
SharedStaysApart ==
  \A p \in References : refs[p[1]][p[2]].e.t \in {"Identifier", "assignment"} => refs[p[1]][p[2]].e.of \notin Shared

\* The message of no-redundant-assignments: the variable "already holds the
\* assigned value along all execution paths", whenever closures are called.
ReportedIsRedundant ==
  phase = "done" /\ reports # {} /\ SharedStaysApart =>
    LET reachable == Reachable
    IN \A p \in reports : \A q \in reachable : q[1] = p[1] =>
         \A env \in After({q[2]}, SubSeq(refs[p[1]], 1, p[2] - 1)) :
           Run(env, refs[p[1]][p[2]]) = {env}

\* reachingDefinitions over-approximates: a value that a variable of no closure
\* has where a segment starts is one of its values there, or they are unknown.
NoDefinitionMissed ==
  phase = "done" /\ SharedStaysApart => \A q \in Reachable : \A v \in Vars \ Shared :
    q[2][v] = "none" \/ in[q[1]][v] = UnknownValue \/ q[2][v] \in in[q[1]][v].lits

\* The loop over the worklist leaves no segment whose in is older than the
\* out of a predecessor.
NothingStale ==
  phase = "done" => \A s \in Segs : in[s] = InOf(s) /\ out[s] = FoldLeft(Update, in[s], refs[s])

\* The analysis gets to a fixed point: were values only to grow, every value
\* of a segment could change once for each literal and once to unknown, and
\* each change puts a segment on the worklist for every edge.
WorklistBounded ==
  phase = "propagate" =>
    Len(worklist) <= Len(refs) + Cardinality(flow) * Cardinality(Vars) * (Cardinality(Literals) + 1)

Propagating == phase = "propagate"
Propagated == phase = "done"

\* The worklist becomes empty, although values are not monotone: unknown
\* becomes known when the assigned variable enters the map later.
ReachingDefinitionsTerminates == Propagating ~> Propagated

-----------------------------------------------------------------------------
\* Statements of the instances of RedundantAssignment.

Node(event) == [event |-> event]
Id(v, t, of, sides) == [event |-> "Identifier", v |-> v, e |-> [t |-> t, of |-> of], sides |-> sides]

\* v = right, where right is met after v and the value is e.
Assignment(v, t, of, right, sides) ==
  <<Node("assignment"), Id(v, t, of, Append(sides, "lhs"))>> \o right \o <<Node("assignment:exit")>>

Assign(v, t, of) ==
  Assignment(v, t, of, IF t = "Identifier" THEN <<Id(of, "read", "", <<"rhs">>)>> ELSE <<>>, <<>>)

\* v = inner = l
AssignTwice(v, inner, l) ==
  Assignment(v, "assignment", inner, Assignment(inner, "Literal", l, <<>>, <<"rhs">>), <<>>)

Closure(st) == <<Node("onCodePathStart")>> \o st \o <<Node("onCodePathEnd")>>

\* x and y get a literal or each other's value, x also something unknown.
SimpleStatements ==
  {Assign(v, "Literal", l) : v \in Vars, l \in Literals}
  \cup {Assign("x", "Identifier", "y"), Assign("y", "Identifier", "x"), Assign("x", "other", "")}

\* With x = y = l and a closure that writes y.
NestedStatements ==
  SimpleStatements \cup {AssignTwice("x", "y", l) : l \in Literals}
    \cup {Closure(Assign("y", "Literal", l)) : l \in Literals}

\* With x += 1.
CompoundStatements == SimpleStatements \cup {Assign("x", "compound", l) : l \in Literals}

\* let a = 1, b = 1;  t = b; b = a; a = t;  a = 1;
SwapStatements ==
  {Assign("a", "Literal", "1") \o Assign("b", "Literal", "1"),
   Assign("t", "Identifier", "b") \o Assign("b", "Identifier", "a") \o Assign("a", "Identifier", "t"),
   Assign("a", "Literal", "1")}

=============================================================================
