------------------------------ MODULE DeadStore ------------------------------
(***************************************************************************)
(* The rule no-dead-store (S1854) with its live variable analysis.         *)
(*                                                                         *)
(* ESLint walks the body of a function and tells the rule of code path     *)
(* segments, assignments and identifiers; the rule attaches references to  *)
(* segments.  On Program:exit helpers/lva.ts computes the variables live   *)
(* at the edges of every segment with a worklist and the rule reports the  *)
(* writes that nothing reads.                                              *)
(*                                                                         *)
(* The walk is chosen step by step by the environment: structured branches *)
(* and loops, finally blocks (walked once, in two parallel segments), one  *)
(* closure, nested assignments and object patterns.  trace is a ghost: the *)
(* reads and writes in the order and in the segment where the program      *)
(* being analysed performs them.                                           *)
(***************************************************************************)
EXTENDS Naturals, Sequences, SequencesExt, FiniteSets

CONSTANTS
  Vars,         \* local variables of the function
  Forms,        \* what is assigned: "plain", "basic", "null", "default"
  MaxRefs,      \* bound: identifiers that are references
  MaxSegs,      \* bound: code path segments
  MaxDepth,     \* bound: open assignments of a code path
  Features      \* constructs that occur in the function: "branch", "loop",
                \* "closure", "pattern", "finally", and "nested": an assignment
                \* holds branches, and one whose left side is read may hold
                \* another write

ASSUME DeadStoreAssumption ==
  /\ {MaxRefs, MaxSegs, MaxDepth} \subseteq Nat \ {0}
  /\ Features \subseteq {"branch", "loop", "closure", "pattern", "finally", "nested"}
  /\ Forms \subseteq {"plain", "basic", "null", "default"}

VARIABLES
  phase,        \* "walk", "lva" or "done"
  codePathStack,\* contexts: current segments, open assignments, open blocks
  cfg,          \* code path of every segment started, and the edges
  nref,         \* references met so far
  refs,         \* segment -> references, LiveVariables.references
  usage,        \* readVariables and variableUsages
  destructuringStack,
  usedInDestructuring,
  lva,          \* worklist, in and out sets of the segments
  reports,      \* issues: the check that found it, the segment and the reference
  trace         \* ghost: segment -> reads and writes in evaluation order

vars == <<phase, codePathStack, cfg, nref, refs, usage, destructuringStack,
          usedInDestructuring, lva, reports, trace>>

Segs == 1..Len(cfg.path)
NextSegs(s) == {t \in Segs : <<s, t>> \in cfg.flow}
PrevSegs(s) == {t \in Segs : <<t, s>> \in cfg.flow}
IsRead(ref) == ref.k \in {"r", "rw"}
IsWrite(ref) == ref.k \in {"w", "rw"}

top == Last(codePathStack)
SetTop(ctx) == codePathStack' = Append(Front(codePathStack), ctx)
Assignments == top.asg
NewContext(id, seg) == [id |-> id, cur |-> {seg}, asg |-> <<>>, ctl |-> <<>>]

Init ==
  /\ phase = "walk"
  /\ codePathStack = <<NewContext(1, 1)>>
  /\ cfg = [path |-> <<1>>, flow |-> {}]
  /\ nref = 0
  /\ refs = <<<<>>>>
  /\ trace = <<<<>>>>
  /\ usage = [read |-> {}, paths |-> [v \in Vars |-> {}]]
  /\ destructuringStack = <<>>
  /\ usedInDestructuring = {}
  /\ lva = [worklist |-> <<>>, in |-> <<>>, out |-> <<>>]
  /\ reports = {}

(***************************************************************************)
(* processReference: an open assignment keeps the reference on the side    *)
(* the walk is in, otherwise every current segment gets it.                *)
(***************************************************************************)
AddToAssignment(asg, rs) ==
  LET a == Last(asg)
  IN Append(Front(asg), IF a.side = "lhs" THEN [a EXCEPT !.lhs = @ \o rs]
                                          ELSE [a EXCEPT !.rhs = @ \o rs])

ProcessReferences(asg, rs) ==
  IF asg # <<>>
  THEN SetTop([top EXCEPT !.asg = AddToAssignment(asg, rs)]) /\ UNCHANGED refs
  ELSE /\ SetTop([top EXCEPT !.asg = asg])
       /\ refs' = [s \in Segs |-> IF s \in top.cur THEN refs[s] \o rs ELSE refs[s]]

Perform(ops) ==
  trace' = [s \in Segs |-> IF s \in top.cur THEN trace[s] \o ops ELSE trace[s]]
Op(ref, k) == [id |-> ref.id, v |-> ref.v, k |-> k]

(***************************************************************************)
(* Assignments: references are kept until the assignment ends, those of    *)
(* the right side then come before those of the left side.                 *)
(***************************************************************************)
MayWriteInside ==
  "nested" \in Features
  \/ \A i \in DOMAIN Assignments : \A r \in ToSet(Assignments[i].lhs) : ~IsRead(r)

NewAssignment == [lhs |-> <<>>, rhs |-> <<>>, side |-> "lhs", own |-> <<>>]

PushAssignmentContext ==
  /\ phase = "walk" /\ destructuringStack = <<>>
  /\ Len(Assignments) < MaxDepth /\ nref < MaxRefs
  /\ Assignments # <<>> => Last(Assignments).side = "rhs"
  /\ MayWriteInside
  /\ SetTop([top EXCEPT !.asg =
       Append(@, NewAssignment)])
  /\ UNCHANGED <<phase, cfg, nref, refs, usage, destructuringStack,
                 usedInDestructuring, lva, reports, trace>>

\* The walk goes from left (or id) to right (or init).
EnterRightSide ==
  /\ phase = "walk" /\ Assignments # <<>> /\ destructuringStack = <<>>
  /\ Last(Assignments).side = "lhs" /\ Last(Assignments).lhs # <<>>
  /\ SetTop([top EXCEPT !.asg[Len(Assignments)].side = "rhs"])
  /\ UNCHANGED <<phase, cfg, nref, refs, usage, destructuringStack,
                 usedInDestructuring, lva, reports, trace>>

\* Mutant: the left side first.
LeftSideFirst(a) == a.lhs \o a.rhs

EvaluationOrder(a) == a.rhs \o a.lhs
Writes(rs) == [i \in DOMAIN rs |-> Op(rs[i], "w")]

PopAssignmentContext ==
  /\ phase = "walk" /\ Assignments # <<>> /\ Last(Assignments).side = "rhs"
  /\ \A b \in ToSet(top.ctl) : b.depth < Len(Assignments)
  /\ LET a == Last(Assignments)
     IN /\ ProcessReferences(Front(Assignments), EvaluationOrder(a))
        /\ Perform(Writes(a.own))
  /\ UNCHANGED <<phase, cfg, nref, usage, destructuringStack,
                 usedInDestructuring, lva, reports>>

(***************************************************************************)
(* Identifiers.  A reference on the left side is the target of the         *)
(* assignment (w, or rw when it is compound) or the object of a member;    *)
(* elsewhere it is a read (JSX names are reads too) or an increment.       *)
(***************************************************************************)
OnLeftSide == Assignments # <<>> /\ Last(Assignments).side = "lhs"

References(v) ==
  {[id |-> nref + 1, v |-> v, k |-> k, form |-> form] :
     k \in {"r", "w", "rw"}, form \in Forms \cup {"incDec"}}

MayOccur(ref) ==
  \/ ~OnLeftSide /\ ref.form = "plain" /\ ref.k = "r"
  \/ ~OnLeftSide /\ ref.form = "incDec" /\ ref.k = "rw" /\ MayWriteInside
  \/ OnLeftSide /\ destructuringStack # <<>> /\ ref.form = "plain" /\ ref.k = "w"
  \/ /\ OnLeftSide /\ destructuringStack = <<>> /\ Last(Assignments).lhs = <<>>
     /\ ref.form # "incDec" /\ (ref.k = "w" \/ ref.form = "plain")

CheckIdentifierUsage(ref) ==
  /\ phase = "walk" /\ nref < MaxRefs /\ MayOccur(ref)
  /\ nref' = nref + 1
  /\ LET target == IsWrite(ref) /\ ref.form # "incDec"
     IN ProcessReferences(IF target THEN [Assignments EXCEPT ![Len(Assignments)].own = Append(@, ref)]
                                    ELSE Assignments, <<ref>>)
  /\ Perform((IF IsRead(ref) THEN <<Op(ref, "r")>> ELSE <<>>)
             \o (IF ref.form = "incDec" THEN <<Op(ref, "w")>> ELSE <<>>))
  /\ destructuringStack' =
       IF destructuringStack = <<>> THEN <<>>
       ELSE [destructuringStack EXCEPT ![Len(destructuringStack)].references = @ \cup {ref}]
  /\ usage' = [read |-> IF IsRead(ref) THEN usage.read \cup {ref.v} ELSE usage.read,
               paths |-> [usage.paths EXCEPT ![ref.v] = @ \cup {top.id}]]
  /\ UNCHANGED <<phase, cfg, usedInDestructuring, lva, reports>>

\* The name in a declaration without initializer is a use, not a reference.
DeclareWithoutInit(v) ==
  /\ phase = "walk" /\ nref = 0 /\ top.id \notin usage.paths[v]
  /\ usage' = [usage EXCEPT !.paths[v] = @ \cup {top.id}]
  /\ UNCHANGED <<phase, codePathStack, cfg, nref, refs, destructuringStack,
                 usedInDestructuring, lva, reports, trace>>

(***************************************************************************)
(* Object patterns: with a rest element the other targets select what the  *)
(* rest does not get, so they count as used.                               *)
(***************************************************************************)
ObjectPattern ==
  /\ "pattern" \in Features /\ phase = "walk" /\ OnLeftSide /\ nref < MaxRefs
  /\ Len(destructuringStack) < MaxDepth
  /\ destructuringStack = <<>> => Last(Assignments).lhs = <<>>
  /\ destructuringStack' = Append(destructuringStack, [hasRest |-> FALSE, references |-> {}])
  /\ UNCHANGED <<phase, codePathStack, cfg, nref, refs, usage,
                 usedInDestructuring, lva, reports, trace>>

RestElement ==
  /\ phase = "walk" /\ destructuringStack # <<>> /\ ~Last(destructuringStack).hasRest
  /\ destructuringStack' = [destructuringStack EXCEPT ![Len(destructuringStack)].hasRest = TRUE]
  /\ UNCHANGED <<phase, codePathStack, cfg, nref, refs, usage,
                 usedInDestructuring, lva, reports, trace>>

ObjectPatternExit ==
  /\ phase = "walk" /\ destructuringStack # <<>>
  /\ Last(Assignments).lhs # <<>>
  /\ destructuringStack' = Front(destructuringStack)
  /\ usedInDestructuring' = IF Last(destructuringStack).hasRest
                            THEN usedInDestructuring \cup Last(destructuringStack).references
                            ELSE usedInDestructuring
  /\ UNCHANGED <<phase, codePathStack, cfg, nref, refs, usage, lva, reports, trace>>

(***************************************************************************)
(* Code paths and segments                                                 *)
(***************************************************************************)
\* onCodePathSegmentStart for n new segments, of code path id.
StartSegments(n, id, edges) ==
  /\ cfg' = [path |-> cfg.path \o [i \in 1..n |-> id], flow |-> cfg.flow \cup edges]
  /\ refs' = refs \o [i \in 1..n |-> <<>>]
  /\ trace' = trace \o [i \in 1..n |-> <<>>]

\* The bound leaves a segment for the end of every block still open.
SegmentsLeft(n) ==
  Len(cfg.path) + n + FoldLeft(LAMBDA k, c : k + Len(c.ctl), 0, codePathStack) <= MaxSegs

NewSeg == Len(cfg.path) + 1
From(segs, t) == {<<s, t>> : s \in segs}
MayBranch ==
  /\ phase = "walk" /\ destructuringStack = <<>> /\ ~OnLeftSide
  /\ Assignments # <<>> => "nested" \in Features
  /\ Cardinality(top.cur) = 1

OpenBlock(kind, n, edges, cur) ==
  /\ kind \in Features /\ MayBranch /\ SegmentsLeft(n + 1)
  /\ StartSegments(n, top.id, edges)
  /\ SetTop([top EXCEPT !.cur = cur,
       !.ctl = Append(@, [kind |-> kind, from |-> top.cur, head |-> NewSeg, depth |-> Len(Assignments)])])
  /\ UNCHANGED <<phase, nref, usage, destructuringStack, usedInDestructuring, lva, reports>>

BeginBranch == OpenBlock("branch", 1, From(top.cur, NewSeg), {NewSeg})
BeginLoop == Assignments = <<>> /\ OpenBlock("loop", 1, From(top.cur, NewSeg), {NewSeg})
BeginFinally ==
  /\ Assignments = <<>>
  /\ OpenBlock("finally", 2, From(top.cur, NewSeg) \cup From(top.cur, NewSeg + 1),
               {NewSeg, NewSeg + 1})

\* A branch joins what it left, a loop goes back to its head, and only the
\* first of the two segments of a finally block goes on.
EndBlock ==
  /\ phase = "walk" /\ top.ctl # <<>> /\ destructuringStack = <<>> /\ ~OnLeftSide
  /\ LET b == Last(top.ctl)
     IN /\ b.depth = Len(Assignments)
        /\ StartSegments(1, top.id,
             CASE b.kind = "branch" -> From(top.cur \cup b.from, NewSeg)
               [] b.kind = "loop" -> From(top.cur, b.head) \cup From({b.head}, NewSeg)
               [] b.kind = "finally" -> From({b.head}, NewSeg))
  /\ SetTop([top EXCEPT !.cur = {NewSeg}, !.ctl = Front(@)])
  /\ UNCHANGED <<phase, nref, usage, destructuringStack, usedInDestructuring, lva, reports>>

OnCodePathStart ==
  /\ "closure" \in Features /\ phase = "walk" /\ Len(codePathStack) = 1 /\ destructuringStack = <<>> /\ ~OnLeftSide
  /\ 2 \notin ToSet(cfg.path) /\ SegmentsLeft(1)
  /\ StartSegments(1, 2, {})
  /\ codePathStack' = Append(codePathStack, NewContext(2, NewSeg))
  /\ UNCHANGED <<phase, nref, usage, destructuringStack, usedInDestructuring, lva, reports>>

OnCodePathEnd ==
  /\ phase = "walk" /\ Len(codePathStack) = 2
  /\ top.asg = <<>> /\ top.ctl = <<>>
  /\ codePathStack' = Front(codePathStack)
  /\ UNCHANGED <<phase, cfg, nref, refs, usage, destructuringStack,
                 usedInDestructuring, lva, reports, trace>>

(***************************************************************************)
(* Program:exit.  lva: a worklist used as a stack; a segment whose live-in *)
(* set changed puts its predecessors back, in the order ESLint lists them. *)
(***************************************************************************)
\* Mutant: a compound assignment reads nothing.
GenOfPlainReads(s) == {r.v : r \in {x \in ToSet(refs[s]) : x.k = "r"}}

Gen(s) == {r.v : r \in {x \in ToSet(refs[s]) : IsRead(x)}}
Kill(s) == {r.v : r \in {x \in ToSet(refs[s]) : IsWrite(x)}}

ProgramExit ==
  /\ phase = "walk" /\ Len(codePathStack) = 1 /\ top.asg = <<>> /\ top.ctl = <<>>
  /\ phase' = "lva"
  /\ lva' = [worklist |-> [i \in Segs |-> i], in |-> [s \in Segs |-> {}],
             out |-> [s \in Segs |-> {}]]
  /\ UNCHANGED <<codePathStack, cfg, nref, refs, usage, destructuringStack,
                 usedInDestructuring, reports, trace>>

\* Mutant: the first visit of a segment is its last.
ChangedByReads(s, diff) == ~(Gen(s) \subseteq lva.in[s])

\* shouldUpdate
Changed(s, diff) == ~((Gen(s) \cup diff) \subseteq lva.in[s])

\* Mutant: the last segment is read and not taken away.
Peek(list) == list

Pop(list) == Front(list)

Propagate ==
  /\ phase = "lva" /\ lva.worklist # <<>>
  /\ LET s == Last(lva.worklist)
         out == UNION {lva.in[t] : t \in NextSegs(s)}
         diff == out \ Kill(s)
     IN \E prev \in SetToSeqs(PrevSegs(s)) :
          lva' = [worklist |-> Pop(lva.worklist) \o (IF Changed(s, diff) THEN prev ELSE <<>>),
                  in |-> [lva.in EXCEPT ![s] = IF Changed(s, diff) THEN Gen(s) \cup diff ELSE @],
                  out |-> [lva.out EXCEPT ![s] = out]]
  /\ UNCHANGED <<phase, codePathStack, cfg, nref, refs, usage,
                 destructuringStack, usedInDestructuring, reports, trace>>

(***************************************************************************)
(* checkSegment walks the references of a segment backwards from its       *)
(* live-out set: the variable of the write at i will be read iff the next  *)
(* references of it read it first or, when there is none, it is live at    *)
(* the end.                                                                *)
(***************************************************************************)
Later(s, i) == {j \in (i + 1)..Len(refs[s]) : refs[s][j].v = refs[s][i].v}

\* Mutant: starts from the live-in set.
WillBeReadFromIn(s, i) ==
  \/ \E j \in Later(s, i) : \A k \in Later(s, i) : k <= j => IsRead(refs[s][k])
  \/ Later(s, i) = {} /\ refs[s][i].v \in lva.in[s]

WillBeRead(s, i) ==
  \/ \E j \in Later(s, i) : \A k \in Later(s, i) : k <= j => IsRead(refs[s][k])
  \/ Later(s, i) = {} /\ refs[s][i].v \in lva.out[s]

ShouldReportReference(ref) ==
  /\ ref.form \notin {"basic", "default", "null", "incDec"}
  /\ ref \notin usedInDestructuring

\* Mutant: also for a variable that is never read.
ShouldReportUnread(ref) ==
  /\ ShouldReportReference(ref)
  /\ Cardinality(usage.paths[ref.v]) <= 1

ShouldReport(ref) ==
  /\ ShouldReportReference(ref)
  /\ Cardinality(usage.paths[ref.v]) <= 1
  /\ ref.v \in usage.read

Issue(by, s, i) == [by |-> by, seg |-> s, at |-> i]

CheckSegment(s) ==
  {Issue("checkSegment", s, i) : i \in
     {j \in DOMAIN refs[s] : IsWrite(refs[s][j]) /\ ~WillBeRead(s, j) /\ ShouldReport(refs[s][j])}}

ReportNeverReadVariables(s) ==
  {Issue("neverRead", s, i) : i \in
     {j \in DOMAIN refs[s] : ShouldReportReference(refs[s][j]) /\ refs[s][j].v \notin usage.read}}

CheckSegments ==
  /\ phase = "lva" /\ lva.worklist = <<>>
  /\ phase' = "done"
  /\ reports' = UNION {CheckSegment(s) \cup ReportNeverReadVariables(s) : s \in Segs}
  /\ UNCHANGED <<codePathStack, cfg, nref, refs, usage, destructuringStack,
                 usedInDestructuring, lva, trace>>

Done == phase = "done" /\ UNCHANGED vars

Next ==
  \/ PushAssignmentContext \/ EnterRightSide \/ PopAssignmentContext
  \/ \E v \in Vars : (\E ref \in References(v) : CheckIdentifierUsage(ref)) \/ DeclareWithoutInit(v)
  \/ ObjectPattern \/ RestElement \/ ObjectPatternExit
  \/ BeginBranch \/ BeginLoop \/ BeginFinally \/ EndBlock
  \/ OnCodePathStart \/ OnCodePathEnd
  \/ ProgramExit \/ Propagate \/ CheckSegments \/ Done

\* The rule's handler of Program:exit runs to its end.
Spec == Init /\ [][Next]_vars /\ WF_vars(Propagate \/ CheckSegments)

-----------------------------------------------------------------------------
(***************************************************************************)
(* What really happens: variable v is live at the start of a segment when  *)
(* some path reads it before writing it.                                   *)
(***************************************************************************)
Uses(s, v, i) == {j \in i..Len(trace[s]) : trace[s][j].v = v}
ReadFirst(s, v, i) ==
  \E j \in Uses(s, v, i) : trace[s][j].k = "r" /\ \A k \in Uses(s, v, i) : j <= k

\* A set of segments that holds every segment at whose start v is live: those
\* that read v first, and those that pass on to one of the set without using v.
HoldsLive(v, segs) ==
  \A s \in Segs :
    ReadFirst(s, v, 1) \/ (Uses(s, v, 1) = {} /\ NextSegs(s) \cap segs # {}) => s \in segs

TrulyLiveIn(v) == {s \in Segs : \A segs \in SUBSET Segs : HoldsLive(v, segs) => s \in segs}

ValueIsUsed(s, i) ==
  LET v == trace[s][i].v
  IN \/ ReadFirst(s, v, i + 1)
     \/ Uses(s, v, i + 1) = {} /\ NextSegs(s) \cap TrulyLiveIn(v) # {}
     \/ \E t \in Segs : cfg.path[t] # cfg.path[s] /\ \E o \in ToSet(trace[t]) : o.v = v /\ o.k = "r"

Reported(issue) == refs[issue.seg][issue.at]

\* The writes of an issue in segment s are useless there.
DeadIn(s, issue) ==
  \A i \in DOMAIN trace[s] :
    trace[s][i].id = Reported(issue).id /\ trace[s][i].k = "w" => ~ValueIsUsed(s, i)

\* no-dead-store reports "useless" assignments: no path of the analysed program
\* that goes through the segment of an issue reads the value written there.
ReportedIsDead == phase = "done" => \A issue \in reports : DeadIn(issue.seg, issue)

\* The value is dead whichever way the program comes to the assignment.  A
\* reference of a finally block is in two segments and may be live in the other.
ReportedIsUseless == phase = "done" => \A issue \in reports : \A s \in Segs : DeadIn(s, issue)

\* A reference of a segment gives at most one issue: checkSegment and
\* reportNeverReadVariables never report the same one.
ReportedOnce ==
  phase = "done" => \A x, y \in reports : x.seg = y.seg /\ Reported(x) = Reported(y) => x = y

\* lva stops with a solution of its equations: no out set is stale although
\* propagate computes it before the in sets of the successors are final.
StableSolution ==
  phase = "done" =>
    \A s \in Segs : /\ lva.out[s] = UNION {lva.in[t] : t \in NextSegs(s)}
                    /\ lva.in[s] = Gen(s) \cup (lva.out[s] \ Kill(s))

\* The reads and writes that a reference stands for.
Operations(ref) == {Op(ref, k) : k \in {x \in {"r", "w"} : IF x = "r" THEN IsRead(ref) ELSE IsWrite(ref)}}

\* Two references are in the order of their operations: what the first does to
\* the variable comes before what the second does, unless both only read it.
InOrder(ops, r1, r2) ==
  /\ r1.id # r2.id
  /\ \A p, q \in DOMAIN ops :
       /\ ops[p].id = r1.id /\ ops[q].id = r2.id
       /\ ops[p].v = ops[q].v /\ (ops[p].k = "w" \/ ops[q].k = "w")
       => p < q
Ordered(ops, rs) == \A i, j \in DOMAIN rs : i < j => InOrder(ops, rs[i], rs[j])

ReadsBeforeItWrites(ops) ==
  \A p, q \in DOMAIN ops : ops[p].id = ops[q].id /\ ops[p].k = "r" /\ ops[q].k = "w" => p < q

\* LiveVariables "collects references in order they are evaluated": the
\* references of a segment are those of the reads and writes that happen in it,
\* and those of one variable follow each other as its reads and writes do.
InEvaluationOrder ==
  phase # "walk" => \A s \in Segs :
    /\ Ordered(trace[s], refs[s]) /\ ReadsBeforeItWrites(trace[s])
    /\ ToSet(trace[s]) = UNION {Operations(ref) : ref \in ToSet(refs[s])}

\* A read in the last code path that uses a variable is never lost: every
\* variable that is really live at the start of a segment is in its in set.
NoLiveVariableMissed ==
  phase = "done" => \A v \in Vars : \A s \in TrulyLiveIn(v) : v \in lva.in[s]

InLva == phase = "lva"
LvaDone == phase = "done"

\* The worklist of lva becomes empty although segments come back on it.
LvaTerminates == InLva ~> LvaDone

-----------------------------------------------------------------------------
(* The inductive invariant of the worklist *)

\* What the out set of a segment has to be, and what its in set has to hold, given
\* the in sets of its successors.
OutOf(s) == UNION {lva.in[t] : t \in NextSegs(s)}
InOf(s) == Gen(s) \cup (OutOf(s) \ Kill(s))

LvaType ==
  /\ cfg.path \in Seq(ToSet(cfg.path))
  /\ phase # "walk" =>
       /\ lva.worklist \in Seq(Segs)
       /\ DOMAIN lva.in = Segs /\ DOMAIN lva.out = Segs

\* In sets only grow, and never beyond what their equation allows; a segment that
\* is not on the worklist satisfies both of its equations.
SolvedUnlessListed ==
  phase # "walk" =>
    \A s \in Segs :
      /\ lva.in[s] \subseteq InOf(s)
      /\ s \notin ToSet(lva.worklist) => lva.out[s] = OutOf(s) /\ InOf(s) \subseteq lva.in[s]

LvaInvariant ==
  /\ LvaType
  /\ SolvedUnlessListed
  /\ phase = "done" => lva.worklist = <<>>

-----------------------------------------------------------------------------
(***************************************************************************)
(* The inductive invariant of the walk.  The references of a segment are   *)
(* those it has (list 0) and those the assignments open in it still keep:  *)
(* the right sides from the outermost to the innermost, then the left      *)
(* sides from the innermost to the outermost.  This is the order in which  *)
(* they will be added.                                                     *)
(***************************************************************************)
Reference == [id : Nat, v : Vars, k : {"r", "w", "rw"}, form : Forms \cup {"incDec"}]
Operation == [id : Nat, v : Vars, k : {"r", "w"}]
Assignment ==
  [lhs : Seq(Reference), rhs : Seq(Reference), side : {"lhs", "rhs"}, own : Seq(Reference)]
Block == [kind : {"branch", "loop", "finally"}, from : SUBSET Nat, head : Nat, depth : Nat]
Context == [id : Nat, cur : SUBSET Nat, asg : Seq(Assignment), ctl : Seq(Block)]

WalkType ==
  /\ phase \in {"walk", "lva", "done"} /\ nref \in Nat /\ cfg.path \in Seq({1, 2})
  /\ codePathStack \in Seq(Context) /\ codePathStack # <<>>
  /\ refs \in [Segs -> Seq(Reference)] /\ trace \in [Segs -> Seq(Operation)]

\* A code path is as deep as its number; its current segments are its own.
Contexts ==
  /\ \A i \in DOMAIN codePathStack :
       /\ codePathStack[i].id = i /\ codePathStack[i].cur # {}
       /\ \A s \in codePathStack[i].cur : s \in Segs /\ cfg.path[s] = i
       /\ \A b \in ToSet(codePathStack[i].ctl) : b.depth = 0
  /\ phase # "walk" => Len(codePathStack) = 1 /\ top.asg = <<>>
  /\ destructuringStack # <<>> =>
       top.asg # <<>> /\ Last(top.asg).side = "lhs" /\ \A r \in ToSet(Last(top.asg).lhs) : ~IsRead(r)

\* The assignments whose references will be added to segment s.
Open(s) ==
  LET i == cfg.path[s]
  IN IF i \in DOMAIN codePathStack /\ s \in codePathStack[i].cur THEN codePathStack[i].asg ELSE <<>>

Lists(asg) == 0..(2 * Len(asg))
List(rs, asg, x) ==
  IF x = 0 THEN rs
  ELSE IF x <= Len(asg) THEN asg[x].rhs ELSE asg[2 * Len(asg) + 1 - x].lhs
Before(ops, rs1, rs2) == \A r1 \in ToSet(rs1) : \A r2 \in ToSet(rs2) : InOrder(ops, r1, r2)

\* The lists are in the order of evaluation, and so are the references of a list.
ListsInOrder(ops, rs, asg) ==
  /\ ReadsBeforeItWrites(ops)
  /\ \A x \in Lists(asg) : Ordered(ops, List(rs, asg, x))
  /\ \A x, y \in Lists(asg) : x < y => Before(ops, List(rs, asg, x), List(rs, asg, y))

\* Every operation has its reference.  On the left side the write is still to
\* come, and only the innermost left side may have been read.
ListsAreComplete(ops, rs, asg) ==
  /\ \A o \in ToSet(ops) : \E x \in Lists(asg) : \E r \in ToSet(List(rs, asg, x)) : o \in Operations(r)
  /\ \A x \in Lists(asg) : \A r \in ToSet(List(rs, asg, x)) :
       IF x <= Len(asg) THEN Operations(r) \subseteq ToSet(ops)
       ELSE /\ IsRead(r) => Op(r, "r") \in ToSet(ops) /\ x = Len(asg) + 1
            /\ \A o \in ToSet(ops) : o.id = r.id => o.k = "r" /\ IsRead(r)

\* What is written when an assignment ends: its left side, or nothing.
Targets(asg) ==
  \A i \in DOMAIN asg :
    /\ \/ asg[i].own = asg[i].lhs /\ \A r \in ToSet(asg[i].lhs) : IsWrite(r)
       \/ asg[i].own = <<>> /\ \A r \in ToSet(asg[i].lhs) : ~IsWrite(r)
    /\ Len(asg[i].lhs) <= 1 \/ \A r \in ToSet(asg[i].lhs) : ~IsRead(r)
    /\ i < Len(asg) => asg[i].side = "rhs"

Evaluated(ops, rs, asg) ==
  ListsInOrder(ops, rs, asg) /\ ListsAreComplete(ops, rs, asg) /\ Targets(asg)

RefsOf(rs, asg) == UNION {ToSet(List(rs, asg, x)) : x \in Lists(asg)}
RefsAt(s) == RefsOf(refs[s], Open(s))

WalkInvariant ==
  /\ WalkType
  /\ Contexts
  /\ \A s \in Segs : /\ Evaluated(trace[s], refs[s], Open(s))
                    /\ \A r \in RefsAt(s) : r.id <= nref

\* A reference belongs to one segment.
OneSegment == \A s, t \in Segs : \A r1 \in RefsAt(s), r2 \in RefsAt(t) : r1.id = r2.id => s = t

\* The use of a reference is recorded.
UsageInvariant ==
  /\ usage \in [read : SUBSET Vars, paths : [Vars -> SUBSET {1, 2}]]
  /\ \A s \in Segs : \A r \in RefsAt(s) :
       cfg.path[s] \in usage.paths[r.v] /\ (IsRead(r) => r.v \in usage.read)

=============================================================================
