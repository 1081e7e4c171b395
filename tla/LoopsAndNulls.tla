---------------------------- MODULE LoopsAndNulls ----------------------------
(***************************************************************************)
(* function-inside-loop decides from the places of writes whether a         *)
(* variable that a function in a loop uses is constant in the loop;         *)
(* null-dereference decides from comparisons and from the functions around  *)
(* writes whether a property of null is read.                               *)
(***************************************************************************)
EXTENDS Integers, Sequences, FiniteSets

CONSTANTS
  Loops,       \* kinds of loops: "for", "for;;" (without test), "while", "do", "forof"
  Places,      \* where a variable is written
  Conditions,  \* expressions with a member expression of x
  Depths,      \* numbers of functions around a dereference or a write
  MaxUses      \* bound on the dereferences in a file

VARIABLES
  loop,                  \* a function in a loop that was checked
  condition,             \* an expression that was checked
  alreadyRaisedSymbols,  \* symbols of the issues so far
  uses                   \* dereferences so far, with the issues

vars == <<loop, condition, alreadyRaisedSymbols, uses>>

None == [kind |-> "none"]

(***************************************************************************)
(* function-inside-loop.  The parts of a loop in the order of the text; a   *)
(* write in the body stands in the block of the body ("body"), in a block   *)
(* in it ("nested") or in a body without braces ("statement").              *)
(***************************************************************************)
Position(kind, place) ==
  CASE place = "before" -> 0
    [] place = "init" -> 1
    [] place = "left" -> 1
    [] place = "test" -> IF kind = "do" THEN 5 ELSE 2
    [] place = "update" -> 3
    [] place \in {"body", "nested", "statement"} -> 4
    [] place = "after" -> 6

PlacesOf(kind) ==
  {"before", "after", "body", "nested", "statement"} \cup
  CASE kind = "for" -> {"init", "test", "update"}
    [] kind = "for;;" -> {"init", "update"}
    [] kind \in {"while", "do"} -> {"test"}
    [] kind = "forof" -> {"left"}

\* From the test of a for loop, or from the start of a for-of loop, to the body.
getLoopTestRange(kind) ==
  CASE kind = "for" -> 2..3 [] kind = "for;;" -> {} [] kind \in {"while", "do"} -> {Position(kind, "test")} [] kind = "forof" -> 1..3

hasConstValue(kind, places) == \A place \in places : place # "body" /\ Position(kind, place) \notin getLoopTestRange(kind)

\* let and const are safe, and what is not resolved.
isSafe(kind, declaration, places) == declaration \in {"let", "unresolved"} \/ hasConstValue(kind, places)

\* Functions that are called at once and callbacks of known methods are not looked at.
FunctionInLoop ==
  /\ loop = None /\ condition = None /\ uses = <<>>
  /\ \E kind \in Loops, declaration \in {"var", "let", "unresolved"}, called, callback \in BOOLEAN :
     \E places \in SUBSET (PlacesOf(kind) \cap Places) :
       loop' = [kind |-> kind, declaration |-> declaration, called |-> called, callback |-> callback, places |-> places,
                reported |-> ~called /\ ~callback /\ ~isSafe(kind, declaration, places)]
  /\ UNCHANGED <<condition, alreadyRaisedSymbols, uses>>

(***************************************************************************)
(* Short circuits.  An expression is "x == null", "x != null", "x.p",       *)
(* "other" or [operator, left, right].                                      *)
(***************************************************************************)
Leaf(text) == [operator |-> "", text |-> text]

getNullState(text) == CASE text = "x == null" -> "confirmed" [] text = "x != null" -> "discarded" [] OTHER -> "unknown"

RECURSIVE HasMember(_)

HasMember(e) == IF e.operator = "" THEN e.text = "x.p" ELSE HasMember(e.left) \/ HasMember(e.right)

\* The outermost logical expression around the member expression.
checkLogicalNullDereference(e) ==
  /\ e.operator # "" /\ e.left.operator = ""
  /\ \/ getNullState(e.left.text) = "confirmed" /\ e.operator = "&&"
     \/ getNullState(e.left.text) = "discarded" /\ e.operator = "||"

LogicalMember ==
  /\ loop = None /\ condition = None /\ uses = <<>>
  /\ \E e \in Conditions : HasMember(e) /\ condition' = [kind |-> "condition", e |-> e, reported |-> checkLogicalNullDereference(e)]
  /\ UNCHANGED <<loop, alreadyRaisedSymbols, uses>>

(***************************************************************************)
(* Dereferences.  Functions are nested; depth counts the ones around a      *)
(* node.  writes: the depths of the writes to the symbol.                   *)
(***************************************************************************)
isNewSymbol(symbol) == symbol \notin alreadyRaisedSymbols

\* The function around the write against the outermost function around the dereference.
isWrittenInInnerFunction(writes, depth) == \E w \in writes : w > 0 /\ w # IF depth > 0 THEN 1 ELSE 0

checkNullDereference(symbol, writes, depth, null) == isNewSymbol(symbol) /\ ~isWrittenInInnerFunction(writes, depth) /\ null

Dereference ==
  /\ loop = None /\ condition = None /\ Len(uses) < MaxUses
  /\ \E symbol \in {"x", "y"}, depth \in Depths, null \in BOOLEAN : \E writes \in SUBSET Depths :
       LET reported == checkNullDereference(symbol, writes, depth, null) IN
       /\ \A k \in DOMAIN uses : uses[k].symbol = symbol => uses[k].writes = writes
       /\ uses' = Append(uses, [symbol |-> symbol, depth |-> depth, null |-> null, writes |-> writes, reported |-> reported])
       /\ alreadyRaisedSymbols' = IF reported THEN alreadyRaisedSymbols \cup {symbol} ELSE alreadyRaisedSymbols
  /\ UNCHANGED <<loop, condition>>

\* Program:exit
Exit ==
  /\ uses # <<>> /\ Len(uses) = MaxUses
  /\ alreadyRaisedSymbols' = {}
  /\ UNCHANGED <<loop, condition, uses>>

Done == (loop # None \/ condition # None) /\ UNCHANGED vars

Init == loop = None /\ condition = None /\ alreadyRaisedSymbols = {} /\ uses = <<>>

Next == FunctionInLoop \/ LogicalMember \/ Dereference \/ Exit \/ Done

Spec == Init /\ [][Next]_vars

(***************************************************************************)
(* Properties.                                                              *)
(***************************************************************************)
\* The parts of a loop that run again and again.
Repeated == {"test", "update", "left", "body", "nested", "statement"}

\* A function in a loop that outlives an iteration is reported exactly when a variable it shares
\* with the other iterations changes between them.
SharedVariablesChange ==
  loop # None =>
    (loop.reported <=> ~loop.called /\ ~loop.callback /\ loop.declaration = "var" /\ loop.places \cap Repeated # {})

RECURSIVE Value(_, _, _)

\* The value of an expression for x null or not and a value of the other operands.
Value(e, null, other) ==
  CASE e.operator = "" -> (CASE e.text = "x == null" -> null [] e.text = "x != null" -> ~null [] OTHER -> other)
    [] e.operator = "&&" -> Value(e.left, null, other) /\ Value(e.right, null, other)
    [] OTHER -> Value(e.left, null, other) \/ Value(e.right, null, other)

RECURSIVE Reads(_, _, _)

\* Whether x.p is evaluated.
Reads(e, null, other) ==
  IF e.operator = "" THEN e.text = "x.p"
  ELSE Reads(e.left, null, other) \/ (Value(e.left, null, other) = (e.operator = "&&") /\ Reads(e.right, null, other))

AlwaysNull(e) == \A other \in BOOLEAN : ~Reads(e, FALSE, other)

\* When the short circuit reports x.p, x is null whenever x.p is evaluated.
ReportedMembersAreNull == condition # None /\ condition.reported => AlwaysNull(condition.e)

\* And x.p is reported if it is evaluated only when x is null.
NullMembersAreReported == condition # None /\ AlwaysNull(condition.e) /\ (\E other \in BOOLEAN : Reads(condition.e, TRUE, other)) => condition.reported

\* A symbol is reported once in a file.
OneIssueForSymbol == \A j, k \in DOMAIN uses : uses[j].reported /\ uses[k].reported /\ uses[j].symbol = uses[k].symbol => j = k

\* What is null is reported unless another function writes to it, or the symbol was reported.
NullSymbolsAreReported ==
  \A k \in DOMAIN uses : uses[k].null /\ uses[k].writes \subseteq {0, uses[k].depth} => \E j \in 1..k : uses[j].symbol = uses[k].symbol /\ uses[j].reported

-----------------------------------------------------------------------------
\* Expressions for the runs of LoopsAndNulls.

Leaves == {Leaf(t) : t \in {"x == null", "x != null", "x.p", "other"}}

Logical(left, right) == {[operator |-> op, left |-> l, right |-> r] : op \in {"&&", "||"}, l \in left, r \in right}

\* Two operators, the inner one on the right.
RightNested == Logical(Leaves, Leaves) \cup Logical(Leaves, Logical(Leaves, Leaves))

\* Two operators, the inner one on either side.
BothNested == RightNested \cup Logical(Logical(Leaves, Leaves), Leaves)

=============================================================================
