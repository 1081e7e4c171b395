------------------------ MODULE ParameterReassignment ------------------------
(***************************************************************************)
(* The rule no-parameter-reassignment.  Functions, for-each loops and catch *)
(* clauses open a context with the names to check, the names already read   *)
(* and the link to the context around it; the identifiers of a body are     *)
(* looked at in the order of the text.                                      *)
(***************************************************************************)
EXTENDS Integers, Sequences, FiniteSets, SequencesExt

CONSTANTS
  Names,       \* names of parameters, loop variables and exceptions
  Bodies,      \* bodies of for-each loops: "block", "statement"
  ArgumentsIn, \* contexts with a use of arguments
  MaxDepth,    \* bound on the nested constructs
  MaxUses      \* bound on the identifiers

VARIABLES
  open,      \* the constructs around the identifier: [type, name, used]
  contexts,  \* variableUsageContext and its parents, the innermost last
  uses,      \* number of identifiers so far
  reports,   \* identifiers reported
  expected   \* identifiers that reassign a value before its first use

vars == <<open, contexts, uses, reports, expected>>

Context(type, own, toCheck, read) == [type |-> type, own |-> own, toCheck |-> toCheck, read |-> read]

Global == Context("global", {}, {}, {})

Current == Last(contexts)

(***************************************************************************)
(* Contexts.                                                                *)
(***************************************************************************)
\* Mutant: what was read of a name outside counts for the name inside.
contextKeepsRead(type, name) == Context(type, {name}, Current.toCheck \cup {name}, Current.read)

computeNewContextInfo(type, name) == Context(type, {name}, Current.toCheck \cup {name}, Current.read \ {name})

\* popContext keeps the outermost context.
popContext(cs) == IF Len(cs) > 1 THEN Front(cs) ELSE cs

Construct(type, name) == [type |-> type, name |-> name, used |-> FALSE]

Enter(type, name) == Len(open) < MaxDepth /\ open' = Append(open, Construct(type, name)) /\ UNCHANGED <<uses, reports, expected>>

onCodePathStart(name) ==
  Enter("function", name) /\ contexts' = Append(contexts, computeNewContextInfo("function", name))

\* Only a body in braces opens a context (isForEachLoopStart).
onCodePathSegmentLoop(name, body) ==
  /\ open # <<>>
  /\ Enter("foreach", name)
  /\ contexts' = IF body = "block" THEN Append(contexts, computeNewContextInfo("foreach", name)) ELSE contexts

onCodePathSegmentStart(name) ==
  open # <<>> /\ Enter("catch", name) /\ contexts' = Append(contexts, computeNewContextInfo("catch", name))

\* onCodePathEnd and the exits of loops and catch clauses.
Exit ==
  /\ open # <<>>
  /\ open' = Front(open)
  /\ contexts' = popContext(contexts)
  /\ UNCHANGED <<uses, reports, expected>>

(***************************************************************************)
(* Identifiers.                                                             *)
(***************************************************************************)
RECURSIVE Owner(_, _)

\* The construct that declares a name, 0 without one.
Owner(name, k) == IF k = 0 THEN 0 ELSE IF open[k].name = name THEN k ELSE Owner(name, k - 1)

RECURSIVE markAsRead(_, _, _)

markAsRead(cs, name, k) ==
  LET marked == [cs EXCEPT ![k].read = @ \cup {name}]
  IN IF name \notin cs[k].own /\ k > 1 THEN markAsRead(marked, name, k - 1) ELSE marked

RECURSIVE Argued(_, _)

\* All parameters of the innermost function.
Argued(cs, k) ==
  IF k = 0 THEN cs ELSE IF cs[k].type = "function" THEN [cs EXCEPT ![k].read = @ \cup cs[k].own] ELSE Argued(cs, k - 1)

\* References are found in the contexts that declare their variable.
getReference(name) == \E k \in DOMAIN contexts : name \in contexts[k].own

\* In an if statement a reassignment is neither reported nor a use.
checkIdentifierUsage(name, write, inIf) ==
  LET fresh == getReference(name) /\ name \notin Current.read
      issue == fresh /\ name \in Current.toCheck /\ write
  IN [issue |-> issue /\ ~inIf, contexts |-> IF fresh /\ ~(issue /\ inIf) THEN markAsRead(contexts, name, Len(contexts)) ELSE contexts]

\* The selectors match identifiers in the context of their type: in none outside of functions.
Identifier(name, write, inIf) ==
  LET k == Owner(name, Len(open))
      checked == checkIdentifierUsage(name, write, inIf)
  IN /\ k > 0 /\ uses < MaxUses
     /\ uses' = uses + 1
     /\ contexts' = IF Current.type = "global" THEN contexts ELSE checked.contexts
     /\ reports' = IF Current.type # "global" /\ checked.issue THEN reports \cup {uses'} ELSE reports
     /\ expected' = IF write /\ ~inIf /\ ~open[k].used THEN expected \cup {uses'} ELSE expected
     /\ open' = IF write /\ inIf THEN open ELSE [open EXCEPT ![k].used = TRUE]

\* The contexts inside the function keep the names they copied.
Arguments ==
  /\ uses < MaxUses /\ open # <<>> /\ Current.type \in ArgumentsIn
  /\ uses' = uses + 1
  /\ contexts' = Argued(contexts, Len(contexts))
  /\ open' = LET f == CHOOSE k \in DOMAIN open : open[k].type = "function" /\ \A l \in (k + 1)..Len(open) : open[l].type # "function"
             IN [open EXCEPT ![f].used = TRUE]
  /\ UNCHANGED <<reports, expected>>

Done == open = <<>> /\ UNCHANGED vars

Init == open = <<>> /\ contexts = <<Global, Global>> /\ uses = 0 /\ reports = {} /\ expected = {}

Next ==
  \/ \E name \in Names : onCodePathStart(name) \/ onCodePathSegmentStart(name) \/ \E body \in Bodies : onCodePathSegmentLoop(name, body)
  \/ Exit
  \/ \E name \in Names, write, inIf \in BOOLEAN : (inIf => write) /\ Identifier(name, write, inIf)
  \/ Arguments
  \/ Done

Spec == Init /\ [][Next]_vars

(***************************************************************************)
(* Properties.                                                              *)
(***************************************************************************)
\* Every construct has its context: the stack is pushed and popped by different events.
ContextsAreOpenConstructs ==
  [k \in 1..Len(open) |-> open[k].type] = [k \in 1..(Len(contexts) - 2) |-> contexts[k + 2].type]

\* A parameter, a loop variable or an exception that is reassigned before its value is used is
\* reported, and nothing else, whatever names are shadowed and wherever the uses stand.
ReassignedBeforeUse == reports = expected

=============================================================================
