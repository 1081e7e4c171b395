--------------------------- MODULE NameResolution ---------------------------
(***************************************************************************)
(* How rules find out what a name stands for: getFullyQualifiedName of      *)
(* helpers/module.ts (the imported value behind a name) and                 *)
(* getUniqueWriteUsageOrNode of helpers/ast.ts (the expression a variable   *)
(* was written with).  A program has an outer and an inner scope; each      *)
(* declares some of the names.  Both functions follow variable after        *)
(* variable: one step of the model is one call of the recursion.            *)
(***************************************************************************)
EXTENDS Integers, Sequences, FiniteSets

CONSTANTS
  Names,       \* names of variables
  Kinds,       \* kinds of definitions in this instance
  Shadowing,   \* may the inner scope declare a name that the outer one declares or uses
  Cycles,      \* may definitions go round in circles
  StackSize    \* nested calls until the stack overflows: more than there are variables

NamesAssumption == IsFiniteSet(Names) /\ Shadowing \in BOOLEAN /\ Cycles \in BOOLEAN

StackAssumption == StackSize \in Nat /\ StackSize > 2 * Cardinality(Names) + 1

Scopes == {"outer", "inner"}

Variables == Scopes \X Names

NoName == "no name"

Def(kind, target) == [kind |-> kind, target |-> target]

(***************************************************************************)
(* absent: the scope does not declare the name.  import: import * as v from *)
(* 'lib'; member: import { m as v } from 'lib'; require: v =                *)
(* require('lib').m; alias: v = target; property: v = target.p; destructured:*)
(* { p: v } = target; value: v = 42; rewritten: several writes; parameter.  *)
(***************************************************************************)
Defs ==
  {Def(k, NoName) : k \in Kinds \ {"alias", "property", "destructured"}}
  \cup {Def(k, n) : k \in Kinds \cap {"alias", "property", "destructured"}, n \in Names}

Null == "null"

Running == "running"

VARIABLES
  defs,      \* the definition of each name in each scope
  task,      \* "name" or "value"
  scope,     \* the scope in which the next name is looked up
  name,      \* the identifier that is resolved next
  start,     \* the scope and the name of the node the rule looks at
  calls,     \* nested calls so far
  fqn,       \* qualifiers collected so far
  visited,   \* visitedVars
  result     \* a sequence of qualifiers, a variable or definition, Null or Running

vars == <<defs, task, scope, name, start, calls, fqn, visited, result>>

\* getVariableFromScope: the innermost declaration, outwards from a scope.
Lookup(d, s, n) ==
  IF s = "inner" /\ d[<<"inner", n>>].kind # "absent" THEN <<"inner", n>>
  ELSE IF d[<<"outer", n>>].kind # "absent" THEN <<"outer", n>>
  ELSE <<"none", n>>

IsLink(d, v) == v \in Variables /\ d[v].kind \in {"alias", "property", "destructured"}

\* The variable behind a link, looked up where the link stands.
Behind(d, v) == IF IsLink(d, v) THEN Lookup(d, v[1], d[v].target) ELSE v

Walk(d, v) ==
  LET walk[k \in 0..(2 * Cardinality(Names))] == IF k = 0 THEN v ELSE Behind(d, walk[k - 1])
  IN walk

End(d, v) == Walk(d, v)[2 * Cardinality(Names)]

IsCyclic(d) == \E v \in Variables : IsLink(d, End(d, v))

Init ==
  /\ defs \in [Variables -> Defs]
  /\ ~Shadowing => \A n \in Names : defs[<<"inner", n>>].kind # "absent" =>
                     defs[<<"outer", n>>].kind = "absent" /\ \A m \in Names : defs[<<"outer", m>>].target # n
  /\ ~Cycles => ~IsCyclic(defs)
  /\ task \in {"name", "value"}
  /\ name \in Names /\ scope \in Scopes /\ start = <<scope, name>>
  /\ calls = 1 /\ fqn = <<>> /\ visited = {} /\ result = <<Running>>

Finish(r) == result' = r /\ UNCHANGED <<defs, task, scope, name, start, calls, fqn, visited>>

(***************************************************************************)
(* getFullyQualifiedNameRaw.                                                *)
(***************************************************************************)
Resolving == task = "name" /\ result = <<Running>> /\ calls < StackSize

Current == Lookup(defs, scope, name)

\* A variable that was seen before counts like a built-in one: its name is the first qualifier.
VisitedVariable ==
  /\ Resolving /\ Current \in visited
  /\ Finish(<<name>> \o fqn)

NoDefinition ==
  /\ Resolving /\ Current \notin visited
  /\ Current \notin Variables \/ (Current \in Variables /\ defs[Current].kind \in {"parameter", "rewritten", "value"})
  /\ Finish(<<Null>>)

checkFqnFromImport ==
  /\ Resolving /\ Current \in Variables \ visited
  /\ \/ defs[Current].kind = "import" /\ Finish(<<"lib">> \o fqn)
     \/ defs[Current].kind = "member" /\ Finish(<<"lib", "m">> \o fqn)

\* Mutant: the rest of the path is looked up where the rule started.
followFromStart ==
  /\ Resolving /\ Current \in Variables \ visited /\ IsLink(defs, Current)
  /\ fqn' = (IF defs[Current].kind = "alias" THEN fqn ELSE <<"p">> \o fqn)
  /\ visited' = visited \cup {Current}
  /\ scope' = start[1] /\ name' = defs[Current].target
  /\ calls' = calls + 1
  /\ UNCHANGED <<defs, task, start, result>>

\* A name that was written with another one: continue with that one, in the scope of the variable.
followDefinition ==
  /\ Resolving /\ Current \in Variables \ visited /\ IsLink(defs, Current)
  /\ fqn' = (IF defs[Current].kind = "alias" THEN fqn ELSE <<"p">> \o fqn)
  /\ visited' = visited \cup {Current}
  /\ scope' = Current[1] /\ name' = defs[Current].target
  /\ calls' = calls + 1
  /\ UNCHANGED <<defs, task, start, result>>

checkFqnFromRequire ==
  /\ Resolving /\ Current \in Variables \ visited
  /\ defs[Current].kind = "require"
  /\ Finish(<<"lib", "m">> \o fqn)

(***************************************************************************)
(* getUniqueWriteUsageOrNode(context, node, true): the name is looked up in *)
(* context.getScope(), the scope of the node that the rule looks at.        *)
(***************************************************************************)
Valuing == task = "value" /\ result = <<Running>> /\ calls < StackSize

WriteOf(v) == v \in Variables /\ defs[v].kind \in {"alias", "destructured", "property", "value", "require"}

\* No unique write: the identifier itself is the answer.
getUniqueWriteUsageNode ==
  /\ Valuing /\ ~WriteOf(Lookup(defs, start[1], name))
  /\ Finish(<<"identifier", name>>)

\* The write is an expression other than a name.
getUniqueWriteUsageExpression ==
  /\ Valuing
  /\ LET v == Lookup(defs, start[1], name)
     IN WriteOf(v) /\ defs[v].kind \in {"value", "require", "property"} /\ Finish(<<"expression", v>>)

\* The write is a name again; of a destructuring it is the whole object.
getUniqueWriteUsageOrNode ==
  /\ Valuing
  /\ LET v == Lookup(defs, start[1], name)
     IN WriteOf(v) /\ defs[v].kind \in {"alias", "destructured"} /\ name' = defs[v].target
  /\ calls' = calls + 1
  /\ UNCHANGED <<defs, task, scope, start, fqn, visited, result>>

\* The JavaScript engine throws when the recursion is too deep.
StackOverflow == result = <<Running>> /\ calls = StackSize /\ Finish(<<"RangeError">>)

getFullyQualifiedNameRaw ==
  VisitedVariable \/ NoDefinition \/ checkFqnFromImport \/ followDefinition \/ checkFqnFromRequire

getUniqueWriteUsage == getUniqueWriteUsageNode \/ getUniqueWriteUsageExpression \/ getUniqueWriteUsageOrNode

Done == result # <<Running>>

Next == getFullyQualifiedNameRaw \/ getUniqueWriteUsage \/ StackOverflow \/ (Done /\ UNCHANGED vars)

Spec == Init /\ [][Next]_vars

(***************************************************************************)
(* Properties.                                                             *)
(***************************************************************************)
\* The path of the start name by the rules of the language.
Path(v) ==
  LET walk == Walk(defs, v)
      step[k \in 0..(2 * Cardinality(Names))] ==
        IF k = 0 THEN <<>>
        ELSE (IF IsLink(defs, walk[k - 1]) /\ defs[walk[k - 1]].kind # "alias" THEN <<"p">> ELSE <<>>) \o step[k - 1]
      last == End(defs, v)
  IN IF last \notin Variables \/ IsLink(defs, last) THEN <<Null>>
     ELSE CASE defs[last].kind = "import" -> <<"lib">> \o step[2 * Cardinality(Names)]
            [] defs[last].kind \in {"member", "require"} -> <<"lib", "m">> \o step[2 * Cardinality(Names)]
            [] OTHER -> <<Null>>

\* A fully qualified name is the path of the value the name has by the scoping of the
\* language, whatever variables lie in between and whatever names they shadow
\* (getFullyQualifiedNameRaw, checkFqnFromRequire).
NamesFollowTheScopes ==
  task = "name" /\ Done /\ ~IsLink(defs, End(defs, Lookup(defs, start[1], start[2]))) =>
    result = Path(Lookup(defs, start[1], start[2]))

\* A fully qualified name denotes a value that is accessed through an import or a require.
NamesComeFromImports == task = "name" /\ Done => result[1] \in {"lib", Null}

\* The value of a name is the last of the definitions it leads to, unless it is destructured.
ValuesFollowTheScopes ==
  task = "value" /\ Done /\ result[1] = "expression" /\ (\A v \in Variables : defs[v].kind \notin {"destructured", "property"}) =>
    result[2] = End(defs, Lookup(defs, start[1], start[2]))

\* Every name gets its answer within the depth of the variables, definitions that go round
\* in circles included (visitedVars).
NamesAreResolved == task = "name" => result # <<"RangeError">> /\ calls <= 2 * Cardinality(Names) + 1

\* Every value gets its answer: the rule returns, and with it the linter.
ValuesAreResolved == task = "value" => result # <<"RangeError">>

=============================================================================
