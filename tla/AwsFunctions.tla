----------------------------- MODULE AwsFunctions -----------------------------
(***************************************************************************)
(* Which pairs of a YAML file are AWS functions with inline JavaScript.     *)
(* The predicates look at fixed distances up the ancestors of the visited   *)
(* pair.  Init picks a document; Visit visits its pairs one by one.         *)
(*                                                                         *)
(* A document is the path of pairs to the candidate, with the pairs beside  *)
(* it in each map: levels[1] is the map at the root.                       *)
(***************************************************************************)
EXTENDS Naturals, Sequences, FiniteSets

CONSTANTS
  Keys,       \* keys of the pairs on the path
  Siblings,   \* sets of <<key, value>> beside the path in a map
  MaxDepth    \* pairs on the path

MaxDepthAssumption == MaxDepth \in Nat \ {0}

VARIABLES
  levels,     \* from the root: [key, siblings] of the pair on the path in each map
  format,     \* format of the value of the last pair
  depth,      \* pairs visited
  snippets,   \* <<kind, depth of the resource's pair>> found
  failed      \* a predicate or a picker threw

vars == <<levels, format, depth, snippets, failed>>

(***************************************************************************)
(* The ancestors of the pair at depth d are the document and, for every     *)
(* pair above, its map and itself, then the map of the pair:                *)
(* 2 * d of them.  ancestors[length - level] is a map for odd levels and a  *)
(* pair for even ones; the last but the first is the document.             *)
(***************************************************************************)
IsMapAt(d, level) == level % 2 = 1 /\ level <= 2 * d - 1

\* Depth of the pair in which, or at which, the level lies.
DepthAt(d, level) == d - (level \div 2)

\* A map's items: the pairs beside the path, and the pair on it.
Items(k) == levels[k].siblings

HasNodeJsRuntime(d, level) ==
  IsMapAt(d, level) /\ <<"Runtime", "nodejs">> \in Items(DepthAt(d, level))

\* item?.value?.value.startsWith: a value that is a map has no value to call it on.
RuntimeThrows(d, level) ==
  IsMapAt(d, level) /\ <<"Runtime", "map">> \in Items(DepthAt(d, level))

HasType(d, value, level) ==
  IsMapAt(d, level) /\ <<"Type", value>> \in Items(DepthAt(d, level))

HasCode(d) == d > 1 /\ levels[DepthAt(d, 2)].key = "Code"

IsInlineAwsLambda(d) ==
  /\ levels[d].key = "ZipFile"
  /\ HasCode(d)
  /\ HasNodeJsRuntime(d, 3)
  /\ HasType(d, "Lambda", 5)

IsInlineAwsServerless(d) ==
  /\ levels[d].key = "InlineCode"
  /\ HasNodeJsRuntime(d, 1)
  /\ HasType(d, "Serverless", 3)

PredicateThrows(d) ==
  \/ levels[d].key = "ZipFile" /\ HasCode(d) /\ RuntimeThrows(d, 3)
  \/ levels[d].key = "InlineCode" /\ RuntimeThrows(d, 1)

\* The picker takes the key of the ancestor at its level: the document has none.
PickerLevel(kind) == IF kind = "Lambda" THEN 6 ELSE 4

PickResourceName(d, kind) == DepthAt(d, PickerLevel(kind))

Predicate(kind, d) == IF kind = "Lambda" THEN IsInlineAwsLambda(d) ELSE IsInlineAwsServerless(d)

\* Only the last pair of the path has a scalar as value.
IsSupportedFormat(d) == d = Len(levels) /\ format \in {"PLAIN", "BLOCK_FOLDED", "BLOCK_LITERAL"}

Visit ==
  /\ ~failed /\ depth < Len(levels)
  /\ depth' = depth + 1
  /\ LET d == depth + 1
         found == {kind \in {"Lambda", "Serverless"} : Predicate(kind, d) /\ IsSupportedFormat(d)}
     IN /\ failed' = (PredicateThrows(d) \/ \E kind \in found : PickResourceName(d, kind) < 1)
        /\ snippets' = IF failed' THEN snippets
                       ELSE snippets \cup {<<kind, PickResourceName(d, kind)>> : kind \in found}
  /\ UNCHANGED <<levels, format>>

Init ==
  /\ levels \in UNION {[1..n -> [key : Keys, siblings : Siblings]] : n \in 1..MaxDepth}
  /\ format \in {"PLAIN", "BLOCK_LITERAL", "QUOTE_DOUBLE"}
  /\ depth = 0 /\ snippets = {} /\ failed = FALSE

Finished == (failed \/ depth = Len(levels)) /\ UNCHANGED vars

Next == Visit \/ Finished

Spec == Init /\ [][Next]_vars

-----------------------------------------------------------------------------

(***************************************************************************)
(* Reference: the resource at depth r is a function with inline code when   *)
(* its own map has the type, its Properties the runtime, and the code is    *)
(* under Code / ZipFile or under InlineCode (comments of parsingContexts).  *)
(***************************************************************************)
FunctionAt(r, kind) ==
  LET below(k) == levels[r + k] IN
  /\ r + (IF kind = "Lambda" THEN 3 ELSE 2) = Len(levels)
  /\ <<"Type", kind>> \in below(1).siblings
  /\ <<"Runtime", "nodejs">> \in below(2).siblings
  /\ IF kind = "Lambda" THEN below(2).key = "Code" /\ below(3).key = "ZipFile"
     ELSE below(2).key = "InlineCode"
  /\ format # "QUOTE_DOUBLE"

\* A visited document has the snippets of its functions, each with the name of
\* the resource it belongs to (the levels of parsingContexts.ts).
SnippetsAreFunctions ==
  (depth = Len(levels) /\ ~failed) =>
    snippets = {s \in {"Lambda", "Serverless"} \X DOMAIN levels : FunctionAt(s[2], s[1])}

\* Checking a pair gives an answer, whatever is beside it (the predicates and
\* the picker of parsingContexts.ts).
PredicatesAnswer == ~failed

-----------------------------------------------------------------------------
\* Maps of the instances of AwsFunctions.

SomeSiblings == {{}, {<<"Type", "Lambda">>}, {<<"Type", "Serverless">>}, {<<"Runtime", "nodejs">>}}

\* With Runtime: {Ref: ...}.
WithReferences == SomeSiblings \cup {{<<"Runtime", "map">>}}

=============================================================================
