--------------------------- MODULE NamesAndImports ---------------------------
(***************************************************************************)
(* Unused parameters, imports and local variables, and the quick fixes that *)
(* remove parameters and imports: no-unused-function-argument,              *)
(* unused-import and sonar-no-unused-vars.  A text is a sequence of tokens; *)
(* a fix removes the tokens of a range, or puts others in their place.      *)
(*                                                                         *)
(* Imports of the same module in several declarations: the quick fix that   *)
(* the decorator of no-duplicate-imports adds to the reports of the         *)
(* original rule merges the reported import into the first of the file, and *)
(* the file is analyzed and fixed again.                                    *)
(***************************************************************************)
EXTENDS Integers, Sequences, FiniteSets, SequencesExt

CONSTANTS
  Subjects,    \* "parameters", "imports", "variables", "duplicates"
  Shapes,      \* functions: "(p)" with parentheses, "p" an arrow without, "f(p)" the same as an argument
  Commas,      \* whether commas follow the parameters somewhere in the file
  Trailings,   \* whether lists end with a comma
  MaxNames,    \* bound on the parameters and on the named imports
  Scopes,      \* kinds of scopes
  Kinds,       \* duplicates: the kinds of imports, "value" or "type"
  Specifying,  \* duplicates: the specifiers of an import, sets of "default", "namespace" and "named"
  MaxImports   \* duplicates: bound on the imports of a file

VARIABLES
  subject,
  case,      \* what is looked at, and the outcome
  imports,   \* the import declarations of the file, in order
  written,   \* the names they bind, with their kinds, before the first fix
  fixing,    \* whether the file is written and fixes are applied
  parses     \* whether the last fix left a file that parses

file == <<imports, written, fixing, parses>>

vars == <<subject, case, file>>

None == [kind |-> "none"]

(***************************************************************************)
(* Tokens.                                                                  *)
(***************************************************************************)
RECURSIVE Listed(_, _)

\* Names with commas between them.
Listed(names, trailing) ==
  IF names = <<>> THEN <<>>
  ELSE IF Len(names) = 1 THEN names \o (IF trailing THEN <<",">> ELSE <<>>)
  ELSE <<names[1], ",">> \o Listed(Tail(names), trailing)

Index(text, token) == CHOOSE k \in DOMAIN text : text[k] = token

\* The first token with a value behind the k-th one, in the whole file; 0 for none.
getTokenAfter(text, k, value) ==
  LET after == {i \in DOMAIN text : i > k /\ text[i] = value} IN IF after = {} THEN 0 ELSE CHOOSE i \in after : \A j \in after : i <= j

getTokenBefore(text, k, value) ==
  LET before == {i \in DOMAIN text : i < k /\ text[i] = value} IN IF before = {} THEN 0 ELSE CHOOSE i \in before : \A j \in before : i >= j

\* The tokens from the first up to the one before end.
replaceTextRange(text, start, end, new) == SubSeq(text, 1, start - 1) \o new \o SubSeq(text, end, Len(text))

(***************************************************************************)
(* no-unused-function-argument.                                             *)
(***************************************************************************)
Parameters == <<"a", "b", "c">>

FunctionText(f, names) ==
  (IF f.shape = "f(p)" THEN <<"f", "(">> ELSE <<>>)
  \o (IF f.shape # "(p)" /\ names # <<>> THEN names ELSE <<"(">> \o Listed(names, f.trailing) \o <<")">>)
  \o <<"{">> \o (IF f.comma THEN <<"x", ",", "y">> ELSE <<>>) \o <<"}">>
  \o (IF f.shape = "f(p)" THEN <<")">> ELSE <<>>)

getParameterRemovalSuggestion(f, k) ==
  LET text == FunctionText(f, f.names)
      param == Index(text, f.names[k])
      opening == param > 1 /\ text[param - 1] = "("
      commaAfter == getTokenAfter(text, param, ",")
      commaBefore == getTokenBefore(text, param, ",")
  IN CASE Len(f.names) = 1 /\ opening -> replaceTextRange(text, param - 1, getTokenAfter(text, param, ")") + 1, <<"(", ")">>)
       [] Len(f.names) = 1 /\ ~opening -> replaceTextRange(text, param, param + 1, <<"(", ")">>)
       [] Len(f.names) > 1 /\ k = Len(f.names) ->
            IF commaAfter > 0 THEN replaceTextRange(text, commaBefore + 1, commaAfter + 1, <<>>)
            ELSE replaceTextRange(text, commaBefore, param + 1, <<>>)
       [] OTHER -> replaceTextRange(text, param, Index(text, f.names[k + 1]), <<>>)

\* The references to a parameter: its default value ("init") and uses.
isUnusedVariable(references) == references = <<>> \/ references = <<"init">>

\* Parameters in patterns or with a default value can only be renamed.
reportUnusedArgument(f, p) ==
  /\ ~f.setter /\ ~f.arguments
  /\ isUnusedVariable(p.references) /\ ~p.ignored

CheckParameters ==
  /\ subject = "parameters" /\ case = None
  /\ \E n \in 1..MaxNames, shape \in Shapes, comma \in Commas, trailing \in Trailings, setter, arguments, ignored \in BOOLEAN,
        references \in {<<>>, <<"init">>, <<"use">>, <<"init", "use">>} :
     \E k \in 1..n :
       LET f == [shape |-> shape, comma |-> comma, trailing |-> trailing, names |-> SubSeq(Parameters, 1, n), setter |-> setter, arguments |-> arguments]
           p == [references |-> references, ignored |-> ignored]
           reported == reportUnusedArgument(f, p)
       IN /\ shape # "(p)" => n = 1 /\ ~trailing /\ ~setter
          /\ setter => n = 1
          /\ case' = [kind |-> "parameter", f |-> f, p |-> p, removed |-> k, reported |-> reported,
                      fixed |-> IF reported /\ references = <<>> THEN getParameterRemovalSuggestion(f, k) ELSE <<>>]
  /\ UNCHANGED <<subject, file>>

(***************************************************************************)
(* unused-import.  d: the default import, n: the namespace.                 *)
(***************************************************************************)
Braced(names, trailing) == IF names = <<>> THEN <<>> ELSE <<"{">> \o Listed(names, trailing) \o <<"}">>

ImportText(i) ==
  LET named == Braced(i.names, i.trailing) \o (IF i.namespace THEN <<"n">> ELSE <<>>)
  IN <<"import">> \o (IF i.default THEN <<"d">> ELSE <<>>) \o (IF i.default /\ named # <<>> THEN <<",">> ELSE <<>>) \o named \o <<"from">>

Specifiers(i) == (IF i.default THEN <<"d">> ELSE <<>>) \o i.names \o (IF i.namespace THEN <<"n">> ELSE <<>>)

Without(i, name) ==
  [i EXCEPT !.default = @ /\ name # "d", !.namespace = @ /\ name # "n", !.names = SelectSeq(@, LAMBDA x : x # name)]

\* The text after the fix, empty if the whole statement is removed.
getSuggestion(i, name) ==
  LET text == ImportText(i)
      id == Index(text, name)
  IN CASE Len(Specifiers(i)) = 1 -> <<>>
       [] Len(Specifiers(i)) > 1 /\ name = "d" -> replaceTextRange(text, id, id + 2, <<>>)
       [] Len(Specifiers(i)) > 1 /\ name = "n" -> replaceTextRange(text, id - 1, id + 1, <<>>)
       [] Len(Specifiers(i)) > 1 /\ Len(i.names) = 1 /\ name \in ToSet(i.names) -> replaceTextRange(text, Index(text, Specifiers(i)[1]) + 1, id + 2, <<>>)
       [] Len(i.names) > 1 /\ name = i.names[1] -> replaceTextRange(text, id, Index(text, i.names[2]), <<>>)
       [] OTHER -> replaceTextRange(text, getTokenBefore(text, id, ","), id + 1, <<>>)

\* How a name is used: not at all, in code, as a type, in JSX, as the factory of JSX, in a template of Vue.
Uses == {"none", "reference", "type", "jsx", "factory", "template"}

\* React is left out; a name of a type, of an element or of a template counts wherever it stands.
isUnusedImport(use, excluded) == ~excluded /\ use = "none"

CheckImport ==
  /\ subject = "imports" /\ case = None
  /\ \E n \in 0..MaxNames, default, namespace, excluded \in BOOLEAN, trailing \in Trailings, use \in Uses :
       LET i == [default |-> default, namespace |-> namespace, trailing |-> trailing, names |-> SubSeq(Parameters, 1, n)] IN
       /\ namespace => n = 0
       /\ \E name \in ToSet(Specifiers(i)) :
            case' = [kind |-> "import", i |-> i, name |-> name, use |-> use, reported |-> isUnusedImport(use, excluded),
                     fixed |-> IF isUnusedImport(use, excluded) THEN getSuggestion(i, name) ELSE <<>>]
  /\ UNCHANGED <<subject, file>>

(***************************************************************************)
(* sonar-no-unused-vars.  A scope is given by the kinds of the scopes from  *)
(* the outermost one to itself.                                             *)
(***************************************************************************)
RECURSIVE checkedScope(_)

scopeMode(path, mode) ==
  IF Last(path) = "function" THEN "all"
  ELSE IF mode = "nothing" /\ Last(path) = "block" THEN "let-const-function"
  ELSE mode

\* What is checked in a scope: checkScope, from the outermost scope down.
checkedScope(path) == IF path = <<>> THEN "nothing" ELSE scopeMode(path, checkedScope(Front(path)))

\* kind: var, let (and const), function; a sibling of a rest element and the names of JSX elements are used.
checkVariable(v, mode) ==
  /\ mode # "nothing"
  /\ mode = "let-const-function" => v.kind # "var"
  /\ ~v.used /\ ~v.sibling /\ ~v.element

CheckVariable ==
  /\ subject = "variables" /\ case = None
  /\ \E n \in 0..3 : \E path \in [1..n -> Scopes], kind \in {"var", "let", "function"}, used, sibling, element \in BOOLEAN :
       LET v == [kind |-> kind, used |-> used, sibling |-> sibling, element |-> element] IN
       /\ kind = "var" => IF n = 0 THEN TRUE ELSE path[n] \in {"module", "function"}
       /\ \A k \in DOMAIN path : path[k] = "module" => k = 1
       /\ case' = [kind |-> "variable", path |-> path, v |-> v, reported |-> checkVariable(v, checkedScope(path))]
  /\ UNCHANGED <<subject, file>>

(***************************************************************************)
(* no-duplicate-imports.                                                    *)
(***************************************************************************)
\* A name of the import at a place of the file.
Name(shape, part, place) == IF part \in shape THEN {<<part, place>>} ELSE {}

Import(kind, shape, place) ==
  [kind |-> kind, default |-> Name(shape, "default", place), namespace |-> Name(shape, "namespace", place),
   named |-> Name(shape, "named", place), from |-> shape # {}]

Bound(decl) == {<<decl.kind, name>> : name \in decl.default \cup decl.namespace \cup decl.named}

BoundBy(decls) == UNION {Bound(decls[i]) : i \in DOMAIN decls}

(***************************************************************************)
(* The original rule: types with types, values with what they merge with.    *)
(***************************************************************************)
CanBeMerged(a, b) ==
  /\ ~(a.namespace # {} /\ b.named # {} /\ b.namespace = {})
  /\ ~(b.namespace # {} /\ a.named # {} /\ a.namespace = {})

ReportedImport(i) ==
  \E j \in 1..(i - 1) :
    /\ imports[j].kind = imports[i].kind
    /\ imports[i].kind = "type" \/ CanBeMerged(imports[j], imports[i])

(***************************************************************************)
(* The decorator.                                                          *)
(***************************************************************************)
\* The last default and the last namespace are kept.
LastOf(first, second) == IF second # {} THEN second ELSE first

\* Mutant: the default of the first import is the only one.
mergeIntoDefault(toDecl, fromDecl) ==
  [toDecl EXCEPT !.namespace = LastOf(@, fromDecl.namespace), !.named = @ \cup fromDecl.named]

\* The text goes between import or type and from; a first import without from stays without.
mergeSpecifiers(toDecl, fromDecl) ==
  [toDecl EXCEPT !.default = LastOf(@, fromDecl.default), !.namespace = LastOf(@, fromDecl.namespace),
                 !.named = @ \cup fromDecl.named]

removeNodeWithLeadingWhitespaces(decls, i) == RemoveAt(decls, i)

getFirstMatchingImportDeclaration == 1

\* What the grammar allows; a type import has a default or others, and a name is bound once.
Parses(decls) ==
  /\ \A i \in DOMAIN decls :
       LET d == decls[i] IN
       /\ d.namespace = {} \/ d.named = {}
       /\ d.kind = "type" => (d.default = {} \/ d.namespace \cup d.named = {})
       /\ d.from \/ d.default \cup d.namespace \cup d.named = {}
  /\ \A i, j \in DOMAIN decls : i # j => {b[2] : b \in Bound(decls[i])} \cap {b[2] : b \in Bound(decls[j])} = {}

Write(kind, shape) ==
  /\ subject = "duplicates" /\ ~fixing /\ Len(imports) < MaxImports
  /\ imports' = Append(imports, Import(kind, shape, Len(imports) + 1))
  /\ Parses(imports')
  /\ written' = BoundBy(imports')
  /\ UNCHANGED <<subject, case, fixing, parses>>

getMergeSuggestion(i) ==
  LET first == getFirstMatchingImportDeclaration
  IN /\ parses /\ ReportedImport(i)
     /\ imports' = removeNodeWithLeadingWhitespaces([imports EXCEPT ![first] = mergeSpecifiers(@, imports[i])], i)
     /\ fixing' = TRUE
     /\ parses' = Parses(imports')
     /\ UNCHANGED <<subject, case, written>>

Done ==
  /\ \/ case # None
     \/ subject = "duplicates" /\ (~parses \/ \A i \in DOMAIN imports : ~ReportedImport(i))
  /\ UNCHANGED vars

Init ==
  /\ subject \in Subjects /\ case = None
  /\ imports = <<>> /\ written = {} /\ fixing = FALSE /\ parses = TRUE

Next ==
  \/ CheckParameters \/ CheckImport \/ CheckVariable
  \/ \E kind \in Kinds, shape \in Specifying : Write(kind, shape)
  \/ \E i \in 1..MaxImports : i \in DOMAIN imports /\ getMergeSuggestion(i)
  \/ Done

Spec == Init /\ [][Next]_vars

(***************************************************************************)
(* Properties.                                                              *)
(***************************************************************************)
\* After the quick fix that removes an unused parameter the function has the other parameters, and
\* the code around it is the same.
RemovesOneParameter ==
  case.kind = "parameter" /\ case.fixed # <<>> =>
    case.fixed = FunctionText(case.f, SelectSeq(case.f.names, LAMBDA x : x # case.f.names[case.removed]))

\* After the quick fix of an unused import the statement imports the other names.
RemovesOneImport ==
  case.kind = "import" /\ case.reported =>
    case.fixed = IF Len(Specifiers(case.i)) = 1 THEN <<>> ELSE ImportText(Without(case.i, case.name))

\* Unused variables are reported in functions and, unless they are vars of the whole file, in
\* the statements of a file; no other variables are.
LocalVariables ==
  case.kind = "variable" =>
    (case.reported <=>
       /\ ~case.v.used /\ ~case.v.sibling /\ ~case.v.element
       /\ \/ \E k \in DOMAIN case.path : case.path[k] = "function"
          \/ case.v.kind # "var" /\ \E k \in DOMAIN case.path : case.path[k] \notin {"module", "function"})

Single(part) == Cardinality({b \in written : b[2][1] = part}) <= 1

\* However the reports are fixed, one after the other, a named import is
\* never lost, and the default and the namespace neither when there is one:
\* mergeSpecifiers takes what both declarations have, and only the reported
\* one is removed.
SpecifiersAreKept ==
  \A b \in written :
    (b[2][1] = "named" \/ Single(b[2][1])) => b[2] \in {c[2] : c \in BoundBy(imports)}

\* A quick fix leaves a file that parses, so that the next report, on a file
\* with more imports of the module, can be fixed as well.
FixedFilesParse == parses

\* "Merge this import into the first import": what the file binds is the
\* same before and after, as a value or as a type.
BindingsAreKept == BoundBy(imports) = written

=============================================================================
