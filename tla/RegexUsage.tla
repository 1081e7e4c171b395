----------------------------- MODULE RegexUsage -----------------------------
(***************************************************************************)
(* Rules that follow regular expressions through a file: named groups that  *)
(* are not used, used by number or do not exist (unused-named-groups),      *)
(* references of replacements (existing-groups), regular expressions whose  *)
(* state is shared by different inputs (stateful-regex).  The statements    *)
(* are visited in the order of the text; every variable of a regular        *)
(* expression is written once, somewhere in the file.                       *)
(***************************************************************************)
EXTENDS Integers, Sequences, FiniteSets, SequencesExt

CONSTANTS
  Regexes,        \* variables of regular expressions
  Matchers,       \* variables of matches
  Shapes,         \* what the regular expressions are
  References,     \* references of replacement strings
  Kinds,          \* kinds of statements of this instance
  MaxStatements,
  DeclaredFirst   \* whether variables are only used below their declaration

VARIABLES
  shape,          \* what each variable is written with
  statements,
  knowledge, bindings,              \* unused-named-groups
  regexes, invocations, resets,     \* stateful-regex
  reports, done

vars == <<shape, statements, knowledge, bindings, regexes, invocations, resets, reports, done>>

\* A regular expression: its capturing groups ("" without name), the names it refers
\* back to, whether one of them by number, whether it is written as a string, its flags.
Shape(groups, backreferences, byNumber, implicit, flags) ==
  [groups |-> groups, backreferences |-> backreferences, byNumber |-> byNumber, implicit |-> implicit, flags |-> flags]

Names(s) == Range(s.groups) \ {""}

Statements ==
  [kind : {"declare"} \cap Kinds, regex : Regexes]
  \cup [kind : {"match"} \cap Kinds, regex : Regexes, matcher : Matchers]
  \cup [kind : {"exec"} \cap Kinds, regex : Regexes, input : {"a", "b", "''"}]
  \cup [kind : {"reset"} \cap Kinds, regex : Regexes]
  \cup [kind : {"index"} \cap Kinds, matcher : Matchers, index : 1..2]
  \cup [kind : {"name"} \cap Kinds, matcher : Matchers, name : {"x", "y"}]
  \cup [kind : {"replace"} \cap Kinds, regex : Regexes, reference : References]

Here == Len(statements) + 1

Declared(list, v) == \E i \in DOMAIN list : list[i].kind = "declare" /\ list[i].regex = v

Issue(rule, node, detail) == [rule |-> rule, node |-> node, detail |-> detail]

(***************************************************************************)
(* What is known of the regular expressions.                                *)
(***************************************************************************)
makeRegexKnowledge(node, v) ==
  [node |-> node, regex |-> v, used |-> shape[v].backreferences, matched |-> FALSE]

\* The knowledge of the expression the variable is written with, or of the use itself.
findRegex(known, v) ==
  LET written == {k \in DOMAIN known : known[k].node = <<"literal", v>>}
      here == {k \in DOMAIN known : known[k].node = <<"use", Here>>}
  IN IF written # {} THEN CHOOSE k \in written : TRUE
     ELSE IF here # {} THEN CHOOSE k \in here : TRUE
     ELSE 0

\* Numbers are made of digits.
RECURSIVE NumberOf(_)
NumberOf(digits) == IF digits = <<>> THEN 0 ELSE 10 * NumberOf(Front(digits)) + Last(digits)

IndexesOf(reference) == IF reference.name = "" THEN {NumberOf(reference.digits)} ELSE {}

NamedAt(s, indexes) == {s.groups[i] : i \in indexes \cap DOMAIN s.groups} \ {""}

(***************************************************************************)
(* Visits.                                                                 *)
(***************************************************************************)
Init ==
  /\ shape \in [Regexes -> Shapes]
  /\ statements = <<>> /\ knowledge = <<>> /\ bindings = [m \in {} |-> 0]
  /\ regexes = {} /\ invocations = [v \in Regexes |-> <<>>] /\ resets = {}
  /\ reports = {} /\ done = FALSE

\* Exit from a literal: a regular expression is remembered by both rules.
collectKnowledge(s) ==
  /\ s.kind = "declare"
  /\ ~Declared(statements, s.regex)
  /\ knowledge' = IF shape[s.regex].implicit THEN knowledge
                  ELSE Append(knowledge, makeRegexKnowledge(<<"literal", s.regex>>, s.regex))
  /\ regexes' = IF shape[s.regex].implicit THEN regexes ELSE regexes \cup {s.regex}
  /\ UNCHANGED <<bindings, invocations, resets, reports>>

\* Mutant: the first match of a variable is kept.
matcherKeepsFirst(s) ==
  /\ s.kind = "match"
  /\ LET k == findRegex(knowledge, s.regex)
     IN IF k = 0 THEN knowledge' = knowledge /\ bindings' = bindings
        ELSE knowledge' = [knowledge EXCEPT ![k].matched = TRUE] /\ bindings' = [m \in DOMAIN bindings \cup {s.matcher} |-> IF m \in DOMAIN bindings THEN bindings[m] ELSE k]
  /\ UNCHANGED <<regexes, invocations, resets, reports>>

\* matcher = str.match(regex); a string is a regular expression of its own here.
collectPatternMatcher(s) ==
  /\ s.kind = "match"
  /\ LET known == IF shape[s.regex].implicit
                  THEN Append(knowledge, makeRegexKnowledge(<<"use", Here>>, s.regex))
                  ELSE knowledge
         k == findRegex(known, s.regex)
     IN IF k = 0 THEN knowledge' = known /\ bindings' = bindings
        ELSE knowledge' = [known EXCEPT ![k].matched = TRUE] /\ bindings' = [m \in DOMAIN bindings \cup {s.matcher} |-> IF m = s.matcher THEN k ELSE bindings[m]]
  /\ UNCHANGED <<regexes, invocations, resets, reports>>

\* matcher[index]
checkIndexBasedGroupReference(s) ==
  /\ s.kind = "index"
  /\ LET k == IF s.matcher \in DOMAIN bindings THEN bindings[s.matcher] ELSE 0
         found == IF k = 0 THEN {} ELSE NamedAt(shape[knowledge[k].regex], {s.index})
     IN /\ knowledge' = IF found = {} THEN knowledge ELSE [knowledge EXCEPT ![k].used = @ \cup found]
        /\ reports' = reports \cup {Issue("number", <<"use", Here>>, g) : g \in found}
  /\ UNCHANGED <<bindings, regexes, invocations, resets>>

\* matcher.groups.name
checkNonExistingGroupReference(s) ==
  /\ s.kind = "name"
  /\ LET k == IF s.matcher \in DOMAIN bindings THEN bindings[s.matcher] ELSE 0
         exists == IF k = 0 THEN FALSE ELSE s.name \in Names(shape[knowledge[k].regex])
     IN /\ knowledge' = IF exists THEN [knowledge EXCEPT ![k].used = @ \cup {s.name}] ELSE knowledge
        /\ reports' = IF k # 0 /\ ~exists THEN reports \cup {Issue("missing", <<"use", Here>>, s.name)} ELSE reports
  /\ UNCHANGED <<bindings, regexes, invocations, resets>>

isReferencingExistingGroup(reference, s) ==
  IF reference.name = "" THEN NumberOf(reference.digits) \in DOMAIN s.groups ELSE reference.name \in Names(s)

\* str.replace(regex, "..$1.." or "..$<name>..")
checkStringReplaceGroupReferences(s) ==
  /\ s.kind = "replace"
  /\ LET k == findRegex(knowledge, s.regex)
         numbered == IF k = 0 THEN {} ELSE NamedAt(shape[s.regex], IndexesOf(s.reference))
         used == numbered \cup ({s.reference.name} \cap Names(shape[s.regex]))
     IN /\ knowledge' = IF k = 0 THEN knowledge ELSE [knowledge EXCEPT ![k].used = @ \cup used]
        /\ reports' = reports \cup {Issue("number", <<"use", Here>>, g) : g \in numbered}
             \cup (IF isReferencingExistingGroup(s.reference, shape[s.regex]) THEN {} ELSE {Issue("existing", <<"use", Here>>, "")})
  /\ UNCHANGED <<bindings, regexes, invocations, resets>>

\* regex.exec(input) or regex.test(input)
extractRegexInvocation(s) ==
  /\ s.kind = "exec"
  /\ invocations' = IF s.regex \in regexes /\ "g" \in shape[s.regex].flags
                    THEN [invocations EXCEPT ![s.regex] = Append(@, s.input)] ELSE invocations
  /\ UNCHANGED <<knowledge, bindings, regexes, resets, reports>>

\* regex.lastIndex = ...
extractResetRegex(s) ==
  /\ s.kind = "reset"
  /\ resets' = IF s.regex \in regexes THEN resets \cup {s.regex} ELSE resets
  /\ UNCHANGED <<knowledge, bindings, regexes, invocations, reports>>

UsesRegex(s) == s.kind \in {"match", "exec", "reset", "replace"}

Visit ==
  /\ ~done /\ Len(statements) < MaxStatements
  /\ \E s \in Statements :
       /\ DeclaredFirst /\ UsesRegex(s) => Declared(statements, s.regex)
       /\ \/ collectKnowledge(s) \/ collectPatternMatcher(s) \/ checkIndexBasedGroupReference(s)
          \/ checkNonExistingGroupReference(s) \/ checkStringReplaceGroupReferences(s)
          \/ extractRegexInvocation(s) \/ extractResetRegex(s)
       /\ statements' = Append(statements, s)
  /\ UNCHANGED <<shape, done>>

checkUnusedGroups ==
  UNION {{Issue("unused", knowledge[k].node, g) : g \in Names(shape[knowledge[k].regex]) \ knowledge[k].used} :
           k \in {i \in DOMAIN knowledge : knowledge[i].matched}}

checkIndexedGroups ==
  UNION {{Issue("backreference", knowledge[k].node, g) : g \in shape[knowledge[k].regex].byNumber} : k \in DOMAIN knowledge}

checkGlobalStickyRegex == {Issue("sticky", <<"literal", v>>, "") : v \in {r \in regexes : {"g", "y"} \subseteq shape[r].flags}}

checkMultipleInputsRegex ==
  {Issue("inputs", <<"literal", v>>, "") :
     v \in {r \in Regexes \ resets : Cardinality(Range(invocations[r])) > 1 /\ "''" \notin Range(invocations[r])}}

\* The end of a file in which every variable that is used is written.
ProgramExit ==
  /\ ~done
  /\ \A i \in DOMAIN statements : UsesRegex(statements[i]) => Declared(statements, statements[i].regex)
  /\ reports' = reports \cup checkUnusedGroups \cup checkIndexedGroups \cup checkGlobalStickyRegex \cup checkMultipleInputsRegex
  /\ done' = TRUE
  /\ UNCHANGED <<shape, statements, knowledge, bindings, regexes, invocations, resets>>

Next == Visit \/ ProgramExit \/ (UNCHANGED vars /\ (done \/ Len(statements) = MaxStatements))

Spec == Init /\ [][Next]_vars

(***************************************************************************)
(* Properties.  What a matcher holds is the last match that was stored in   *)
(* it above the access.                                                     *)
(***************************************************************************)
MatchesBefore(i, m) == {j \in 1..(i - 1) : statements[j].kind = "match" /\ statements[j].matcher = m}

RegexOf(i) ==
  LET before == MatchesBefore(i, statements[i].matcher)
  IN statements[CHOOSE j \in before : \A k \in before : k <= j].regex

Holds(i) == MatchesBefore(i, statements[i].matcher) # {}

\* The group that the statement uses of the regular expression.
UsesGroup(i, v, g) ==
  LET s == statements[i]
  IN CASE s.kind = "name" -> Holds(i) /\ RegexOf(i) = v /\ s.name = g
       [] s.kind = "index" -> Holds(i) /\ RegexOf(i) = v /\ g \in NamedAt(shape[v], {s.index})
       [] s.kind = "replace" -> s.regex = v /\ (s.reference.name = g \/ g \in NamedAt(shape[v], IndexesOf(s.reference)))
       [] OTHER -> FALSE

\* A named group is reported as unused exactly when the regular expression is matched into a
\* variable and nothing in the file uses the group: no access to a match, no replacement and
\* no reference inside the regular expression (knowledge, bindings, checkUnusedGroups).
UnusedGroupsAreUnused ==
  done => \A v \in Regexes : \A g \in Names(shape[v]) :
    (\E r \in reports : r.rule = "unused" /\ r.node[1] = "literal" /\ r.node[2] = v /\ r.detail = g) <=>
      /\ \E i \in DOMAIN statements : statements[i].kind = "match" /\ statements[i].regex = v
      /\ g \notin shape[v].backreferences
      /\ \A i \in DOMAIN statements : ~UsesGroup(i, v, g)

\* A group that is used somewhere is never reported as unused, wherever the regular
\* expression and its uses stand in the file (findRegex, checkUnusedGroups).
UsedGroupsAreSpared ==
  done => \A r \in reports : r.rule = "unused" /\ r.node[1] = "literal" =>
            \A i \in DOMAIN statements : ~UsesGroup(i, r.node[2], r.detail)

\* An access to a match is judged by the regular expression that was matched last into the
\* variable: a name it does not have and a number that has a name are reported
\* (checkNonExistingGroupReference, checkIndexBasedGroupReference).
AccessesAreJudgedByTheLastMatch ==
  \A i \in DOMAIN statements :
    /\ statements[i].kind = "name" =>
         ((\E r \in reports : r.rule = "missing" /\ r.node = <<"use", i>>) <=> Holds(i) /\ statements[i].name \notin Names(shape[RegexOf(i)]))
    /\ statements[i].kind = "index" =>
         ((\E r \in reports : r.rule = "number" /\ r.node = <<"use", i>>) <=> Holds(i) /\ NamedAt(shape[RegexOf(i)], {statements[i].index}) # {})

\* What String.replace makes of $digits: two digits if there is such a group, else the first.
RefersToGroup(reference, s) ==
  IF reference.name # "" THEN reference.name \in Names(s)
  ELSE \E n \in {1, 2} \cap DOMAIN reference.digits : NumberOf(SubSeq(reference.digits, 1, n)) \in DOMAIN s.groups

\* A replacement that refers to no group of its regular expression is reported
\* (extractReferences, isReferencingExistingGroup).
MissingGroupsAreReported ==
  \A i \in DOMAIN statements :
    LET s == statements[i]
    IN s.kind = "replace" /\ ~RefersToGroup(s.reference, shape[s.regex]) => \E r \in reports : r.rule = "existing" /\ r.node = <<"use", i>>

\* A replacement that is reported refers to a group that does not exist.
ReportedGroupsAreMissing ==
  \A r \in reports : r.rule = "existing" => ~RefersToGroup(statements[r.node[2]].reference, shape[statements[r.node[2]].regex])

InputsOf(v) == {statements[i].input : i \in {j \in DOMAIN statements : statements[j].kind = "exec" /\ statements[j].regex = v}}

\* A global regular expression is reported exactly when it meets different inputs and its
\* state is never reset, neither by an assignment nor by an empty input
\* (checkMultipleInputsRegex).
SharedStateIsReported ==
  done => \A v \in Regexes :
    (\E r \in reports : r.rule = "inputs" /\ r.node = <<"literal", v>>) <=>
      /\ "g" \in shape[v].flags /\ ~shape[v].implicit
      /\ Cardinality(InputsOf(v)) > 1 /\ "''" \notin InputsOf(v)
      /\ \A i \in DOMAIN statements : ~(statements[i].kind = "reset" /\ statements[i].regex = v)

-----------------------------------------------------------------------------
\* Regular expressions and references for the runs of RegexUsage.

GroupShapes ==
  {Shape(<<"x">>, {}, {}, FALSE, {}), Shape(<<"", "x">>, {}, {}, FALSE, {}),
   Shape(<<"x", "y">>, {"x"}, {"x"}, FALSE, {}), Shape(<<"">>, {}, {}, TRUE, {}), Shape(<<"y">>, {}, {}, FALSE, {})}

FlagShapes == {Shape(<<>>, {}, {}, FALSE, f) : f \in SUBSET {"g", "y"}} \cup {Shape(<<>>, {}, {}, TRUE, {"g"})}

ManyGroups == [i \in 1..10 |-> ""]

NumberShapes == {Shape(<<>>, {}, {}, FALSE, {}), Shape(<<"">>, {}, {}, FALSE, {}), Shape(<<"x">>, {}, {}, FALSE, {}), Shape(ManyGroups, {}, {}, FALSE, {})}

Index(digits) == [name |-> "", digits |-> digits]

ByName(name) == [name |-> name, digits |-> <<>>]

FewReferences == {Index(<<1>>), ByName("x")}

OneDigit == {Index(<<d>>) : d \in 0..2} \cup {ByName("x"), ByName("y")} \cup {Index(<<1, 0>>), Index(<<0, 0>>)}

=============================================================================
