----------------------------- MODULE LinterRules -----------------------------
(***************************************************************************)
(* A linter of the bridge: the bundles of rules it loads one over the       *)
(* other, the decoration of the external ones, the configurations made of   *)
(* the quality profile, and what becomes of the messages of ESLint.         *)
(*                                                                         *)
(* "key" stands for any rule key, which several bundles may define; the two *)
(* internal custom rules carry the metrics; "ucfg" is the rule of a context *)
(* bundle that writes files.  The file has one line, so that an index of    *)
(* ESLint is a column counted from 0; message columns count from 1.         *)
(***************************************************************************)
EXTENDS Naturals, Sequences, SequencesExt, FiniteSets

CONSTANTS
  SymbolHighlighting, CognitiveComplexity,   \* ids of the internal custom rules
  Definers,      \* sources of rules that may define "key"
  Listings,      \* how "key" may be listed for quick fixes: "fix", "suggestion", "not"
  Calls,         \* forms of calling context.report: "descriptor", "message", "location"
  Nodes,         \* ranges of the nodes that may be reported
  MaxSuggestions,\* bound: suggestions of a rule
  MaxMessages    \* bound: messages of one file that carry no metric

LinterRulesAssumption ==
  /\ {MaxSuggestions, MaxMessages} \subseteq Nat
  /\ Listings \subseteq {"fix", "suggestion", "not"}
  /\ Calls \subseteq {"descriptor", "message", "location"}
  /\ \A n \in Nodes : n[1] \in Nat /\ n[2] \in Nat /\ n[1] < n[2]

VARIABLES
  defines,    \* whether each source of rules defines "key"
  key,        \* about "key": its decorator if any, internal parameters, listing
  sonarlint,  \* the context
  profile,    \* file types the rule "key" of the profile targets
  toLoad,     \* bundles still to load
  rules,      \* the rule database of the linter
  config,     \* options of the enabled keys by file type
  file,       \* the file linted: type and whether it has type information
  messages,   \* what ESLint found
  result      \* the linting result

vars == <<defines, key, sonarlint, profile, toLoad, rules, config, file, messages, result>>

CustomRules == {SymbolHighlighting, CognitiveComplexity}

Ids == {"key", "ucfg"} \cup CustomRules

FileTypes == {"MAIN", "TEST"}

\* eslint, typescript and react are the dependencies of externalRules.
Sources == {"eslint", "typescript", "react", "pluginRules", "internalRules", "contextRules"}

SONAR_RUNTIME == "sonar-runtime"
SONAR_CONTEXT == "sonar-context"

\* schema: the internal parameters the rule declares.
Rule(from, schema) == [from |-> from, schema |-> schema, sanitized |-> FALSE, decorator |-> "none"]

NoRule == Rule("none", {})

DefaultRuleBundles ==
  <<"externalRules", "pluginRules", "internalRules", "contextRules", "internalCustomRules">>

(***************************************************************************)
(* Loading.                                                                *)
(***************************************************************************)
ExternalRule ==
  CASE defines.react -> Rule("react", {})
    [] defines.typescript -> Rule("typescript", {})
    [] defines.eslint -> Rule("eslint", {})
    [] OTHER -> NoRule

SanitizeTypeScriptESLintRule(rule) == [rule EXCEPT !.sanitized = TRUE]

\* no-throw-literal is taken from ESLint whoever else defines it, sanitization
\* is for every key of TypeScript ESLint, then come the decorators.
DecorateExternalRules(rule) ==
  LET chosen == IF key.noThrowLiteral THEN Rule("eslint", {}) ELSE rule
      sanitized == IF defines.typescript THEN SanitizeTypeScriptESLintRule(chosen) ELSE chosen
  IN [sanitized EXCEPT !.decorator = key.decorator]

Defined(bundle) == Rule(bundle, key.schema)

LoadBundle(bundle) ==
  CASE bundle = "externalRules" -> [rules EXCEPT !["key"] = DecorateExternalRules(ExternalRule)]
    [] bundle = "internalCustomRules" ->
         [rules EXCEPT ![SymbolHighlighting] = Rule(bundle, {}),
                       ![CognitiveComplexity] = Rule(bundle, {SONAR_RUNTIME})]
    [] bundle = "contextRules" ->
         [id \in Ids |-> CASE ~defines[bundle] -> rules[id]
                           [] id = "ucfg" -> Rule(bundle, {SONAR_CONTEXT})
                           [] OTHER -> Defined(bundle)]
    [] OTHER -> [rules EXCEPT !["key"] = IF defines[bundle] THEN Defined(bundle) ELSE @]

LoadBundles ==
  /\ toLoad # <<>>
  /\ rules' = LoadBundle(Head(toLoad))
  /\ toLoad' = Tail(toLoad)
  /\ UNCHANGED <<defines, key, sonarlint, profile, config, file, messages, result>>

(***************************************************************************)
(* Configuration: the options of the profile, then the internal parameters *)
(* the rule asks for.                                                      *)
(***************************************************************************)
GetRuleSchema(rule) == rule.schema

HasSonarRuntimeOption(rule) == SONAR_RUNTIME \in GetRuleSchema(rule)
HasSonarContextOption(rule) == SONAR_CONTEXT \in GetRuleSchema(rule)

ExtendRuleConfig(rule, configurations) ==
  configurations \o (IF HasSonarRuntimeOption(rule) THEN <<SONAR_RUNTIME>> ELSE <<>>)
                 \o (IF HasSonarContextOption(rule) THEN <<SONAR_CONTEXT>> ELSE <<>>)

EnableInternalCustomRules(enabled) ==
  IF sonarlint THEN enabled
  ELSE [id \in DOMAIN enabled \cup CustomRules |->
          CASE id = CognitiveComplexity -> <<"metric">>
            [] id = SymbolHighlighting -> <<>>
            [] OTHER -> enabled[id]]

CreateLinterConfig(inputRules) ==
  EnableInternalCustomRules([id \in inputRules |-> ExtendRuleConfig(rules[id], <<>>)])

CreateConfig ==
  /\ toLoad = <<>> /\ config = <<>>
  /\ config' = [t \in FileTypes |-> CreateLinterConfig({id \in {"key", "ucfg"} : t \in profile[id]})]
  /\ UNCHANGED <<defines, key, sonarlint, profile, toLoad, rules, file, messages, result>>

(***************************************************************************)
(* Linting.  A rule that needs types and was not sanitized throws when      *)
(* there are none.  ESLint reports a key without rule; the custom rules     *)
(* report once.                                                            *)
(***************************************************************************)
\* An absent end, which is falsy, and an absent fix.
NoEnd == 0
NoFix == <<>>

\* The rules of the plugin encode when their last option asks for it, those of
\* the bridge and of its bundles when they declare it; the metric is a number.
Text(id, options) ==
  CASE rules[id].from = "pluginRules" ->
         IF options # <<>> /\ Last(options) = SONAR_RUNTIME THEN "encoded" ELSE "text"
    [] id = CognitiveComplexity /\ options = <<"metric">> -> "number"
    [] OTHER -> IF HasSonarRuntimeOption(rules[id]) THEN "encoded" ELSE "text"

Message(id, options) ==
  [ruleId |-> id, text |-> Text(id, options), column |-> 1, endColumn |-> NoEnd,
   fix |-> NoFix, suggestions |-> <<>>]

\* What the rule "key" may report about a node, or about its start.
Reported(options) ==
  LET fixes(node) == IF rules["key"].from = "none" \/ key.listed = "suggestion" THEN {NoFix} ELSE {NoFix, node}
      suggestions(node) == IF rules["key"].from = "none" THEN {<<>>} ELSE {<<>>, [k \in 1..MaxSuggestions |-> node]}
  IN UNION {{[Message("key", options) EXCEPT !.column = node[1] + 1, !.endColumn = end,
                                             !.fix = fix, !.suggestions = suggested] :
               end \in {NoEnd, node[2] + 1}, fix \in fixes(node), suggested \in suggestions(node)} :
             node \in Nodes}

\* interceptReport: the descriptor a decorator gets, or nothing.
Intercept(call, descriptor) ==
  IF call \in {"descriptor", "message"} THEN {descriptor} ELSE {}

\* interceptReportForReact: the first argument is the descriptor.
InterceptForReact(call, descriptor) ==
  IF call = "descriptor" THEN {descriptor} ELSE {}

\* A decorator exempts what it gets, reports it, or adds a suggestion.
OnReport(descriptor) ==
  {{}, {descriptor}, {[descriptor EXCEPT !.suggestions = Append(@, <<descriptor.column - 1, descriptor.column>>)]}}

Delivered(call, descriptor) ==
  CASE rules["key"].decorator = "report" -> UNION {OnReport(d) : d \in Intercept(call, descriptor)}
    [] rules["key"].decorator = "react" -> UNION {OnReport(d) : d \in InterceptForReact(call, descriptor)}
    [] OTHER -> {{descriptor}}

Messages(enabled, id) ==
  IF id = "key" THEN UNION UNION {Delivered(call, d) : call \in Calls, d \in Reported(enabled[id])}
  ELSE {Message(id, enabled[id])}

Count(s, id) == Cardinality({k \in DOMAIN s : s[k].ruleId = id})

Found(enabled) ==
  LET metrics == CustomRules \cap DOMAIN enabled
      max == MaxMessages + Cardinality(metrics)
  IN {s \in UNION {[1..n -> UNION {Messages(enabled, id) : id \in DOMAIN enabled}] : n \in 0..max} :
        \A id \in metrics : Count(s, id) = 1}

Throws(id, types) ==
  rules[id].from = "typescript" /\ ~rules[id].sanitized /\ ~types

Failed(why) == [type |-> "error", why |-> why]

Verify ==
  /\ config # <<>> /\ result = <<>> /\ file = <<>>
  /\ \E t \in FileTypes, types \in BOOLEAN :
       /\ file' = [type |-> t, types |-> types]
       /\ IF \E id \in DOMAIN config[t] : Throws(id, types)
          THEN messages' = <<>> /\ result' = Failed("types")
          ELSE messages' \in Found(config[t]) /\ UNCHANGED result
  /\ UNCHANGED <<defines, key, sonarlint, profile, toLoad, rules, config>>

(***************************************************************************)
(* Quick fixes: quickFixRules lists keys whose rule fixes or suggests,      *)
(* quickFixMessages those whose rule fixes.                                *)
(***************************************************************************)
QuickFixRules == {"fix", "suggestion"}
QuickFixMessages == {"fix"}

Listing(id) == IF id = "key" THEN key.listed ELSE "not"

HasQuickFix(message) ==
  /\ message.fix # NoFix \/ message.suggestions # <<>>
  /\ Listing(message.ruleId) \in QuickFixRules

\* getLocFromIndex counts columns from 0.
FixToEdit(range) == [column |-> range[1], endColumn |-> range[2]]

GetQuickFixMessage(id) == Listing(id) \in QuickFixMessages

TransformFixes(message) ==
  IF ~HasQuickFix(message) THEN <<>>
  ELSE (IF message.fix = NoFix THEN <<>> ELSE <<FixToEdit(message.fix)>>)
       \o [k \in DOMAIN message.suggestions |-> FixToEdit(message.suggestions[k])]

(***************************************************************************)
(* The messages become issues, paths of ucfg files and metrics.            *)
(***************************************************************************)
ConvertMessage(message) ==
  [ruleId |-> message.ruleId, text |-> message.text, column |-> message.column,
   endColumn |-> message.endColumn, quickFixes |-> TransformFixes(message)]

\* A number parses as JSON too and adds nothing to the issue.
DecodeSonarRuntime(issue) ==
  IF HasSonarRuntimeOption(rules[issue.ruleId]) /\ issue.text = "encoded"
  THEN [issue EXCEPT !.text = "text"] ELSE issue

NormalizeLocation(issue) ==
  [issue EXCEPT !.column = @ - 1, !.endColumn = IF @ = NoEnd THEN @ ELSE @ - 1]

\* A fix without message and a text that is not encoded where it should be
\* end the analysis of the file.
Unconvertible(message) == HasQuickFix(message) /\ message.fix # NoFix /\ ~GetQuickFixMessage(message.ruleId)
Undecodable(message) == HasSonarRuntimeOption(rules[message.ruleId]) /\ message.text = "text"

FindAndRemoveFirstIssue(issues, id) ==
  LET found == {k \in DOMAIN issues : issues[k].ruleId = id}
  IN IF found = {} THEN issues
     ELSE RemoveAt(issues, CHOOSE k \in found : \A j \in found : k <= j)

Has(issues, id) == \E k \in DOMAIN issues : issues[k].ruleId = id

TransformMessages ==
  LET isIssue(message) == message.ruleId # "ucfg"
      convert(message) == NormalizeLocation(DecodeSonarRuntime(ConvertMessage(message)))
      selected == SelectSeq(messages, isIssue)
      issues == [k \in DOMAIN selected |-> convert(selected[k])]
      withoutSymbols == FindAndRemoveFirstIssue(issues, SymbolHighlighting)
  IN CASE \E k \in DOMAIN selected : Unconvertible(selected[k]) -> Failed("quick fix")
       [] \E k \in DOMAIN selected : Undecodable(selected[k]) -> Failed("encoding")
       [] OTHER ->
            [type |-> "result",
             issues |-> FindAndRemoveFirstIssue(withoutSymbols, CognitiveComplexity),
             ucfgPaths |-> Count(messages, "ucfg"),
             highlightedSymbols |-> Has(issues, SymbolHighlighting),
             cognitiveComplexity |-> Has(withoutSymbols, CognitiveComplexity)]

(***************************************************************************)
(* computeExtendedMetrics: what is answered beside the issues.             *)
(***************************************************************************)
ExtendedMetrics ==
  CASE sonarlint -> {"nosonar"}
    [] file.type = "MAIN" -> {"symbols", "highlights", "nosonar", "metrics", "complexity", "cpd"}
    [] OTHER -> {"symbols", "highlights", "nosonar"}

Transform ==
  /\ file # <<>> /\ result = <<>>
  /\ result' = TransformMessages
  /\ UNCHANGED <<defines, key, sonarlint, profile, toLoad, rules, config, file, messages>>

\* Only rules of the bridge and of its bundles declare internal parameters,
\* those of the plugin never ask for the context, and a decorator belongs to a
\* rule that a dependency defines.
Init ==
  /\ defines \in {d \in [Sources -> BOOLEAN] : \A s \in Sources \ Definers : ~d[s]}
  /\ key \in [decorator : {"none", "report", "react"}, listed : Listings, noThrowLiteral : BOOLEAN,
              schema : {{}, {SONAR_RUNTIME}, {SONAR_RUNTIME, SONAR_CONTEXT}}]
  /\ key.decorator = "report" \/ key.noThrowLiteral => defines.eslint
  /\ key.decorator = "react" => defines.react
  /\ key.schema # {} => \E s \in {"pluginRules", "internalRules", "contextRules"} : defines[s]
  /\ SONAR_CONTEXT \in key.schema => ~defines["pluginRules"]
  /\ sonarlint \in BOOLEAN
  /\ profile \in [key : {{}, {"MAIN"}, FileTypes}, ucfg : {{}, {"MAIN"}}]
  /\ toLoad = DefaultRuleBundles
  /\ rules = [id \in Ids |-> NoRule]
  /\ config = <<>> /\ file = <<>> /\ messages = <<>> /\ result = <<>>

Finished == result # <<>> /\ UNCHANGED vars

Next == LoadBundles \/ CreateConfig \/ Verify \/ Transform \/ Finished

Spec == Init /\ [][Next]_vars

-----------------------------------------------------------------------------

(***************************************************************************)
(* Linting never fails for want of type information, whatever bundle the    *)
(* rule comes from, overridden or decorated (sanitize.ts, decorate.ts).    *)
(***************************************************************************)
TypesAreNotAssumed == result # <<>> => result # Failed("types")

(***************************************************************************)
(* Every message ends up in exactly one place: the issues are, in the order *)
(* of ESLint, the messages that are neither paths nor metrics, and none is  *)
(* left encoded or lost for not being encoded (transformMessages,           *)
(* extract.ts, extendRuleConfig).                                          *)
(***************************************************************************)
MessagesAreAccountedFor ==
  result # <<>> =>
    /\ result # Failed("encoding")
    /\ result.type = "result" =>
         LET rest(message) == message.ruleId = "key"
             expected == SelectSeq(messages, rest)
         IN /\ Len(result.issues) = Len(expected)
            /\ \A k \in DOMAIN expected : /\ result.issues[k].ruleId = "key"
                                          /\ result.issues[k].text = "text"
            /\ Len(messages) = Len(result.issues) + result.ucfgPaths
                               + (IF result.highlightedSymbols THEN 1 ELSE 0)
                               + (IF result.cognitiveComplexity THEN 1 ELSE 0)

(***************************************************************************)
(* An issue and the quick fixes of its node count columns from the same     *)
(* origin although message columns start at 1 and indexes at 0, every       *)
(* suggestion and fix of a listed rule is offered and none of another, and  *)
(* no quick fix is without a message (transform.ts, normalizeLocation).    *)
(***************************************************************************)
QuickFixesAreInPlace ==
  result # <<>> =>
    /\ result # Failed("quick fix")
    /\ result.type = "result" =>
         LET rest(message) == message.ruleId = "key"
             expected == SelectSeq(messages, rest)
         IN \A k \in DOMAIN expected :
              LET issue == result.issues[k]
                  offered == (IF expected[k].fix = NoFix THEN 0 ELSE 1) + Len(expected[k].suggestions)
              IN /\ Len(issue.quickFixes) = IF key.listed = "not" THEN 0 ELSE offered
                 /\ \A j \in DOMAIN issue.quickFixes :
                      /\ issue.quickFixes[j].column = issue.column
                      /\ issue.endColumn # NoEnd => issue.quickFixes[j].endColumn <= issue.endColumn

(***************************************************************************)
(* What is answered beside the issues has been computed: the symbols and    *)
(* the complexity come from the internal rules even where a context bundle  *)
(* defines rules of their names, for every type of file, and not in         *)
(* SonarLint (enableInternalCustomRules, defaultRuleBundles).              *)
(***************************************************************************)
MetricsAreComputed ==
  (result # <<>> /\ result.type = "result") =>
    /\ ("symbols" \in ExtendedMetrics) =>
         result.highlightedSymbols /\ rules[SymbolHighlighting].from = "internalCustomRules"
    /\ ("complexity" \in ExtendedMetrics) =>
         result.cognitiveComplexity /\ rules[CognitiveComplexity].from = "internalCustomRules"

=============================================================================
