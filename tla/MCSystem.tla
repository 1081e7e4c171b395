------------------------------ MODULE MCSystem ------------------------------
(*****************************************************************************)
(* The parts of the plugin and of the bridge that have no run of their own,  *)
(* on small instances. A behaviour is a behaviour of one of the models named *)
(* by Subjects: subject says which one, its variables are the slots x1, x2,  *)
(* ... in the order in which its module declares them, and the slots it does *)
(* not use stay 0. A property speaks of the behaviours of its own model.     *)
(*****************************************************************************)
EXTENDS Integers, Sequences, FiniteSets

CONSTANTS
  Subjects,   \* the models that are checked in this run
  Absent, None, Torn, Null   \* model values of the components

VARIABLES
  subject,   \* the model of this behaviour
  x1, x2, x3, x4, x5, x6, x7, x8, x9, x10, x11, x12, x13, x14   \* its variables, in the order of its module

vars == <<subject, x1, x2, x3, x4, x5, x6, x7, x8, x9, x10, x11, x12, x13, x14>>

\* What a step of a model with n variables leaves alone: the other ones.
Behind14 == <<subject>>
Behind11 == <<x12, x13, x14, Behind14>>
Behind10 == <<x11, Behind11>>
Behind9 == <<x10, Behind10>>
Behind7 == <<x8, x9, Behind9>>
Behind5 == <<x6, x7, Behind7>>
Behind2 == <<x3, x4, x5, Behind5>>

\* No values.
Blank11 == x12 = 0 /\ x13 = 0 /\ x14 = 0
Blank10 == x11 = 0 /\ Blank11
Blank9 == x10 = 0 /\ Blank10
Blank7 == x8 = 0 /\ x9 = 0 /\ Blank9
Blank5 == x6 = 0 /\ x7 = 0 /\ Blank7
Blank2 == x3 = 0 /\ x4 = 0 /\ x5 = 0 /\ Blank5

-----------------------------------------------------------------------------
(* AnalysisCache *)

\* The analysis of a pull request, in the scanner and in SonarLint.
PullRequestEnvs ==
  {[api |-> TRUE, lint |-> lint, canSkip |-> TRUE, security |-> TRUE, plugin |-> "p1", ucfg |-> "u1"] :
     lint \in BOOLEAN}

AnalysisCache == INSTANCE AnalysisCache WITH
  Files <- {"f1", "f2"}, Sensors <- {"js", "ts"}, SensorOf <- [f1 |-> "js", f2 |-> "ts"],
  IssuesOnly <- {"f2"}, Contents <- {"c1"}, Plugins <- {"p1"}, Ucfgs <- {"u1"},
  Envs <- PullRequestEnvs, MaxScans <- 2, MaxDamage <- 0, WritesFail <- TRUE, source <- x1,
  prev <- x2, next <- x3, env <- x4, phase <- x5, sensor <- x6, pending <- x7, todo <- x8,
  strategy <- x9, ucfgOut <- x10, cpdOut <- x11, done <- x12, counters <- x13, scans <- x14

\* The report of a sensor counts its own files only, each once: the files it is
\* done with are the ones counted, and the hits are the files it did not analyze
\* (CacheStrategies.reset, CacheReporter.logAndIncrement).
ReportCountsSensorFiles == subject = "cache_sensors" => AnalysisCache!ReportCountsSensorFiles

-----------------------------------------------------------------------------
(* SensorExecution *)

SensorExecution == INSTANCE SensorExecution WITH
  Files <- {"f1", "f2"}, MaxExecutions <- 3, pc <- x1, execution <- x2, mode <- x3,
  same <- x4, todo <- x5, waiting <- x6, alive <- x7, queue <- x8, reading <- x9,
  linters <- x10, responses <- x11

ASSUME SensorExecution!MaxExecutionsAssumption

\* What one execution of a sensor leaves behind, linters and requests that are
\* still under way, never shows in another one: answers come from its own
\* linters, and with the rules its files ask for.
ExecutionsKeepApart == subject = "sensors_linters" => SensorExecution!ExecutionsKeepApart

-----------------------------------------------------------------------------
(* CpdCodec *)

CpdCodecSamples == INSTANCE CpdCodec WITH
  Width <- 8, Group <- 3, Locations <- {}, Images <- {}, MaxTokens <- 1, Cuts <- FALSE,
  Null <- Null, cpdTokens <- x1, pc <- x2, index <- x3, byIndex <- x4, data <- x5,
  table <- x6, whole <- x7, position <- x8, size <- x9, read <- x10, outcome <- x11

CpdCodecInputs ==
  [codec_numbers |-> [Locations |-> CpdCodecSamples!MCAllNumbers,
                      Images |-> CpdCodecSamples!MCImage,
                      MaxTokens |-> 1,
                      Cuts |-> FALSE],
   codec_tokens |-> [Locations |-> CpdCodecSamples!MCFewLocations,
                     Images |-> CpdCodecSamples!MCImages,
                     MaxTokens |-> 2,
                     Cuts |-> TRUE]]

CpdCodecSubjects == {"codec_numbers", "codec_tokens"}

CpdCodec(s) == INSTANCE CpdCodec WITH
  Width <- 8, Group <- 3, Locations <- CpdCodecInputs[s].Locations,
  Images <- CpdCodecInputs[s].Images, MaxTokens <- CpdCodecInputs[s].MaxTokens,
  Cuts <- CpdCodecInputs[s].Cuts, cpdTokens <- x1, pc <- x2, index <- x3, byIndex <- x4,
  data <- x5, table <- x6, whole <- x7, position <- x8, size <- x9, read <- x10,
  outcome <- x11

ASSUME \A s \in CpdCodecSubjects : CpdCodec(s)!WidthAssumption

\* Entries that the cache gives back whole are read as the tokens that
\* CpdSerializer was given: every integer of every length, the sign bit included,
\* and every image under the index it was written with.
RoundTrip == \A s \in CpdCodecSubjects : subject = s => CpdCodec(s)!RoundTrip

\* An entry that is cut short, wherever it is cut, ends in the IOException that
\* CacheStrategies takes for a missing entry: never in fewer tokens, and never in
\* an unchecked exception that would end the sensor.
CutIsNoticed == subject = "codec_tokens" => CpdCodec("codec_tokens")!CutIsNoticed

-----------------------------------------------------------------------------
(* TsConfigLookup *)

TsConfigLookup == INSTANCE TsConfigLookup WITH
  Base <- "base", Subdirs <- {"x", "y"}, Patterns <- {"p", "q"}, parent <- x1, modules <- x2,
  unreadable <- x3, configs <- x4, property <- x5, request <- x6, pc <- x7, dirs <- x8,
  tsconfigs <- x9, listed <- x10, extending <- x11

\* The tsconfigs that the sensors work with are the property's, if it names any;
\* else every tsconfig.json of the project outside node_modules once, however
\* deep, whatever order directories list their files in and whichever of them
\* cannot be listed; else the generated one or none.
EveryTsConfigOnce == subject = "tsconfig_lookup" => TsConfigLookup!EveryTsConfigOnce

\* The walk lists no directory twice and none that is in a node_modules, where
\* the cost of a project's dependencies would be.
NothingInstalledIsListed == subject = "tsconfig_lookup" => TsConfigLookup!NothingInstalledIsListed

\* A tsconfig that extends one of a package is never refused because the package is
\* not installed, and what is installed nearer is never replaced by an empty
\* configuration (createProgramOptions, isLastTsConfigCheck).
MissingOnlyAtTheEnd == subject = "tsconfig_lookup" => TsConfigLookup!MissingOnlyAtTheEnd

-----------------------------------------------------------------------------
(* WildcardTsConfig *)

WildcardTsConfig == INSTANCE WildcardTsConfig WITH
  Roots <- {"a", "b"}, MaxFiles <- 2, MaxCount <- 3, MaxAnalyses <- 4, ErrorAnswers <- FALSE,
  count <- x1, shouldCheck <- x2, beyondLimit <- x3, defaultWildcardTsConfig <- x4,
  created <- x5, analyses <- x6, given <- x7

ASSUME WildcardTsConfig!CountsAssumption

\* All analyses of a module share one tsconfig, which exists, although files are
\* added and removed between them, the count may fail and the bridge may miss a
\* request (checkOnce and computeIfAbsent).
WildcardIsShared == subject = "wildcard_analyses" => WildcardTsConfig!WildcardIsShared

-----------------------------------------------------------------------------
(* LcovReport *)

LcovReportSamples == INSTANCE LcovReport WITH
  MainFiles <- {}, TestFiles <- {}, Reported <- {}, LinesInFile <- 1, Numbers <- {0, 1},
  Counts <- {0, 1}, Blocks <- {}, Checksums <- FALSE, MaxLines <- 5, Null <- Null,
  lines <- x1, fileData <- x2, branches <- x3, hits <- x4, unresolvedPaths <- x5,
  inconsistenciesCounter <- x6, saved <- x7

LcovReportInputs ==
  [lcov_hits |-> [MainFiles |-> LcovReportSamples!MCMainFiles,
                  Reported |-> LcovReportSamples!MCReported,
                  Numbers |-> {0, 1},
                  Blocks |-> {},
                  MaxLines |-> 5],
   lcov_branches |-> [MainFiles |-> LcovReportSamples!MCNestedFiles,
                      Reported |-> LcovReportSamples!MCShort,
                      Numbers |-> {1, 2},
                      Blocks |-> LcovReportSamples!MCDigits,
                      MaxLines |-> 3]]

LcovReportSubjects == {"lcov_hits", "lcov_branches"}

LcovReport(s) == INSTANCE LcovReport WITH
  TestFiles <- LcovReportSamples!MCTestFiles, LinesInFile <- 1, Counts <- {0, 1},
  Checksums <- FALSE, MainFiles <- LcovReportInputs[s].MainFiles,
  Reported <- LcovReportInputs[s].Reported, Numbers <- LcovReportInputs[s].Numbers,
  Blocks <- LcovReportInputs[s].Blocks, MaxLines <- LcovReportInputs[s].MaxLines, lines <- x1,
  fileData <- x2, branches <- x3, hits <- x4, unresolvedPaths <- x5,
  inconsistenciesCounter <- x6, saved <- x7

ASSUME \A s \in LcovReportSubjects : LcovReport(s)!LinesAssumption

\* A section is imported whenever the project has a file with the end of its
\* path, and then to a file with that end; the other paths are reported as
\* unresolved.
ResolvedByTheirEnd == subject = "lcov_hits" => LcovReport("lcov_hits")!ResolvedByTheirEnd

\* The executions that are kept for a line of a file are those of all lines DA
\* about it, of all sections of all reports that name the file in any way, and of
\* no section of a file that was not found.
HitsAreSums == subject = "lcov_hits" => LcovReport("lcov_hits")!HitsAreSums

\* The conditions that are saved for a line of a main file are its blocks'
\* branches, and the covered ones those that any report says were taken.
ConditionsAreBranches == subject = "lcov_branches" => LcovReport("lcov_branches")!ConditionsAreBranches

-----------------------------------------------------------------------------
(* BridgeAnalysis *)

BridgeAnalysis == INSTANCE BridgeAnalysis WITH
  LinterIds <- {"default", "unchanged"}, SentContents <- {"none", "a"}, context <- x1,
  linters <- x2, programs <- x3, disk <- x4, outcome <- x5, request <- x6, content <- x7,
  phase <- x8, arrival <- x9, answer <- x10

\* While a handler awaits its file, others run: its answer is still about the
\* content, the linter and the parser it was asked for (runner.ts, build-js.ts).
AnalysisIsOfTheRequest == subject = "bridge_analysis" => BridgeAnalysis!AnalysisIsOfTheRequest

\* Every request that arrives is answered, whatever fails on the way.
EveryRequestIsAnswered ==
  (subject = "bridge_analysis" /\ BridgeAnalysis!Asked) ~> (subject = "bridge_analysis" /\ BridgeAnalysis!Answered)

-----------------------------------------------------------------------------
(* LinterRules *)

LinterRulesInputs ==
  [linter_rules |-> [Definers |-> {"eslint", "typescript", "react", "pluginRules", "internalRules", "contextRules"},
                     Listings |-> {"not"}, Calls |-> {"descriptor"}, Nodes |-> {<<0, 2>>},
                     MaxSuggestions |-> 0, MaxMessages |-> 1],
   linter_messages |-> [Definers |-> {"eslint", "internalRules"},
                        Listings |-> {"fix", "suggestion", "not"},
                        Calls |-> {"descriptor", "message", "location"}, Nodes |-> {<<0, 2>>, <<1, 2>>},
                        MaxSuggestions |-> 2, MaxMessages |-> 1]]

LinterRulesSubjects == {"linter_rules", "linter_messages"}

LinterRules(s) == INSTANCE LinterRules WITH
  SymbolHighlighting <- "internal-symbol-highlighting",
  CognitiveComplexity <- "internal-cognitive-complexity",
  Definers <- LinterRulesInputs[s].Definers, Listings <- LinterRulesInputs[s].Listings,
  Calls <- LinterRulesInputs[s].Calls, Nodes <- LinterRulesInputs[s].Nodes,
  MaxSuggestions <- LinterRulesInputs[s].MaxSuggestions,
  MaxMessages <- LinterRulesInputs[s].MaxMessages, defines <- x1, key <- x2,
  sonarlint <- x3, profile <- x4, toLoad <- x5, rules <- x6, config <- x7, file <- x8,
  messages <- x9, result <- x10

ASSUME \A s \in LinterRulesSubjects : LinterRules(s)!LinterRulesAssumption

\* Linting never fails for want of type information, whatever bundle the rule
\* comes from, overridden or decorated (sanitize.ts, decorate.ts).
TypesAreNotAssumed == \A s \in LinterRulesSubjects : subject = s => LinterRules(s)!TypesAreNotAssumed

\* Every message ends up in exactly one place: the issues are, in the order of
\* ESLint, the messages that are neither paths nor metrics, and none is left
\* encoded (transformMessages, extract.ts).
MessagesAreAccountedFor ==
  \A s \in LinterRulesSubjects : subject = s => LinterRules(s)!MessagesAreAccountedFor

\* An issue and the quick fixes of its node count columns from the same origin
\* although message columns start at 1 and indexes at 0; what a listed rule offers
\* is kept, with a message (quickfixes/transform.ts, normalizeLocation).
QuickFixesAreInPlace ==
  \A s \in LinterRulesSubjects : subject = s => LinterRules(s)!QuickFixesAreInPlace

\* What is answered beside the issues has been computed: the symbols and the
\* complexity come from the internal rules even where a context bundle defines
\* rules of their names, for every type of file, and not in SonarLint
\* (enableInternalCustomRules, defaultRuleBundles).
MetricsAreComputed == \A s \in LinterRulesSubjects : subject = s => LinterRules(s)!MetricsAreComputed

-----------------------------------------------------------------------------
(* FileMeasures *)

FileMeasuresInputs ==
  [measures_script |-> [Kinds |-> {"line", "blank", "nosonar", "doc", "word", "fn", "template", "str1", "attr1", "import"},
                        MarkupKinds |-> {},
                        IgnoreHeader |-> {TRUE, FALSE},
                        MaxItems |-> 3],
   measures_symbols |-> [Kinds |-> {"def", "init", "use", "typed"},
                         MarkupKinds |-> {},
                         IgnoreHeader |-> {TRUE},
                         MaxItems |-> 4],
   measures_markup |-> [Kinds |-> {"{", "}"},
                        MarkupKinds |-> {"<div", "</div", "/>", "<style", "</style", "css", "/*", "*/", "html space"},
                        IgnoreHeader |-> {TRUE},
                        MaxItems |-> 5]]

FileMeasuresSubjects == {"measures_script", "measures_symbols", "measures_markup"}

FileMeasures(s) == INSTANCE FileMeasures WITH
  Kinds <- FileMeasuresInputs[s].Kinds, MarkupKinds <- FileMeasuresInputs[s].MarkupKinds,
  IgnoreHeader <- FileMeasuresInputs[s].IgnoreHeader,
  MaxItems <- FileMeasuresInputs[s].MaxItems, file <- x1, measures <- x2

ASSUME \A s \in FileMeasuresSubjects : FileMeasures(s)!FileAssumption

\* No line is lost between the measures, and none is invented (computeMetrics): a
\* line with text counts as code, as comment or as NOSONAR line, unless it only
\* holds blank comments or the header that is ignored, and every line counted
\* holds such a text.
EveryLineIsAccounted == subject = "measures_script" => FileMeasures("measures_script")!EveryLineIsAccounted

\* Code that differs in the values of its strings is a duplicate for the copy-
\* paste detector, while attributes with different values are not (getCpdTokens):
\* the tokens sent are the same after every string of the code is replaced by
\* another.
DuplicatesIgnoreStrings == subject = "measures_script" => FileMeasures("measures_script")!DuplicatesIgnoreStrings

\* SonarQube refuses highlightings that overlap (the comment of
\* identifierLocation): no two locations of a symbol share a token.
SymbolsDoNotOverlap == subject = "measures_symbols" => FileMeasures("measures_symbols")!SymbolsDoNotOverlap

\* The declaration of a symbol is on the first line where it occurs, and every
\* occurrence is highlighted (the sort of allRef).
DeclarationOnTheFirstLine == subject = "measures_symbols" => FileMeasures("measures_symbols")!DeclarationOnTheFirstLine

\* A closing tag or brace is highlighted with the token it closes (the two stacks
\* of Program:exit): names agree, every closing token has a partner, a tag that
\* closes itself has none, and pairs nest.
PairsAreMatching == subject = "measures_markup" => FileMeasures("measures_markup")!PairsAreMatching

\* The lines of code of a component hold a character that is neither whitespace
\* nor part of a comment, in the style too (extractVuejsTokens), and all such
\* lines count.
NclocOfTheMarkup == subject = "measures_markup" => FileMeasures("measures_markup")!NclocOfTheMarkup

-----------------------------------------------------------------------------
(* EmbeddedCode *)

EmbeddedCodeSamples == INSTANCE EmbeddedCode WITH
  Texts <- {}, Language <- "html", text <- x1, pos <- x2, raw <- x3, inScript <- x4,
  jsSnippetStartIndex <- x5, embeddedJSs <- x6, sources <- x7, issues <- x8, result <- x9

EmbeddedCodeInputs ==
  [embedded_html |-> [Texts |-> EmbeddedCodeSamples!HtmlTexts, Language |-> "html"],
   embedded_yaml |-> [Texts |-> EmbeddedCodeSamples!YamlTexts, Language |-> "yaml"]]

EmbeddedCodeSubjects == {"embedded_html", "embedded_yaml"}

EmbeddedCode(s) == INSTANCE EmbeddedCode WITH
  Texts <- EmbeddedCodeInputs[s].Texts, Language <- EmbeddedCodeInputs[s].Language,
  text <- x1, pos <- x2, raw <- x3, inScript <- x4, jsSnippetStartIndex <- x5,
  embeddedJSs <- x6, sources <- x7, issues <- x8, result <- x9

\* The issues answered are, for every token and comment of the embedded
\* JavaScript, one at its place in the file: none is lost, moved, or outside of
\* JavaScript (patch.ts: locations "will be relative to the whole file";
\* analyzer.ts: removeNonJsIssues).
IssuesInPlace == \A s \in EmbeddedCodeSubjects : subject = s => EmbeddedCode(s)!IssuesInPlace

\* A parsing error is answered with the line of the file it is on, and with
\* nothing of the snippets that could be parsed (patchParsingError).
ErrorInPlace == subject = "embedded_yaml" => EmbeddedCode("embedded_yaml")!ErrorInPlace

-----------------------------------------------------------------------------
(* AwsFunctions *)

AwsFunctionsSamples == INSTANCE AwsFunctions WITH
  Keys <- {"Fn", "Code", "ZipFile", "InlineCode"}, Siblings <- {}, MaxDepth <- 3,
  levels <- x1, format <- x2, depth <- x3, snippets <- x4, failed <- x5

AwsFunctions == INSTANCE AwsFunctions WITH
  Keys <- {"Fn", "Code", "ZipFile", "InlineCode"},
  Siblings <- AwsFunctionsSamples!SomeSiblings, MaxDepth <- 3, levels <- x1, format <- x2,
  depth <- x3, snippets <- x4, failed <- x5

ASSUME AwsFunctions!MaxDepthAssumption

\* A visited document has the snippets of its functions, each with the name of
\* the resource it belongs to (the levels of parsingContexts.ts).
SnippetsAreFunctions == subject = "aws_functions" => AwsFunctions!SnippetsAreFunctions

-----------------------------------------------------------------------------
(* What the runs ask *)

\* What the plugin reads is what was written, each once: the tokens and the hits
\* of the cache (CpdSerializer, CacheReporter), the tsconfigs of a project in
\* whatever order directories are listed (TsConfigProvider) and the sections of
\* coverage reports, however a path is spelled (LCOVParser, FileLocator).
NothingReadIsLost ==
  /\ RoundTrip
  /\ CutIsNoticed
  /\ ReportCountsSensorFiles
  /\ EveryTsConfigOnce
  /\ NothingInstalledIsListed
  /\ MissingOnlyAtTheEnd
  /\ ResolvedByTheirEnd
  /\ HitsAreSums
  /\ ConditionsAreBranches

\* Of the messages and the measures of a file none is lost, counted twice or put
\* in the place of another (the wrapper of the linter and its visitors), also
\* where its JavaScript is inside HTML or YAML (src/parsing/embedded).
NothingOfAFileIsLost ==
  /\ TypesAreNotAssumed
  /\ MessagesAreAccountedFor
  /\ QuickFixesAreInPlace
  /\ MetricsAreComputed
  /\ EveryLineIsAccounted
  /\ DuplicatesIgnoreStrings
  /\ SymbolsDoNotOverlap
  /\ DeclarationOnTheFirstLine
  /\ PairsAreMatching
  /\ NclocOfTheMarkup
  /\ IssuesInPlace
  /\ ErrorInPlace
  /\ SnippetsAreFunctions

-----------------------------------------------------------------------------
Init ==
  /\ subject \in Subjects
  /\ \/ subject = "cache_sensors" /\ AnalysisCache!Init
     \/ subject = "sensors_linters" /\ SensorExecution!Init /\ Blank11
     \/ \E s \in CpdCodecSubjects : subject = s /\ CpdCodec(s)!Init /\ Blank11
     \/ subject = "tsconfig_lookup" /\ TsConfigLookup!Init /\ Blank11
     \/ subject = "wildcard_analyses" /\ WildcardTsConfig!Init /\ Blank7
     \/ \E s \in LcovReportSubjects : subject = s /\ LcovReport(s)!Init /\ Blank7
     \/ subject = "bridge_analysis" /\ BridgeAnalysis!Init /\ Blank10
     \/ \E s \in LinterRulesSubjects : subject = s /\ LinterRules(s)!Init /\ Blank10
     \/ \E s \in FileMeasuresSubjects : subject = s /\ FileMeasures(s)!Init /\ Blank2
     \/ \E s \in EmbeddedCodeSubjects : subject = s /\ EmbeddedCode(s)!Init /\ Blank9
     \/ subject = "aws_functions" /\ AwsFunctions!Init /\ Blank5

Next ==
  \/ subject = "cache_sensors" /\ AnalysisCache!Next /\ UNCHANGED Behind14
  \/ subject = "sensors_linters" /\ SensorExecution!Next /\ UNCHANGED Behind11
  \/ \E s \in CpdCodecSubjects : subject = s /\ CpdCodec(s)!Next /\ UNCHANGED Behind11
  \/ subject = "tsconfig_lookup" /\ TsConfigLookup!Next /\ UNCHANGED Behind11
  \/ subject = "wildcard_analyses" /\ WildcardTsConfig!Next /\ UNCHANGED Behind7
  \/ \E s \in LcovReportSubjects : subject = s /\ LcovReport(s)!Next /\ UNCHANGED Behind7
  \/ subject = "bridge_analysis" /\ BridgeAnalysis!Next /\ UNCHANGED Behind10
  \/ \E s \in LinterRulesSubjects : subject = s /\ LinterRules(s)!Next /\ UNCHANGED Behind10
  \/ \E s \in FileMeasuresSubjects : subject = s /\ FileMeasures(s)!Next /\ UNCHANGED Behind2
  \/ \E s \in EmbeddedCodeSubjects : subject = s /\ EmbeddedCode(s)!Next /\ UNCHANGED Behind9
  \/ subject = "aws_functions" /\ AwsFunctions!Next /\ UNCHANGED Behind5

Spec == Init /\ [][Next]_vars

\* A handler that waits for its file is answered, and its turn comes.
FairSpec ==
  /\ Spec
  /\ \A s \in Subjects \cap {"bridge_analysis"} :
       /\ WF_vars(subject = s /\ BridgeAnalysis!Runner /\ UNCHANGED Behind10)
       /\ WF_vars(subject = s /\ BridgeAnalysis!ReadFile /\ UNCHANGED Behind10)
       /\ WF_vars(subject = s /\ BridgeAnalysis!Analyze /\ UNCHANGED Behind10)

=============================================================================
