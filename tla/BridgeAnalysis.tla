--------------------------- MODULE BridgeAnalysis ---------------------------
(***************************************************************************)
(* The analysis of one file by the bridge: the request handler waits for    *)
(* the file, then parses, lints and answers without letting go of the event *)
(* loop.  Other handlers - a new linter, a deleted program - and the editor *)
(* of the file run while it waits.                                         *)
(***************************************************************************)
EXTENDS Naturals, FiniteSets, TLAPS

CONSTANTS
  LinterIds,      \* identifiers of linters
  SentContents    \* values of fileContent in a request; "none" when absent

VARIABLES
  context,    \* shouldUseTypeScriptParserForJS of the global context
  linters,    \* the keys of the global linters object
  programs,   \* whether the program of the request is in the cache
  disk,       \* what the file on disk holds
  outcome,    \* what each parser makes of content "a"
  request,    \* the request
  content,    \* input.fileContent: as sent, then as read
  phase,      \* "idle", "received", "reading", "ready", "answered"
  arrival,    \* linters, and what the disk held since, when it was received
  answer

vars == <<context, linters, programs, disk, outcome, request, content, phase, arrival, answer>>

(***************************************************************************)
(* The ESLint parsers are external.  The TypeScript parser may die of a      *)
(* Debug Failure of the compiler; "b" and the empty file can be parsed.     *)
(***************************************************************************)
Parsers == {"typescript", "module", "script"}

Outcomes == {o \in [Parsers -> {"ok", "syntax", "debug"}] :
               o.module # "debug" /\ o.script # "debug"}

Outcome(text, parser) == IF text = "a" THEN outcome[parser] ELSE "ok"

Requests ==
  {r \in [language : {"js", "ts"}, vue : BOOLEAN, fileContent : SentContents,
          linterId : LinterIds, programId : BOOLEAN] : r.programId => r.language = "ts"}

Parsed(parser) == [type |-> "ok", parser |-> parser]

APIError(code, parser) == [type |-> code, parser |-> parser]

\* errorMiddleware keeps the code of an APIError; any other error is unexpected.
UnexpectedError == APIError("GENERAL_ERROR", "none")

ParseForESLint(text, parser) ==
  CASE Outcome(text, parser) = "ok" -> Parsed(parser)
    [] Outcome(text, parser) = "debug" -> APIError("FAILING_TYPESCRIPT", parser)
    [] OTHER -> APIError("PARSING", parser)

\* The options are built before the parser is called: an unknown program
\* throws whatever the parser is.
Attempt(r, text, parser) ==
  IF r.programId /\ ~programs THEN UnexpectedError ELSE ParseForESLint(text, parser)

BuildTs(r, text) == Attempt(r, text, "typescript")

BuildVue(r, text) ==
  LET first == Attempt(r, text, "typescript")
  IN IF context /\ first.type = "ok" THEN first ELSE Attempt(r, text, "module")

BuildJs(r, text) ==
  LET typescript == Attempt(r, text, "typescript")
      module == Attempt(r, text, "module")
      script == Attempt(r, text, "script")
  IN CASE context /\ typescript.type = "ok" -> typescript
       [] module.type = "ok" -> module
       [] script.type = "ok" -> script
       [] OTHER -> module

BuildSourceCode(r, text) ==
  CASE r.language = "ts" -> BuildTs(r, text)
    [] r.vue -> BuildVue(r, text)
    [] OTHER -> BuildJs(r, text)

NoAnswer == [type |-> "none"]

ErrorMiddleware(error) == error

Output(r, text, built) == [type |-> "output", content |-> text, linter |-> r.linterId]

(***************************************************************************)
(* analyzeFile: a rule may throw, with or without the TypeScript compiler   *)
(* on its stack.                                                           *)
(***************************************************************************)
AnalyzeFile(r, text, built) ==
  {Output(r, text, built),
   ErrorMiddleware(APIError("FAILING_TYPESCRIPT", "lint")),
   ErrorMiddleware(APIError("GENERAL_ERROR", "lint"))}

AnalyzeJSTS(r, text) ==
  IF r.linterId \notin linters
  THEN {ErrorMiddleware(APIError("LINTER_INITIALIZATION", "none"))}
  ELSE LET built == BuildSourceCode(r, text)
       IN IF built.type = "ok" THEN AnalyzeFile(r, text, built)
          ELSE {ErrorMiddleware(built)}

Init ==
  /\ context \in BOOLEAN
  /\ linters = {}
  /\ programs = TRUE
  /\ disk = "a"
  /\ outcome \in Outcomes
  /\ request \in Requests
  /\ content = request.fileContent
  /\ phase = "idle"
  /\ arrival = [linters |-> linters, disks |-> {}]
  /\ answer = NoAnswer

\* Handlers run between others and while one awaits, never within one.
InitializeLinter(l) ==
  /\ phase \in {"idle", "reading"}
  /\ l \notin linters
  /\ linters' = linters \cup {l}
  /\ UNCHANGED <<context, programs, disk, outcome, request, content, phase, arrival, answer>>

DeleteProgram ==
  /\ phase \in {"idle", "reading"} /\ programs
  /\ programs' = FALSE
  /\ UNCHANGED <<context, linters, disk, outcome, request, content, phase, arrival, answer>>

\* Somebody saves the file.
EditFile ==
  /\ phase \in {"idle", "reading", "ready"}
  /\ disk # "b"
  /\ disk' = "b"
  /\ arrival' = [arrival EXCEPT !.disks = IF phase = "idle" THEN {} ELSE @ \cup {"b"}]
  /\ UNCHANGED <<context, linters, programs, outcome, request, content, phase, answer>>

\* Mutant: the file is read although its content was sent.
RunnerAlwaysReads ==
  /\ phase = "idle"
  /\ arrival' = [linters |-> linters, disks |-> {disk}]
  /\ phase' = "reading"
  /\ UNCHANGED <<context, linters, programs, disk, outcome, request, content, answer>>

\* The request arrives.  An empty string is no content: the file is read.
Runner ==
  /\ phase = "idle"
  /\ arrival' = [linters |-> linters, disks |-> {disk}]
  /\ phase' = IF content \in {"none", "empty"} THEN "reading" ELSE "ready"
  /\ UNCHANGED <<context, linters, programs, disk, outcome, request, content, answer>>

\* The promise of the file's content resolves; the content replaces the input's.
ReadFile ==
  /\ phase = "reading"
  /\ content' = disk
  /\ phase' = "ready"
  /\ UNCHANGED <<context, linters, programs, disk, outcome, request, arrival, answer>>

\* Mutant: an error is not forwarded, and nobody answers.
RunnerUncaught ==
  /\ phase = "ready"
  /\ answer' \in AnalyzeJSTS(request, content)
  /\ phase' = IF answer'.type = "output" THEN "answered" ELSE "lost"
  /\ UNCHANGED <<context, linters, programs, disk, outcome, request, content, arrival>>

\* The analysis, in one go, and its answer.
Analyze ==
  /\ phase = "ready"
  /\ answer' \in AnalyzeJSTS(request, content)
  /\ phase' = "answered"
  /\ UNCHANGED <<context, linters, programs, disk, outcome, request, content, arrival>>

Finished == phase \notin {"idle", "reading", "ready"} /\ UNCHANGED vars

Next ==
  \/ \E l \in LinterIds : InitializeLinter(l)
  \/ DeleteProgram \/ EditFile
  \/ Runner \/ ReadFile \/ Analyze
  \/ Finished

\* The event loop runs what is ready, and file reads complete.
Fairness == WF_vars(Runner) /\ WF_vars(ReadFile) /\ WF_vars(Analyze)

Spec == Init /\ [][Next]_vars /\ Fairness

-----------------------------------------------------------------------------

(***************************************************************************)
(* The output is that of the content the request came with, or, without     *)
(* one, of something the file held after the request was received           *)
(* (runner.ts): never of an earlier version.                               *)
(***************************************************************************)
OutputOfTheFile ==
  (answer.type = "output") =>
    IF request.fileContent = "none" THEN answer.content \in arrival.disks
    ELSE answer.content = request.fileContent

(***************************************************************************)
(* A linter initialised before the request arrives is still there when the  *)
(* analysis gets to look it up, however many others are initialised while   *)
(* the file is read (getLinter).                                           *)
(***************************************************************************)
LinterIsKept ==
  (answer.type = "LINTER_INITIALIZATION") => request.linterId \notin arrival.linters

(***************************************************************************)
(* A JavaScript file is a parsing error only if no attempt could parse it,  *)
(* and then the error is that of parsing it as a module, even where the     *)
(* TypeScript compiler died (build-js.ts: a Debug Failure is not the end).  *)
(***************************************************************************)
JavaScriptErrorIsTheModules ==
  (phase = "answered" /\ request.language = "js" /\ answer.type \in {"PARSING", "FAILING_TYPESCRIPT"}) =>
    \/ answer.parser = "lint"
    \/ /\ answer.parser = "module" /\ answer.type = "PARSING"
       /\ (context => outcome.typescript # "ok")
       /\ (outcome.script = "ok" => request.vue)

\* While a handler awaits its file, others run: its answer is still about the
\* content, the linter and the parser it was asked for (runner.ts, build-js.ts).
AnalysisIsOfTheRequest == OutputOfTheFile /\ LinterIsKept /\ JavaScriptErrorIsTheModules

Asked == phase # "idle"
Answered == phase = "answered"

\* Every request that arrives is answered, whatever fails on the way.
EveryRequestIsAnswered == Asked ~> Answered

-----------------------------------------------------------------------------
(* The inductive invariant *)

BridgeType ==
  /\ context \in BOOLEAN /\ outcome \in Outcomes /\ request \in Requests
  /\ phase \in {"idle", "reading", "ready", "answered"}

\* The input as far as the handler got: its content is the one that was sent until
\* the file is read, and what is read is on disk since the request was received.
InputInv ==
  /\ phase \in {"idle", "reading"} => content = request.fileContent
  /\ phase = "reading" => content \in {"none", "empty"}
  /\ phase # "idle" => arrival.linters \subseteq linters
  /\ phase \in {"reading", "ready"} => disk \in arrival.disks
  /\ phase \in {"ready", "answered"} =>
       IF request.fileContent \in {"none", "empty"} THEN content \in arrival.disks
       ELSE content = request.fileContent

\* An answer is given at the end only, and speaks of the content that was parsed.
AnswerInv ==
  /\ phase # "answered" => answer = NoAnswer
  /\ answer.type = "output" => answer.content = content
  /\ answer.type = "LINTER_INITIALIZATION" => request.linterId \notin linters

RequestInvariant == BridgeType /\ InputInv /\ AnswerInv /\ JavaScriptErrorIsTheModules

-----------------------------------------------------------------------------
(* What an analysis can answer *)

\* What a parser returns or throws, by its outcome.
LEMMA ParserResults ==
  ASSUME outcome \in Outcomes, NEW text, NEW parser \in Parsers
  PROVE  LET result == ParseForESLint(text, parser)
         IN  /\ result.parser = parser /\ result.type \in {"ok", "FAILING_TYPESCRIPT", "PARSING"}
             /\ result.type # "ok" => outcome[parser] # "ok"
             /\ result.type = "ok" \/ parser = "typescript" \/ result.type = "PARSING"
             /\ text = "a" /\ outcome[parser] # "ok" => result.type # "ok"
<1>1. outcome[parser] \in {"ok", "syntax", "debug"} /\ (parser # "typescript" => outcome[parser] # "debug")
  BY DEF Outcomes, Parsers
<1>2. Outcome(text, parser) \in {"ok", outcome[parser]} /\ (text = "a" => Outcome(text, parser) = outcome[parser])
  BY DEF Outcome
<1>3. CASE Outcome(text, parser) = "ok"
  <2>1. ParseForESLint(text, parser) = Parsed(parser)
    BY <1>3 DEF ParseForESLint
  <2>2. Parsed(parser).type = "ok" /\ Parsed(parser).parser = parser
    BY DEF Parsed
  <2> QED
    BY <1>2, <1>3, <2>1, <2>2
<1>4. CASE Outcome(text, parser) = "debug"
  <2>1. ParseForESLint(text, parser) = APIError("FAILING_TYPESCRIPT", parser)
    BY <1>4 DEF ParseForESLint
  <2>2. APIError("FAILING_TYPESCRIPT", parser).type = "FAILING_TYPESCRIPT" /\ APIError("FAILING_TYPESCRIPT", parser).parser = parser
    BY DEF APIError
  <2>3. parser = "typescript" /\ outcome[parser] # "ok"
    BY <1>1, <1>2, <1>4
  <2> QED
    BY <2>1, <2>2, <2>3
<1>5. CASE Outcome(text, parser) = "syntax"
  <2>1. ParseForESLint(text, parser) = APIError("PARSING", parser)
    BY <1>5 DEF ParseForESLint
  <2>2. APIError("PARSING", parser).type = "PARSING" /\ APIError("PARSING", parser).parser = parser
    BY DEF APIError
  <2>3. outcome[parser] # "ok"
    BY <1>2, <1>5
  <2> QED
    BY <2>1, <2>2, <2>3
<1> QED
  BY <1>1, <1>2, <1>3, <1>4, <1>5

\* No program belongs to a request for a JavaScript file, so its attempts are the parser's.
LEMMA AttemptOfJs ==
  ASSUME request \in Requests, request.language = "js", NEW text, NEW parser
  PROVE  Attempt(request, text, parser) = ParseForESLint(text, parser)
  BY DEF Requests, Attempt

\* An error of the parsers on a JavaScript file is that of the module parser.
LEMMA ErrorOfBuild ==
  ASSUME BridgeType, request.language = "js", NEW text, BuildSourceCode(request, text).type # "ok"
  PROVE  /\ BuildSourceCode(request, text).type = "PARSING"
         /\ BuildSourceCode(request, text).parser = "module"
         /\ context => outcome.typescript # "ok"
         /\ outcome.script = "ok" => request.vue
<1> DEFINE typescript == ParseForESLint(text, "typescript")
           module == ParseForESLint(text, "module")
           script == ParseForESLint(text, "script")
<1>1. /\ typescript.type # "ok" => outcome.typescript # "ok"
      /\ module.parser = "module" /\ (module.type = "ok" \/ module.type = "PARSING")
      /\ script.type # "ok" => outcome.script # "ok"
  BY ParserResults DEF BridgeType, Parsers
<1>2. /\ Attempt(request, text, "typescript") = typescript
      /\ Attempt(request, text, "module") = module
      /\ Attempt(request, text, "script") = script
  BY AttemptOfJs DEF BridgeType
<1> HIDE DEF typescript, module, script
<1>3. CASE request.vue
  <2>1. BuildSourceCode(request, text) = IF context /\ typescript.type = "ok" THEN typescript ELSE module
    BY <1>2, <1>3 DEF BuildSourceCode, BuildVue
  <2> QED
    BY <1>1, <1>3, <2>1
<1>4. CASE ~request.vue
  <2>1. BuildSourceCode(request, text) = BuildJs(request, text)
    BY <1>4 DEF BuildSourceCode
  <2>2. BuildJs(request, text) = CASE context /\ typescript.type = "ok" -> typescript
                                   [] module.type = "ok" -> module
                                   [] script.type = "ok" -> script
                                   [] OTHER -> module
    BY <1>2 DEF BuildJs
  <2>3. ~(context /\ typescript.type = "ok") /\ module.type # "ok" /\ script.type # "ok" /\ BuildJs(request, text) = module
    BY <2>1, <2>2
  <2> QED
    BY <1>1, <2>1, <2>3
<1> QED
  BY <1>3, <1>4

\* The answers, by kind.
LEMMA AnswerFacts ==
  ASSUME BridgeType, NEW text, NEW a \in AnalyzeJSTS(request, text)
  PROVE  /\ a.type = "output" => a.content = text
         /\ a.type = "LINTER_INITIALIZATION" => request.linterId \notin linters
         /\ (request.language = "js" /\ a.type \in {"PARSING", "FAILING_TYPESCRIPT"}) =>
              \/ a.parser = "lint"
              \/ /\ a.parser = "module" /\ a.type = "PARSING"
                 /\ (context => outcome.typescript # "ok")
                 /\ (outcome.script = "ok" => request.vue)
<1> DEFINE built == BuildSourceCode(request, text)
<1>e. ASSUME NEW code, NEW parser
      PROVE  ErrorMiddleware(APIError(code, parser)).type = code /\ ErrorMiddleware(APIError(code, parser)).parser = parser
  BY DEF ErrorMiddleware, APIError
<1>1. CASE request.linterId \notin linters
  <2>1. a = ErrorMiddleware(APIError("LINTER_INITIALIZATION", "none"))
    BY <1>1 DEF AnalyzeJSTS
  <2>2. a.type = "LINTER_INITIALIZATION"
    BY <2>1, <1>e
  <2> QED
    BY <1>1, <2>2
<1>2. CASE request.linterId \in linters /\ built.type = "ok"
  <2>1. a \in AnalyzeFile(request, text, built)
    BY <1>2 DEF AnalyzeJSTS
  <2>2. CASE a = Output(request, text, built)
    BY <2>2 DEF Output
  <2>3. CASE a = ErrorMiddleware(APIError("FAILING_TYPESCRIPT", "lint"))
    <3>1. a.type = "FAILING_TYPESCRIPT" /\ a.parser = "lint"
      BY <2>3, <1>e
    <3> QED
      BY <3>1
  <2>4. CASE a = ErrorMiddleware(APIError("GENERAL_ERROR", "lint"))
    <3>1. a.type = "GENERAL_ERROR"
      BY <2>4, <1>e
    <3> QED
      BY <3>1
  <2> QED
    BY <2>1, <2>2, <2>3, <2>4 DEF AnalyzeFile
<1>3. CASE request.linterId \in linters /\ built.type # "ok"
  <2>1. a = built
    BY <1>3 DEF AnalyzeJSTS, ErrorMiddleware
  <2>2. built.type \in {"PARSING", "FAILING_TYPESCRIPT", "GENERAL_ERROR"}
    <3>1. \A parser \in Parsers : Attempt(request, text, parser).type \in {"ok", "PARSING", "FAILING_TYPESCRIPT", "GENERAL_ERROR"}
      BY ParserResults DEF BridgeType, Attempt, UnexpectedError, APIError
    <3>2. \E parser \in Parsers : built = Attempt(request, text, parser)
      BY DEF BuildSourceCode, BuildTs, BuildVue, BuildJs, Parsers
    <3> QED
      BY <1>3, <3>1, <3>2
  <2>3. request.language = "js" => /\ built.type = "PARSING" /\ built.parser = "module"
                                   /\ context => outcome.typescript # "ok"
                                   /\ outcome.script = "ok" => request.vue
    BY <1>3, ErrorOfBuild
  <2> QED
    BY <2>1, <2>2, <2>3
<1> QED
  BY <1>1, <1>2, <1>3

-----------------------------------------------------------------------------
(***************************************************************************)
(* The inductive invariant holds, whatever other handlers and the editor of  *)
(* the file do while the request waits for it.                              *)
(***************************************************************************)
THEOREM RequestInvariantHolds == Spec => []RequestInvariant
<1>1. ASSUME Init PROVE RequestInvariant
  <2>1. BridgeType
    BY <1>1 DEF Init, BridgeType
  <2>2. InputInv
    BY <1>1 DEF Init, InputInv
  <2>3. answer.type = "none" /\ phase = "idle" /\ answer = NoAnswer
    BY <1>1 DEF Init, NoAnswer
  <2> QED
    BY <2>1, <2>2, <2>3 DEF RequestInvariant, AnswerInv, JavaScriptErrorIsTheModules
<1>2. ASSUME RequestInvariant, [Next]_vars PROVE RequestInvariant'
  <2>t. BridgeType /\ InputInv /\ AnswerInv /\ JavaScriptErrorIsTheModules
    BY <1>2 DEF RequestInvariant
  <2>n. NoAnswer.type = "none"
    BY DEF NoAnswer
  <2>q. ASSUME phase # "answered", UNCHANGED answer, phase' # "answered"
        PROVE  AnswerInv' /\ JavaScriptErrorIsTheModules'
    <3>1. answer' = NoAnswer /\ answer'.type = "none"
      BY <2>q, <2>t, <2>n DEF AnswerInv
    <3> QED
      BY <2>q, <3>1 DEF AnswerInv, JavaScriptErrorIsTheModules
  <2>1. ASSUME NEW l \in LinterIds, InitializeLinter(l) PROVE RequestInvariant'
    <3>1. BridgeType' /\ InputInv'
      BY <2>1, <2>t DEF InitializeLinter, BridgeType, InputInv
    <3>2. AnswerInv' /\ JavaScriptErrorIsTheModules'
      BY <2>1, <2>q DEF InitializeLinter
    <3> QED
      BY <3>1, <3>2 DEF RequestInvariant
  <2>2. CASE DeleteProgram
    <3>1. BridgeType' /\ InputInv'
      BY <2>2, <2>t DEF DeleteProgram, BridgeType, InputInv
    <3>2. AnswerInv' /\ JavaScriptErrorIsTheModules'
      BY <2>2, <2>q DEF DeleteProgram
    <3> QED
      BY <3>1, <3>2 DEF RequestInvariant
  <2>3. CASE EditFile
    <3>1. BridgeType'
      BY <2>3, <2>t DEF EditFile, BridgeType
    <3>2. InputInv'
      BY <2>3, <2>t DEF EditFile, InputInv
    <3>3. AnswerInv' /\ JavaScriptErrorIsTheModules'
      BY <2>3, <2>q DEF EditFile
    <3> QED
      BY <3>1, <3>2, <3>3 DEF RequestInvariant
  <2>4. CASE Runner
    <3>1. BridgeType'
      BY <2>4, <2>t DEF Runner, BridgeType
    <3>2. arrival'.linters = linters /\ arrival'.disks = {disk} /\ phase' \in {"reading", "ready"}
      BY <2>4 DEF Runner
    <3>3. InputInv'
      BY <2>4, <2>t, <3>2 DEF Runner, InputInv
    <3>4. AnswerInv' /\ JavaScriptErrorIsTheModules'
      BY <2>4, <2>q, <3>2 DEF Runner
    <3> QED
      BY <3>1, <3>3, <3>4 DEF RequestInvariant
  <2>5. CASE ReadFile
    <3>1. BridgeType' /\ InputInv'
      BY <2>5, <2>t DEF ReadFile, BridgeType, InputInv
    <3>2. AnswerInv' /\ JavaScriptErrorIsTheModules'
      BY <2>5, <2>q DEF ReadFile
    <3> QED
      BY <3>1, <3>2 DEF RequestInvariant
  <2>6. CASE Analyze
    <3>1. BridgeType' /\ InputInv'
      BY <2>6, <2>t DEF Analyze, BridgeType, InputInv
    <3>2. answer' \in AnalyzeJSTS(request, content)
      BY <2>6 DEF Analyze
    <3>3. /\ answer'.type = "output" => answer'.content = content
          /\ answer'.type = "LINTER_INITIALIZATION" => request.linterId \notin linters
          /\ (request.language = "js" /\ answer'.type \in {"PARSING", "FAILING_TYPESCRIPT"}) =>
               \/ answer'.parser = "lint"
               \/ /\ answer'.parser = "module" /\ answer'.type = "PARSING"
                  /\ (context => outcome.typescript # "ok")
                  /\ (outcome.script = "ok" => request.vue)
      BY <3>2, <2>t, AnswerFacts
    <3>4. AnswerInv' /\ JavaScriptErrorIsTheModules'
      BY <2>6, <3>3 DEF Analyze, AnswerInv, JavaScriptErrorIsTheModules
    <3> QED
      BY <3>1, <3>4 DEF RequestInvariant
  <2>7. CASE UNCHANGED vars
    BY <2>7, <2>t DEF vars, RequestInvariant, BridgeType, InputInv, AnswerInv, JavaScriptErrorIsTheModules
  <2> QED
    BY <1>2, <2>1, <2>2, <2>3, <2>4, <2>5, <2>6, <2>7 DEF Next, Finished
<1> QED
  BY <1>1, <1>2, PTL DEF Spec

(***************************************************************************)
(* A request that carries content is answered for that content, and one that *)
(* does not for something the file held since it was received (readFile in   *)
(* runner.ts).  An empty string is sent by no sensor: the bridge takes it    *)
(* for a request without content and reads the file.                        *)
(***************************************************************************)
THEOREM OutputOfTheFileHolds == ASSUME "empty" \notin SentContents PROVE Spec => []OutputOfTheFile
<1>1. ASSUME RequestInvariant PROVE OutputOfTheFile
  <2>1. request.fileContent # "empty" /\ (answer.type = "output" => phase = "answered" /\ answer.content = content)
    <3>1. NoAnswer.type = "none"
      BY DEF NoAnswer
    <3>2. request.fileContent \in SentContents
      BY <1>1 DEF RequestInvariant, BridgeType, Requests
    <3> QED
      BY <1>1, <3>1, <3>2 DEF RequestInvariant, AnswerInv
  <2> QED
    BY <1>1, <2>1 DEF RequestInvariant, InputInv, OutputOfTheFile
<1> QED
  BY <1>1, RequestInvariantHolds, PTL

(***************************************************************************)
(* For any number of linters, a linter that was there when a request came is *)
(* found when the request is analyzed (initializeLinter, getLinter).        *)
(***************************************************************************)
THEOREM LinterIsKeptHolds == Spec => []LinterIsKept
<1>1. ASSUME RequestInvariant PROVE LinterIsKept
  <2>1. NoAnswer.type = "none"
    BY DEF NoAnswer
  <2>2. answer.type = "LINTER_INITIALIZATION" => phase = "answered" /\ request.linterId \notin linters
    BY <1>1, <2>1 DEF RequestInvariant, AnswerInv
  <2> QED
    BY <1>1, <2>2 DEF RequestInvariant, InputInv, LinterIsKept
<1> QED
  BY <1>1, RequestInvariantHolds, PTL

(***************************************************************************)
(* For every outcome of the three parsers: the error of a JavaScript file is *)
(* that of the module parser, and only if no attempt succeeded (buildJs,    *)
(* buildVue).                                                              *)
(***************************************************************************)
THEOREM JavaScriptErrorHolds == Spec => []JavaScriptErrorIsTheModules
<1>1. RequestInvariant => JavaScriptErrorIsTheModules
  BY DEF RequestInvariant
<1> QED
  BY <1>1, RequestInvariantHolds, PTL

(***************************************************************************)
(* For any linters, contents and outcomes of the parsers: an answer is about *)
(* the content, the linter and the parser of its request, for the contents   *)
(* that sensors send (runner.ts, build-js.ts).                              *)
(***************************************************************************)
THEOREM AnalysisIsOfTheRequestHolds == ASSUME "empty" \notin SentContents PROVE Spec => []AnalysisIsOfTheRequest
<1>1. OutputOfTheFile /\ LinterIsKept /\ JavaScriptErrorIsTheModules => AnalysisIsOfTheRequest
  BY DEF AnalysisIsOfTheRequest
<1> QED
  BY <1>1, OutputOfTheFileHolds, LinterIsKeptHolds, JavaScriptErrorHolds, PTL

=============================================================================
