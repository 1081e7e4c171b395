------------------------- MODULE TypeScriptAnalysis -------------------------
(***************************************************************************)
(* How the TypeScript sensor finds and analyzes its files.  It works       *)
(* through a list of tsconfig.json files and the projects they refer to,   *)
(* either with one TypeScript program per tsconfig (AnalysisWithProgram),  *)
(* kept in the bridge by its identifier, or, for Vue files and in          *)
(* SonarLint, with the tsconfigs alone (TypeScriptSensor), whose programs  *)
(* the parser of the bridge caches.  The bridge outlives an analysis: the  *)
(* sensor runs once for each module of the analyzed project.               *)
(***************************************************************************)
EXTENDS Naturals, Sequences, FiniteSets, TLC

CONSTANTS
    Configs,    \* tsconfig.json files
    Files,      \* source files
    Projects,   \* the projects the first analysis may meet
    Later,      \* the projects the others may meet
    MaxRuns,    \* bound on the number of analyses
    None,       \* no program, no tsconfig
    c1, c2, c3, \* members of Configs, for the projects of the last section
    f1, f2, f3  \* and of Files

Styles == {"native", "typescript"}

\* A path of a tsconfig: the file, and whether the path is spelled as the
\* operating system does or as TypeScript does (they differ on Windows).
Path == [config : Configs, style : Styles]

\* A project: the configured tsconfigs, the references and the files of each
\* tsconfig, the tsconfigs TypeScript fails on, the TypeScript input files, how
\* TypeScript spells references, and whether analysis uses programs.
Project == [roots : Seq(Configs),
            references : [Configs -> Seq(Configs)],
            contains : [Configs -> SUBSET Files],
            broken : SUBSET Configs,
            inputFiles : SUBSET Files,
            style : Styles,
            withProgram : BOOLEAN]

ASSUME ConstantsAssumption ==
    /\ Later \subseteq Projects /\ Projects \subseteq Project
    /\ MaxRuns \in Nat
    /\ None \notin Nat \cup Configs \cup Project

VARIABLES
    pc,         \* where the sensor is
    project,    \* the project under analysis
    workList,   \* paths of tsconfigs to visit
    seen,       \* analyzedProjects, or processed: the paths visited
    loaded,     \* the tsconfigs loaded without error, in order
    todo,       \* files left of the current program or tsconfig
    current,    \* the current program of the sensor, or its current tsconfig
    analyzed,   \* the files analyzed in this run
    with,       \* the tsconfigs each file was analyzed with
    programs,   \* bridge: the programs by identifier
    programCount, \* bridge: the number of programs created
    parserCache,  \* bridge: the tsconfigs whose program the parser caches
    failures,   \* the number of analyses that failed
    runs        \* the number of analyses begun

sensorVars == <<pc, project, workList, seen, loaded, todo, current, analyzed, with>>
bridgeVars == <<programs, programCount, parserCache>>
historyVars == <<failures, runs>>
vars == <<pc, project, workList, seen, loaded, todo, current, analyzed, with,
          programs, programCount, parserCache, failures, runs>>

EmptyMap == [i \in {} |-> None]

\* What a sensor holds before its analysis.
Blank ==
    /\ project = None
    /\ workList = <<>>
    /\ seen = {}
    /\ loaded = <<>>
    /\ todo = {}
    /\ current = None
    /\ analyzed = {}
    /\ with = [f \in Files |-> <<>>]

Init ==
    /\ pc = "idle"
    /\ Blank
    /\ programs = EmptyMap
    /\ programCount = 0
    /\ parserCache = {}
    /\ failures = 0
    /\ runs = 0

-----------------------------------------------------------------------------

\* Path.of in AnalysisWithProgram: the spelling of the operating system.
Normalized(path) == [path EXCEPT !.style = "native"]

\* The path as it enters the set of visited ones.
Visited(path) == IF project.withProgram THEN Normalized(path) ELSE path

\* The references of a tsconfig, as TypeScript spells them.
ProjectReferences(c) ==
    [i \in DOMAIN project.references[c] |->
        [config |-> project.references[c][i], style |-> project.style]]

\* Mutant: the last one wins.
LastMatch(f) ==
    LET matches == {i \in DOMAIN loaded : f \in project.contains[loaded[i]]}
    IN IF matches = {} THEN None
       ELSE loaded[CHOOSE i \in matches : \A j \in matches : i >= j]

\* The first loaded tsconfig that contains the file.
FirstMatch(f) ==
    LET matches == {i \in DOMAIN loaded : f \in project.contains[loaded[i]]}
    IN IF matches = {} THEN None
       ELSE loaded[CHOOSE i \in matches : \A j \in matches : i <= j]

\* The sensor is called for a module; analyzeFiles has its tsconfigs.
StartAnalysis ==
    /\ pc = "idle"
    /\ runs < MaxRuns
    /\ runs' = runs + 1
    /\ project' \in IF runs = 0 THEN Projects ELSE Later
    /\ workList' = [i \in DOMAIN project'.roots |->
                       [config |-> project'.roots[i], style |-> "native"]]
    /\ pc' = "load"
    /\ UNCHANGED <<seen, loaded, todo, current, analyzed, with, bridgeVars, failures>>

\* The sensor is done with the module, one way or another.
Leave(p) ==
    /\ pc' = p
    /\ project' = None
    /\ workList' = <<>>
    /\ seen' = {}
    /\ loaded' = <<>>
    /\ todo' = {}
    /\ current' = None
    /\ analyzed' = {}
    /\ with' = [f \in Files |-> <<>>]
    /\ UNCHANGED runs

\* Mutant: a tsconfig that was visited stays on the list.
SkipConfigKeepingIt ==
    /\ pc = "load" /\ workList # <<>>
    /\ Visited(Head(workList)) \in seen
    /\ UNCHANGED vars

\* A tsconfig that was visited is skipped.
SkipConfig ==
    /\ pc = "load" /\ workList # <<>>
    /\ Visited(Head(workList)) \in seen
    /\ workList' = Tail(workList)
    /\ UNCHANGED <<pc, project, seen, loaded, todo, current, analyzed, with,
                   bridgeVars, historyVars>>

\* A new tsconfig is taken from the list.
Visit(path) ==
    /\ pc = "load" /\ workList # <<>>
    /\ path = Visited(Head(workList))
    /\ path \notin seen
    /\ seen' = seen \cup {path}

\* createProgram, or loadTsConfig, reports an error: the tsconfig has no files and
\* no references.
ConfigError ==
    /\ \E path \in Path : Visit(path) /\ path.config \in project.broken
    /\ workList' = Tail(workList)
    /\ UNCHANGED <<pc, project, loaded, todo, current, analyzed, with,
                   bridgeVars, historyVars>>

\* Mutant: an identifier is given again after a deletion.
AddProgramReusing(c) ==
    /\ programCount' = Cardinality(DOMAIN programs) + 1
    /\ programs' = [i \in DOMAIN programs \cup {programCount + 1} |->
                       IF i \in DOMAIN programs THEN programs[i] ELSE c]

\* A program is created in the bridge.
AddProgram(c) ==
    /\ programCount' = programCount + 1
    /\ programs' = [i \in DOMAIN programs \cup {programCount + 1} |->
                       IF i \in DOMAIN programs THEN programs[i] ELSE c]

\* createProgram: the sensor turns to the files of the new program.
CreateProgram ==
    /\ pc = "load" /\ project.withProgram
    /\ \E path \in Path :
          /\ Visit(path)
          /\ path.config \notin project.broken
          /\ AddProgram(path.config)
          /\ loaded' = Append(loaded, path.config)
          /\ todo' = project.contains[path.config]
    /\ current' = programCount + 1
    /\ workList' = Tail(workList)
    /\ pc' = "files"
    /\ UNCHANGED <<project, analyzed, with, parserCache, historyVars>>

\* loadTsConfigs: the references are added at once.
LoadTsConfig ==
    /\ pc = "load" /\ ~project.withProgram
    /\ \E path \in Path :
          /\ Visit(path)
          /\ path.config \notin project.broken
          /\ loaded' = Append(loaded, path.config)
          /\ workList' = Tail(workList) \o ProjectReferences(path.config)
    /\ UNCHANGED <<pc, project, todo, current, analyzed, with, bridgeVars, historyVars>>

\* analyzeProgram: a file that is no input file, or was analyzed with an earlier
\* program, is passed over.
PassOver(f) ==
    /\ pc = "files" /\ project.withProgram
    /\ f \in todo
    /\ f \notin project.inputFiles \/ f \in analyzed
    /\ todo' = todo \ {f}
    /\ UNCHANGED <<pc, project, workList, seen, loaded, current, analyzed, with,
                   bridgeVars, historyVars>>

\* getProgramById throws if the bridge does not have the program.
HasProgram == current \in DOMAIN programs

\* Mutant: a file of several programs is analyzed with each of them.
AnalyzeAgain(f) ==
    /\ pc = "files" /\ project.withProgram
    /\ f \in todo
    /\ f \in project.inputFiles
    /\ HasProgram
    /\ analyzed' = analyzed \cup {f}
    /\ with' = [with EXCEPT ![f] = Append(@, programs[current])]
    /\ todo' = todo \ {f}
    /\ UNCHANGED <<pc, project, workList, seen, loaded, current, bridgeVars, historyVars>>

\* The analysis of a file, in the bridge or from the cache.
AnalyzeWithProgram(f) ==
    /\ pc = "files" /\ project.withProgram
    /\ f \in todo
    /\ f \in project.inputFiles \ analyzed
    /\ HasProgram
    /\ analyzed' = analyzed \cup {f}
    /\ with' = [with EXCEPT ![f] = Append(@, programs[current])]
    /\ todo' = todo \ {f}
    /\ UNCHANGED <<pc, project, workList, seen, loaded, current, bridgeVars, historyVars>>

\* Mutant: the program stays in the bridge.
DeleteProgramNot ==
    /\ pc = "files" /\ project.withProgram
    /\ todo = {}
    /\ workList' = workList \o ProjectReferences(loaded[Len(loaded)])
    /\ current' = None
    /\ pc' = "load"
    /\ UNCHANGED <<project, seen, loaded, todo, analyzed, with, bridgeVars, historyVars>>

\* The references of the program are added, and the program is deleted.
DeleteProgram ==
    /\ pc = "files" /\ project.withProgram
    /\ todo = {}
    /\ workList' = workList \o ProjectReferences(loaded[Len(loaded)])
    /\ programs' = [i \in DOMAIN programs \ {current} |-> programs[i]]
    /\ current' = None
    /\ pc' = "load"
    /\ UNCHANGED <<project, seen, loaded, todo, analyzed, with, programCount, parserCache, historyVars>>

\* inputFilesByTsConfig: every input file goes to its first tsconfig.
Group(c) == {f \in project.inputFiles : FirstMatch(f) = c}

\* The sensor takes the files of the next tsconfig.
NextTsConfig(c) ==
    /\ pc = "load" /\ ~project.withProgram
    /\ workList = <<>>
    /\ Group(c) # {}
    /\ Group(c) \cap analyzed = {}
    /\ current' = c
    /\ todo' = Group(c)
    /\ pc' = "files"
    /\ UNCHANGED <<project, workList, seen, loaded, analyzed, with, bridgeVars, historyVars>>

AnalyzeWithTsConfig(f) ==
    /\ pc = "files" /\ ~project.withProgram
    /\ f \in todo
    /\ analyzed' = analyzed \cup {f}
    /\ with' = [with EXCEPT ![f] = Append(@, current)]
    /\ parserCache' = parserCache \cup {current}
    /\ todo' = todo \ {f}
    /\ UNCHANGED <<pc, project, workList, seen, loaded, current, programs, programCount, historyVars>>

\* The files of the tsconfig are done: newTsConfig clears the cache of the parser.
NewTsConfig ==
    /\ pc = "files" /\ ~project.withProgram
    /\ todo = {}
    /\ parserCache' = {}
    /\ current' = None
    /\ pc' = "load"
    /\ UNCHANGED <<project, workList, seen, loaded, todo, analyzed, with, programs, programCount, historyVars>>

\* Nothing is left: files in no tsconfig are reported as skipped.
Succeed ==
    /\ pc = "load" /\ workList = <<>>
    /\ project.withProgram \/ \A c \in Configs : Group(c) \subseteq analyzed
    /\ Leave("idle")
    /\ UNCHANGED <<bridgeVars, failures>>

\* The context is cancelled, or a request fails or times out; the bridge may or
\* may not have done what it was asked.  The exception leaves the loop without
\* deleting the program, and the sensor swallows it.
Fail ==
    /\ pc \in {"load", "files"}
    /\ \/ UNCHANGED bridgeVars
       \/ /\ project.withProgram
          /\ \E path \in Path : /\ pc = "load" /\ workList # <<>>
                                /\ path = Visited(Head(workList)) /\ path \notin seen
                                /\ path.config \notin project.broken
                                /\ AddProgram(path.config)
          /\ UNCHANGED parserCache
       \/ /\ project.withProgram /\ pc = "files" /\ todo = {}
          /\ programs' = [i \in DOMAIN programs \ {current} |-> programs[i]]
          /\ UNCHANGED <<programCount, parserCache>>
       \/ /\ ~project.withProgram /\ pc = "files"
          /\ parserCache' = parserCache \cup (IF todo = {} THEN {} ELSE {current})
          /\ UNCHANGED <<programs, programCount>>
    /\ failures' = failures + 1
    /\ Leave("failed")

\* The sensor is called for the next module.
Recover ==
    /\ pc = "failed"
    /\ pc' = "idle"
    /\ UNCHANGED <<project, workList, seen, loaded, todo, current, analyzed, with,
                   bridgeVars, historyVars>>

Work ==
    \/ SkipConfig \/ ConfigError
    \/ CreateProgram \/ DeleteProgram
    \/ LoadTsConfig \/ NewTsConfig
    \/ \E f \in Files : PassOver(f) \/ AnalyzeWithProgram(f) \/ AnalyzeWithTsConfig(f)
    \/ \E c \in Configs : NextTsConfig(c)
    \/ Succeed

Next == StartAnalysis \/ Work \/ Fail \/ Recover

Spec == Init /\ [][Next]_vars

\* A sensor that runs goes on until it is done.
FairSpec == Spec /\ WF_vars(Work)

-----------------------------------------------------------------------------
(* Properties *)

Running == pc \in {"load", "files"}

\* Every variable has its type; a project is held exactly while the sensor runs, and
\* the bridge has no program whose identifier it has not given out.
TypeOK ==
    /\ pc \in {"idle", "load", "files", "failed"}
    /\ project = None \/ project \in Project
    /\ (project # None) = Running
    /\ workList \in Seq(Path)
    /\ seen \subseteq Path
    /\ loaded \in Seq(Configs)
    /\ todo \subseteq Files
    /\ current \in Nat \cup Configs \cup {None}
    /\ analyzed \subseteq Files
    /\ with \in [Files -> Seq(Configs)]
    /\ programCount \in Nat
    /\ DOMAIN programs \subseteq 1..programCount
    /\ \A i \in DOMAIN programs : programs[i] \in Configs
    /\ parserCache \subseteq Configs
    /\ failures \in Nat
    /\ runs \in 0..MaxRuns

\* The tsconfigs that the configured ones lead to.  References of a tsconfig that
\* TypeScript fails on are not followed.
Closed(S) ==
    /\ \A i \in DOMAIN project.roots : project.roots[i] \in S
    /\ \A c \in S \ project.broken :
          \A i \in DOMAIN project.references[c] : project.references[c][i] \in S

Reachable == {c \in Configs : \A S \in SUBSET Configs : Closed(S) => c \in S}

\* The input files that an analysis has to reach.
Wanted == {f \in project.inputFiles :
              \E c \in Reachable \ project.broken : f \in project.contains[c]}

Abstract == INSTANCE AnalyzeOnce WITH
    phase <- CASE pc = "idle" -> "idle" [] pc = "failed" -> "aborted" [] OTHER -> "running",
    wanted <- IF Running THEN Wanted ELSE {},
    analyses <- [f \in Files |-> Len(with[f])]

\* With programs and with tsconfigs alone, an analysis that succeeds has analyzed
\* every input file of every reachable tsconfig exactly once, although tsconfigs
\* overlap, refer to each other in circles and partly fail.
AnalyzesOnce == Abstract!Spec

\* A file in several tsconfigs is analyzed with the one that is reached first, in
\* analyzeProgram (first program wins) as in inputFilesByTsConfig (findFirst).
FirstConfigWins ==
    \A f \in Files, i \in DOMAIN loaded :
        with[f] # <<>> /\ f \in project.contains[loaded[i]] =>
            \E j \in 1..i : with[f][1] = loaded[j]

\* AnalysisWithProgram creates one program per tsconfig, however the references
\* to it are spelled ("Otherwise, project references returned by typescript may
\* not match system slash").
OneProgramPerConfig ==
    (Running /\ project.withProgram) =>
        \A i, j \in DOMAIN loaded : loaded[i] = loaded[j] => i = j

\* A request names a program that the bridge has, and it is the program of the
\* tsconfig at hand: getProgramById never throws, not after failures either.
ProgramIsThere ==
    (pc = "files" /\ project.withProgram) =>
        HasProgram /\ programs[current] = loaded[Len(loaded)]

\* The bridge keeps a program beyond its use only for an analysis that failed:
\* its memory holds one program at a time otherwise.
LeaksOnlyOnFailure ==
    Cardinality(DOMAIN programs) <=
        failures + (IF pc = "files" /\ project.withProgram THEN 1 ELSE 0)

\* The parser's cache is cleared between tsconfigs (newTsConfig), so that files are
\* not analyzed with more than one cached tsconfig unless an analysis failed.
CacheOfOneConfig ==
    Cardinality(parserCache) <= failures + 1

\* What the bridge holds for an analysis is what the analysis uses: one program for
\* a tsconfig, there while its files are analyzed and gone after them, and one
\* cached tsconfig, but for what analyses that failed left behind.
BridgeHoldsWhatIsUsed ==
    /\ OneProgramPerConfig
    /\ ProgramIsThere
    /\ LeaksOnlyOnFailure
    /\ CacheOfOneConfig

\* An analysis comes to an end, circular references included.
AnalysisEnds == (pc = "load") ~> (pc \in {"idle", "failed"})

-----------------------------------------------------------------------------
(* Projects of three tsconfigs and three files *)

\* One reference at most, or none; c1 may refer to both others.
ShortReferences == {<<>>, <<c1>>, <<c2>>, <<c3>>}

\* Projects with all reference graphs of that shape; f3 is no input file.
AllProjects ==
    {[roots |-> r,
      references |-> (c1 :> a @@ c2 :> b @@ c3 :> c),
      contains |-> (c1 :> x @@ c2 :> y @@ c3 :> {f2, f3}),
      broken |-> k,
      inputFiles |-> {f1, f2},
      style |-> s,
      withProgram |-> w] :
        r \in {<<c1>>, <<c2, c1>>},
        a \in ShortReferences \cup {<<c2, c3>>}, b \in ShortReferences, c \in ShortReferences,
        x \in {{}, {f1, f2}}, y \in {{f1}, {f2}},
        k \in {{}, {c2}},
        s \in Styles, w \in BOOLEAN}

\* A few projects for several analyses in a row.
FewProjects ==
    {p \in AllProjects :
        /\ p.roots = <<c1>>
        /\ p.references[c1] = <<c2, c3>>
        /\ p.references[c2] = <<c1>>
        /\ p.references[c3] = <<>>
        /\ p.contains[c2] = {f1}
        /\ p.style = "typescript"}

=============================================================================
