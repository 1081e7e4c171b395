---------------------- MODULE TypeScriptAnalysisProofs ----------------------
(* Proofs about TypeScriptAnalysis, for any projects and any number of        *)
(* analyses: what the bridge holds, which tsconfig a file is analyzed with,   *)
(* and that every file that can be reached is analyzed exactly once.          *)
EXTENDS TypeScriptAnalysis, FiniteSetTheorems, WellFoundedInduction, TLAPS

-----------------------------------------------------------------------------
(* The inductive invariant *)

\* A sensor that does not run holds nothing.
IdleInv == ~Running => Blank

\* Files are analyzed once a tsconfig is loaded, and without programs the sensor
\* holds the tsconfig itself.
HeldInv == pc = "files" => /\ loaded # <<>>
                           /\ ~project.withProgram => current \in Configs

\* With programs, every tsconfig that was loaded was noted as visited under the
\* one spelling that Path.of gives it, and only once.
LoadedOnceInv ==
    Running /\ project.withProgram =>
        /\ \A i \in DOMAIN loaded : [config |-> loaded[i], style |-> "native"] \in seen
        /\ OneProgramPerConfig

\* The programs of the bridge that no analysis uses, and the tsconfigs of the
\* parser's cache other than the current one, are left from failures.
LeftoverInv ==
    /\ LeaksOnlyOnFailure
    /\ IsFiniteSet(parserCache)
    /\ IF pc = "files" /\ ~project.withProgram
       THEN Cardinality(parserCache \ {current}) <= failures
       ELSE Cardinality(parserCache) <= failures

BridgeInv == LoadedOnceInv /\ ProgramIsThere /\ LeftoverInv

\* The tsconfigs of the paths of a list.
ConfigsOf(paths) == {paths[i].config : i \in DOMAIN paths}

\* The tsconfigs that were visited or are still on the list.
Noted == {p.config : p \in seen} \cup ConfigsOf(workList)

\* The tsconfigs a tsconfig refers to.
References(c) == {project.references[c][k] : k \in DOMAIN project.references[c]}

\* The tsconfig whose references are not on the list yet.
Unfollowed(i) == pc = "files" /\ project.withProgram /\ i = Len(loaded)

\* The walk over the tsconfigs stays among the reachable ones and forgets none:
\* what was visited was loaded unless it is broken, and what a loaded tsconfig
\* refers to was visited or is on the list.
WalkInv ==
    Running =>
        /\ ConfigsOf(workList) \subseteq Reachable
        /\ \A i \in DOMAIN loaded : loaded[i] \in Reachable \ project.broken
        /\ \A p \in seen : p.config \in project.broken \/ \E i \in DOMAIN loaded : loaded[i] = p.config
        /\ \A i \in DOMAIN project.roots : project.roots[i] \in Noted
        /\ \A i \in DOMAIN loaded : Unfollowed(i) \/ References(loaded[i]) \subseteq Noted

\* A file is analyzed at most once, with a tsconfig that was loaded, and only if it
\* is an input file.
OnceInv ==
    /\ \A f \in Files : IF f \in analyzed THEN Len(with[f]) = 1 ELSE with[f] = <<>>
    /\ \A f \in analyzed : \E j \in DOMAIN loaded : with[f][1] = loaded[j]
    /\ Running => analyzed \subseteq project.inputFiles

\* With programs: the input files of a tsconfig that was loaded are analyzed, or
\* still to be analyzed with the current program.
ProgramFilesInv ==
    Running /\ project.withProgram =>
        /\ \A i \in DOMAIN loaded :
              project.contains[loaded[i]] \cap project.inputFiles \subseteq
                  analyzed \cup (IF Unfollowed(i) THEN todo ELSE {})
        /\ pc = "files" => todo \subseteq project.contains[loaded[Len(loaded)]]

\* With tsconfigs alone: files are analyzed when all tsconfigs are loaded, each
\* with the first one that contains it.
TsConfigFilesInv ==
    Running /\ ~project.withProgram =>
        /\ pc = "files" \/ analyzed # {} => workList = <<>>
        /\ pc = "files" => /\ todo \subseteq Group(current)
                           /\ todo \cap analyzed = {}
        /\ \A f \in analyzed : with[f][1] = FirstMatch(f)

FilesInv == OnceInv /\ ProgramFilesInv /\ TsConfigFilesInv /\ FirstConfigWins

\* The inductive invariant.
AnalysisInvariant == TypeOK /\ HeldInv /\ IdleInv /\ BridgeInv /\ WalkInv /\ FilesInv

-----------------------------------------------------------------------------
(* Type correctness *)

\* Spelling a path in another way gives a path.
LEMMA VisitedType ==
    ASSUME NEW path \in Path
    PROVE  /\ Visited(path) \in Path
           /\ Visited(path).config = path.config
           /\ project.withProgram => Visited(path).style = "native"
  BY DEF Visited, Normalized, Path, Styles

\* The references of a tsconfig are paths.
LEMMA ReferencesType ==
    ASSUME project \in Project, NEW c \in Configs
    PROVE  /\ ProjectReferences(c) \in Seq(Path)
           /\ Len(ProjectReferences(c)) = Len(project.references[c])
           /\ \A i \in DOMAIN project.references[c] :
                 ProjectReferences(c)[i].config = project.references[c][i]
  <1>1. /\ project.references[c] \in Seq(Configs)
        /\ project.style \in Styles
    BY DEF Project
  <1>2. DOMAIN project.references[c] = 1..Len(project.references[c])
    BY <1>1
  <1>3. \A i \in 1..Len(project.references[c]) : project.references[c][i] \in Configs
    BY <1>1
  <1>4. QED
    BY <1>1, <1>2, <1>3 DEF ProjectReferences, Path

\* Creating a program keeps the map of programs within the identifiers given out.
LEMMA AddProgramType ==
    ASSUME TypeOK, NEW c \in Configs, AddProgram(c)
    PROVE  /\ programCount' \in Nat
           /\ DOMAIN programs' = DOMAIN programs \cup {programCount + 1}
           /\ DOMAIN programs' \subseteq 1..programCount'
           /\ \A i \in DOMAIN programs' : programs'[i] \in Configs
           /\ \A i \in DOMAIN programs : programs'[i] = programs[i]
           /\ programCount + 1 \notin DOMAIN programs
           /\ programs'[programCount + 1] = c
  BY DEF TypeOK, AddProgram

\* Every project that is analyzed is a project, and None is not.
LEMMA ProjectsAreProjects ==
    /\ Projects \subseteq Project
    /\ Later \subseteq Project
    /\ None \notin Project
  BY ConstantsAssumption

LEMMA InitType == Init => TypeOK /\ HeldInv
  BY ConstantsAssumption DEF Init, Blank, TypeOK, HeldInv, EmptyMap, Running

\* Leaving an analysis keeps the types of what belongs to it.
LEMMA LeaveType ==
    ASSUME TypeOK, NEW p \in {"idle", "failed"}, Leave(p),
           failures' \in Nat,
           programCount' \in Nat,
           DOMAIN programs' \subseteq 1..programCount',
           \A i \in DOMAIN programs' : programs'[i] \in Configs,
           parserCache' \subseteq Configs
    PROVE  TypeOK' /\ HeldInv'
  BY DEF TypeOK, HeldInv, Leave, Running

LEMMA StepType == TypeOK /\ HeldInv /\ [Next]_vars => TypeOK' /\ HeldInv'
  <1> SUFFICES ASSUME TypeOK, HeldInv, [Next]_vars
               PROVE  TypeOK' /\ HeldInv'
    OBVIOUS
  <1> USE DEF bridgeVars, historyVars
  <1>r. Running => /\ project \in Project
                   /\ \A c \in Configs : project.contains[c] \subseteq Files
                   /\ project.inputFiles \subseteq Files
    BY DEF TypeOK, Project
  <1>w. workList # <<>> => /\ Head(workList) \in Path
                           /\ Tail(workList) \in Seq(Path)
    BY DEF TypeOK
  <1>1. CASE StartAnalysis
    <2>1. project' \in Project
      BY <1>1, ProjectsAreProjects DEF StartAnalysis
    <2>2. project'.roots \in Seq(Configs)
      BY <2>1 DEF Project
    <2>3. workList' \in Seq(Path)
      <3>1. /\ DOMAIN project'.roots = 1..Len(project'.roots)
            /\ Len(project'.roots) \in Nat
            /\ \A i \in 1..Len(project'.roots) : project'.roots[i] \in Configs
        BY <2>2
      <3> QED
        BY <1>1, <3>1 DEF StartAnalysis, Path, Styles
    <2>4. runs' \in 0..MaxRuns
      BY <1>1, ConstantsAssumption DEF StartAnalysis, TypeOK
    <2>5. project' # None /\ pc' = "load"
      BY <1>1, <2>1, ProjectsAreProjects DEF StartAnalysis
    <2> QED
      BY <1>1, <2>1, <2>3, <2>4, <2>5 DEF StartAnalysis, TypeOK, HeldInv, Running
  <1>2. CASE SkipConfig
    BY <1>2, <1>w DEF SkipConfig, TypeOK, HeldInv, Running
  <1>3. CASE ConfigError
    BY <1>3, <1>w DEF ConfigError, Visit, TypeOK, HeldInv, Running
  <1>4. CASE CreateProgram
    <2>1. PICK path \in Path : /\ Visit(path)
                               /\ AddProgram(path.config)
                               /\ loaded' = Append(loaded, path.config)
                               /\ todo' = project.contains[path.config]
      BY <1>4 DEF CreateProgram
    <2>2. path.config \in Configs
      BY DEF Path
    <2>a. Running
      BY <1>4 DEF CreateProgram, Running
    <2>b. loaded' \in Seq(Configs) /\ loaded' # <<>>
      BY <2>1, <2>2 DEF TypeOK
    <2>3. todo' \subseteq Files
      BY <2>1, <2>2, <2>a, <1>r
    <2>4. /\ programCount' \in Nat
          /\ DOMAIN programs' \subseteq 1..programCount'
          /\ \A i \in DOMAIN programs' : programs'[i] \in Configs
      BY <2>1, <2>2, AddProgramType
    <2>5. seen' \subseteq Path /\ workList' \in Seq(Path)
      BY <2>1, <1>w, <1>4 DEF CreateProgram, Visit, TypeOK
    <2> QED
      BY <1>4, <2>b, <2>3, <2>4, <2>5 DEF CreateProgram, TypeOK, HeldInv, Running
  <1>5. CASE DeleteProgram
    <2>1. loaded[Len(loaded)] \in Configs
      BY <1>5 DEF DeleteProgram, HeldInv, TypeOK
    <2>2. ProjectReferences(loaded[Len(loaded)]) \in Seq(Path)
      BY <1>5, <1>r, <2>1, ReferencesType DEF DeleteProgram, Running
    <2>3. workList' \in Seq(Path)
      BY <1>5, <2>2 DEF DeleteProgram, TypeOK
    <2>4. DOMAIN programs' \subseteq DOMAIN programs /\ \A i \in DOMAIN programs' : programs'[i] \in Configs
      BY <1>5 DEF DeleteProgram, TypeOK
    <2> QED
      BY <1>5, <2>3, <2>4 DEF DeleteProgram, TypeOK, HeldInv, Running
  <1>6. CASE LoadTsConfig
    <2>1. PICK path \in Path : /\ Visit(path)
                               /\ loaded' = Append(loaded, path.config)
                               /\ workList' = Tail(workList) \o ProjectReferences(path.config)
      BY <1>6 DEF LoadTsConfig
    <2>2. path.config \in Configs
      BY DEF Path
    <2>3. ProjectReferences(path.config) \in Seq(Path)
      BY <2>2, <1>r, <1>6, ReferencesType DEF LoadTsConfig, Running
    <2>4. workList' \in Seq(Path) /\ seen' \subseteq Path
      BY <2>1, <2>3, <1>w, <1>6 DEF Visit, LoadTsConfig, TypeOK
    <2>5. loaded' \in Seq(Configs)
      BY <2>1, <2>2 DEF TypeOK
    <2> QED
      BY <1>6, <2>4, <2>5 DEF LoadTsConfig, TypeOK, HeldInv, Running
  <1>7. CASE NewTsConfig
    BY <1>7 DEF NewTsConfig, TypeOK, HeldInv, Running
  <1>8. ASSUME NEW f \in Files, PassOver(f)
        PROVE  TypeOK' /\ HeldInv'
    BY <1>8 DEF PassOver, TypeOK, HeldInv, Running
  <1>9. ASSUME NEW f \in Files, AnalyzeWithProgram(f)
        PROVE  TypeOK' /\ HeldInv'
    <2>1. programs[current] \in Configs
      BY <1>9 DEF AnalyzeWithProgram, HasProgram, TypeOK
    <2>2. with' \in [Files -> Seq(Configs)]
      BY <1>9, <2>1 DEF AnalyzeWithProgram, TypeOK
    <2> QED
      BY <1>9, <2>2 DEF AnalyzeWithProgram, TypeOK, HeldInv, Running
  <1>10. ASSUME NEW f \in Files, AnalyzeWithTsConfig(f)
         PROVE  TypeOK' /\ HeldInv'
    <2>1. current \in Configs
      BY <1>10 DEF AnalyzeWithTsConfig, HeldInv
    <2>2. with' \in [Files -> Seq(Configs)]
      BY <1>10, <2>1 DEF AnalyzeWithTsConfig, TypeOK
    <2> QED
      BY <1>10, <2>1, <2>2 DEF AnalyzeWithTsConfig, TypeOK, HeldInv, Running
  <1>11. ASSUME NEW c \in Configs, NextTsConfig(c)
         PROVE  TypeOK' /\ HeldInv'
    <2>1. Group(c) \subseteq Files
      BY <1>11, <1>r DEF Group, NextTsConfig, Running
    <2>2. loaded # <<>>
      <3>1. PICK f \in project.inputFiles : FirstMatch(f) = c
        BY <1>11 DEF NextTsConfig, Group
      <3>2. c # None
        BY ConstantsAssumption
      <3>3. \E i \in DOMAIN loaded : f \in project.contains[loaded[i]]
        BY <3>1, <3>2 DEF FirstMatch
      <3> QED
        BY <3>3
    <2> QED
      BY <1>11, <2>1, <2>2 DEF NextTsConfig, TypeOK, HeldInv, Running
  <1>12. CASE Succeed
    BY <1>12, LeaveType DEF Succeed, TypeOK
  <1>13. CASE Fail
    <2>1. failures' \in Nat
      BY <1>13 DEF Fail, TypeOK
    <2>2. /\ programCount' \in Nat
          /\ DOMAIN programs' \subseteq 1..programCount'
          /\ \A i \in DOMAIN programs' : programs'[i] \in Configs
          /\ parserCache' \subseteq Configs
      <3>1. CASE UNCHANGED bridgeVars
        BY <3>1 DEF TypeOK
      <3>2. ASSUME NEW path \in Path, AddProgram(path.config), UNCHANGED parserCache
            PROVE  <2>2
        BY <3>2, AddProgramType DEF TypeOK, Path
      <3>3. CASE /\ programs' = [i \in DOMAIN programs \ {current} |-> programs[i]]
                 /\ UNCHANGED <<programCount, parserCache>>
        BY <3>3 DEF TypeOK
      <3>4. CASE /\ ~project.withProgram /\ pc = "files"
                 /\ parserCache' = parserCache \cup (IF todo = {} THEN {} ELSE {current})
                 /\ UNCHANGED <<programs, programCount>>
        BY <3>4 DEF TypeOK, HeldInv
      <3> QED
        BY <1>13, <3>1, <3>2, <3>3, <3>4 DEF Fail
    <2> QED
      BY <1>13, <2>1, <2>2, LeaveType DEF Fail
  <1>14. CASE Recover
    BY <1>14 DEF Recover, TypeOK, HeldInv, Running
  <1>15. CASE UNCHANGED vars
    BY <1>15 DEF vars, TypeOK, HeldInv, Running
  <1> QED
    BY <1>1, <1>2, <1>3, <1>4, <1>5, <1>6, <1>7, <1>8, <1>9, <1>10, <1>11, <1>12, <1>13, <1>14, <1>15
       DEF Next, Work

\* Every variable keeps its type: a sensor holds a project exactly while it runs, and
\* the bridge has no program under an identifier it has not given out.
THEOREM TypeCorrect == Spec => []TypeOK
  <1>1. TypeOK /\ HeldInv /\ [Next]_vars => (TypeOK /\ HeldInv)'
    BY StepType
  <1> QED
    BY InitType, <1>1, PTL DEF Spec

-----------------------------------------------------------------------------
(* What the bridge holds *)

\* The bridge has finitely many programs.
LEMMA ProgramsFinite ==
    ASSUME TypeOK
    PROVE  IsFiniteSet(DOMAIN programs) /\ Cardinality(DOMAIN programs) \in Nat
  <1>1. programCount \in Nat /\ DOMAIN programs \subseteq 1..programCount
    BY DEF TypeOK
  <1>2. IsFiniteSet(1..programCount)
    BY <1>1, FS_Interval
  <1> QED
    BY <1>1, <1>2, FS_Subset, FS_CardinalityType

\* A new program is one more.
LEMMA AddProgramCount ==
    ASSUME TypeOK, NEW c \in Configs, AddProgram(c)
    PROVE  Cardinality(DOMAIN programs') = Cardinality(DOMAIN programs) + 1
  BY AddProgramType, ProgramsFinite, FS_AddElement

\* A program that the bridge has and deletes is one less.
LEMMA DeleteProgramCount ==
    ASSUME TypeOK, programs' = [i \in DOMAIN programs \ {current} |-> programs[i]]
    PROVE  /\ Cardinality(DOMAIN programs') \in Nat
           /\ Cardinality(DOMAIN programs') <= Cardinality(DOMAIN programs)
           /\ current \in DOMAIN programs =>
                 Cardinality(DOMAIN programs') = Cardinality(DOMAIN programs) - 1
  <1>1. DOMAIN programs' = DOMAIN programs \ {current}
    OBVIOUS
  <1>2. /\ IsFiniteSet(DOMAIN programs \ {current})
        /\ Cardinality(DOMAIN programs \ {current}) =
              IF current \in DOMAIN programs THEN Cardinality(DOMAIN programs) - 1
                                             ELSE Cardinality(DOMAIN programs)
    BY ProgramsFinite, FS_RemoveElement
  <1>3. Cardinality(DOMAIN programs \ {current}) \in Nat /\ Cardinality(DOMAIN programs) \in Nat
    BY <1>2, ProgramsFinite, FS_CardinalityType
  <1> QED
    BY <1>1, <1>2, <1>3

\* What the parser's cache counts when a tsconfig enters it.
LEMMA CacheCount ==
    ASSUME IsFiniteSet(parserCache), NEW c
    PROVE  /\ Cardinality(parserCache) \in Nat
           /\ Cardinality(parserCache \ {c}) \in Nat
           /\ Cardinality(parserCache \ {c}) <= Cardinality(parserCache)
           /\ Cardinality(parserCache) <= Cardinality(parserCache \ {c}) + 1
           /\ IsFiniteSet(parserCache \cup {c})
           /\ Cardinality(parserCache \cup {c}) \in Nat
           /\ Cardinality(parserCache \cup {c}) <= Cardinality(parserCache \ {c}) + 1
           /\ (parserCache \cup {c}) \ {c} = parserCache \ {c}
  <1>1. /\ IsFiniteSet(parserCache \ {c})
        /\ Cardinality(parserCache \ {c}) = IF c \in parserCache THEN Cardinality(parserCache) - 1
                                                                 ELSE Cardinality(parserCache)
    BY FS_RemoveElement
  <1>2. /\ IsFiniteSet(parserCache \cup {c})
        /\ Cardinality(parserCache \cup {c}) = IF c \in parserCache THEN Cardinality(parserCache)
                                                                    ELSE Cardinality(parserCache) + 1
    BY FS_AddElement
  <1>3. /\ Cardinality(parserCache) \in Nat
        /\ Cardinality(parserCache \ {c}) \in Nat
        /\ Cardinality(parserCache \cup {c}) \in Nat
    BY <1>1, <1>2, FS_CardinalityType
  <1> QED
    BY <1>1, <1>2, <1>3

LEMMA InitBridge == Init => IdleInv /\ BridgeInv
  <1> SUFFICES ASSUME Init
               PROVE  IdleInv /\ BridgeInv
    OBVIOUS
  <1>1. DOMAIN programs = {} /\ parserCache = {} /\ failures = 0 /\ pc = "idle"
    BY DEF Init, EmptyMap
  <1>2. IsFiniteSet({}) /\ Cardinality({}) = 0
    BY FS_EmptySet
  <1>3. parserCache \ {current} = {}
    BY <1>1
  <1> QED
    BY <1>1, <1>2, <1>3 DEF Init, IdleInv, BridgeInv, LoadedOnceInv, ProgramIsThere, LeftoverInv,
       LeaksOnlyOnFailure, Running

LEMMA StepIdle == IdleInv /\ [Next]_vars => IdleInv'
  <1> SUFFICES ASSUME IdleInv, [Next]_vars
               PROVE  IdleInv'
    OBVIOUS
  <1>1. CASE StartAnalysis
    BY <1>1 DEF StartAnalysis, IdleInv, Running
  <1>a. CASE SkipConfig \/ ConfigError \/ CreateProgram \/ DeleteProgram \/ LoadTsConfig \/ NewTsConfig
    BY <1>a DEF SkipConfig, ConfigError, Visit, CreateProgram, DeleteProgram, LoadTsConfig, NewTsConfig,
       IdleInv, Running
  <1>b. ASSUME NEW f \in Files, PassOver(f) \/ AnalyzeWithProgram(f) \/ AnalyzeWithTsConfig(f)
        PROVE  IdleInv'
    BY <1>b DEF PassOver, AnalyzeWithProgram, AnalyzeWithTsConfig, IdleInv, Running
  <1>c. ASSUME NEW c \in Configs, NextTsConfig(c)
        PROVE  IdleInv'
    BY <1>c DEF NextTsConfig, IdleInv, Running
  <1>d. CASE Succeed
    BY <1>d DEF Succeed, Leave, IdleInv, Blank
  <1>e. CASE Fail
    BY <1>e DEF Fail, Leave, IdleInv, Blank
  <1>2. CASE Recover
    BY <1>2 DEF Recover, IdleInv, Blank, Running
  <1>3. CASE UNCHANGED vars
    BY <1>3 DEF vars, IdleInv, Blank, Running
  <1> QED
    BY <1>1, <1>2, <1>3, <1>a, <1>b, <1>c, <1>d, <1>e DEF Next, Work

\* What BridgeInv speaks of; seen and loaded matter only with programs.
bridgeInvVars == <<pc, project, current, programs, parserCache, failures, loaded>>

LEMMA StepBridge ==
    TypeOK /\ HeldInv /\ IdleInv /\ BridgeInv /\ [Next]_vars => BridgeInv'
  <1> SUFFICES ASSUME TypeOK, HeldInv, IdleInv, BridgeInv, [Next]_vars
               PROVE  BridgeInv'
    OBVIOUS
  <1> USE DEF bridgeVars, historyVars
  <1>c. \A c : /\ Cardinality(parserCache) \in Nat
               /\ Cardinality(parserCache \ {c}) \in Nat
               /\ Cardinality(parserCache \ {c}) <= Cardinality(parserCache)
               /\ Cardinality(parserCache) <= Cardinality(parserCache \ {c}) + 1
               /\ IsFiniteSet(parserCache \cup {c})
               /\ Cardinality(parserCache \cup {c}) \in Nat
               /\ Cardinality(parserCache \cup {c}) <= Cardinality(parserCache \ {c}) + 1
               /\ (parserCache \cup {c}) \ {c} = parserCache \ {c}
    BY CacheCount DEF BridgeInv, LeftoverInv
  <1>n. Cardinality(DOMAIN programs) \in Nat /\ failures \in Nat
    BY ProgramsFinite DEF TypeOK
  <1>s. ASSUME UNCHANGED bridgeInvVars, seen \subseteq seen'
        PROVE  BridgeInv'
    BY <1>s DEF bridgeInvVars, BridgeInv, LoadedOnceInv, OneProgramPerConfig, ProgramIsThere, HasProgram,
       LeftoverInv, LeaksOnlyOnFailure, Running
  \* Leaving a run, or none under way: only the leftovers matter.
  <1>l. ASSUME pc' \in {"idle", "failed"}, failures' \in Nat, IsFiniteSet(parserCache'),
               Cardinality(DOMAIN programs') <= failures', Cardinality(parserCache') <= failures'
        PROVE  BridgeInv'
    <2>0. \A n \in Nat : n + 0 = n
      OBVIOUS
    <2>1. failures' + 0 = failures'
      BY <1>l, <2>0, Zenon
    <2> QED
      BY <1>l, <2>1 DEF BridgeInv, LoadedOnceInv, ProgramIsThere, LeftoverInv, LeaksOnlyOnFailure, Running
  <1>1. CASE StartAnalysis
    <2>1. loaded = <<>> /\ seen = {} /\ ~Running
      BY <1>1 DEF StartAnalysis, IdleInv, Blank, Running
    <2> QED
      BY <1>1, <2>1 DEF StartAnalysis, BridgeInv, LoadedOnceInv, OneProgramPerConfig, ProgramIsThere,
         LeftoverInv, LeaksOnlyOnFailure, Running
  <1>2. CASE SkipConfig
    BY <1>2, <1>s DEF SkipConfig, bridgeInvVars
  <1>3. CASE ConfigError
    BY <1>3, <1>s DEF ConfigError, Visit, bridgeInvVars
  <1>4. CASE CreateProgram
    <2>1. PICK path \in Path : /\ Visit(path)
                               /\ AddProgram(path.config)
                               /\ loaded' = Append(loaded, path.config)
      BY <1>4 DEF CreateProgram
    <2>2. path.config \in Configs
      BY DEF Path
    <2>3. Running /\ project.withProgram /\ pc' = "files" /\ project' = project /\ pc = "load"
          /\ current' = programCount + 1 /\ UNCHANGED <<parserCache, failures>>
      BY <1>4 DEF CreateProgram, Running
    <2>4. LoadedOnceInv'
      <3>1. path = [config |-> path.config, style |-> "native"]
        <4>1. Head(workList) \in Path
          BY <2>1 DEF Visit, TypeOK
        <4>2. path.style = "native"
          BY <2>1, <2>3, <4>1, VisitedType DEF Visit
        <4> QED
          BY <4>2 DEF Path
      <3>2. /\ loaded \in Seq(Configs) /\ Len(loaded') = Len(loaded) + 1
            /\ \A i \in DOMAIN loaded : loaded'[i] = loaded[i]
            /\ loaded'[Len(loaded')] = path.config
            /\ DOMAIN loaded = 1..Len(loaded) /\ DOMAIN loaded' = 1..(Len(loaded) + 1)
        BY <2>1, <2>2 DEF TypeOK
      <3>3. seen' = seen \cup {path} /\ path \notin seen
        BY <2>1 DEF Visit
      <3>4. \A i \in DOMAIN loaded : [config |-> loaded[i], style |-> "native"] \in seen
        BY <2>3 DEF BridgeInv, LoadedOnceInv
      <3>5. \A i \in DOMAIN loaded : loaded[i] # path.config
        BY <3>1, <3>3, <3>4
      <3>6. \A i, j \in DOMAIN loaded : loaded[i] = loaded[j] => i = j
        BY <2>3 DEF BridgeInv, LoadedOnceInv, OneProgramPerConfig
      <3>7. \A i, j \in DOMAIN loaded' : loaded'[i] = loaded'[j] => i = j
        BY <3>2, <3>5, <3>6
      <3>8. \A i \in DOMAIN loaded' : [config |-> loaded'[i], style |-> "native"] \in seen'
        BY <3>1, <3>2, <3>3, <3>4
      <3> QED
        BY <3>7, <3>8 DEF LoadedOnceInv, OneProgramPerConfig
    <2>5. ProgramIsThere'
      <3>1. loaded'[Len(loaded')] = path.config
        BY <2>1, <2>2 DEF TypeOK
      <3>2. current' \in DOMAIN programs' /\ programs'[current'] = path.config
        BY <2>1, <2>2, <2>3, AddProgramType
      <3> QED
        BY <3>1, <3>2 DEF ProgramIsThere, HasProgram
    <2>6. LeftoverInv'
      <3>1. Cardinality(DOMAIN programs') = Cardinality(DOMAIN programs) + 1
        BY <2>1, <2>2, AddProgramCount
      <3> QED
        BY <3>1, <2>3, <1>n DEF BridgeInv, LeftoverInv, LeaksOnlyOnFailure
    <2> QED
      BY <2>4, <2>5, <2>6 DEF BridgeInv
  <1>5. CASE DeleteProgram
    <2>1. /\ pc = "files" /\ pc' = "load" /\ project.withProgram /\ current \in DOMAIN programs
          /\ UNCHANGED <<project, seen, loaded, parserCache, failures>>
          /\ programs' = [i \in DOMAIN programs \ {current} |-> programs[i]]
      BY <1>5 DEF DeleteProgram, BridgeInv, ProgramIsThere, HasProgram
    <2>2. Cardinality(DOMAIN programs') = Cardinality(DOMAIN programs) - 1
      BY <2>1, DeleteProgramCount
    <2> QED
      BY <2>1, <2>2, <1>n DEF BridgeInv, LoadedOnceInv, OneProgramPerConfig, ProgramIsThere, LeftoverInv,
         LeaksOnlyOnFailure, Running
  <1>6. CASE LoadTsConfig
    <2>1. /\ pc = "load" /\ ~project.withProgram
          /\ UNCHANGED <<pc, project, current, programs, parserCache, failures>>
      BY <1>6 DEF LoadTsConfig
    <2> QED
      BY <2>1 DEF BridgeInv, LoadedOnceInv, OneProgramPerConfig, ProgramIsThere, LeftoverInv,
         LeaksOnlyOnFailure, Running
  <1>7. CASE NewTsConfig
    <2>1. IsFiniteSet({}) /\ Cardinality({}) = 0
      BY FS_EmptySet
    <2> QED
      BY <1>7, <2>1, <1>n DEF NewTsConfig, BridgeInv, LoadedOnceInv, OneProgramPerConfig, ProgramIsThere,
         LeftoverInv, LeaksOnlyOnFailure, Running
  <1>8. ASSUME NEW f \in Files, PassOver(f)
        PROVE  BridgeInv'
    BY <1>8, <1>s DEF PassOver, bridgeInvVars
  <1>9. ASSUME NEW f \in Files, AnalyzeWithProgram(f)
        PROVE  BridgeInv'
    BY <1>9, <1>s DEF AnalyzeWithProgram, bridgeInvVars
  <1>10. ASSUME NEW f \in Files, AnalyzeWithTsConfig(f)
         PROVE  BridgeInv'
    <2>1. /\ pc = "files" /\ ~project.withProgram
          /\ parserCache' = parserCache \cup {current}
          /\ UNCHANGED <<pc, project, seen, loaded, current, programs, failures>>
      BY <1>10 DEF AnalyzeWithTsConfig
    <2> QED
      BY <2>1, <1>c, <1>n DEF BridgeInv, LoadedOnceInv, ProgramIsThere, LeftoverInv, LeaksOnlyOnFailure, Running
  <1>11. ASSUME NEW c \in Configs, NextTsConfig(c)
         PROVE  BridgeInv'
    <2>1. /\ pc = "load" /\ pc' = "files" /\ ~project.withProgram
          /\ UNCHANGED <<project, seen, loaded, programs, parserCache, failures>>
      BY <1>11 DEF NextTsConfig
    <2>2. current' = c
      BY <1>11 DEF NextTsConfig
    <2>3. /\ Cardinality(parserCache) \in Nat
          /\ Cardinality(parserCache \ {c}) \in Nat
          /\ Cardinality(parserCache \ {c}) <= Cardinality(parserCache)
      BY <1>c, Zenon
    <2> QED
      BY <2>1, <2>2, <2>3, <1>n DEF BridgeInv, LoadedOnceInv, ProgramIsThere, LeftoverInv, LeaksOnlyOnFailure, Running
  <1>12. CASE Succeed
    <2>1. pc = "load" /\ pc' = "idle" /\ UNCHANGED <<programs, parserCache, failures>>
      BY <1>12 DEF Succeed, Leave
    <2> QED
      BY <2>1, <1>l, <1>n DEF BridgeInv, LeftoverInv, LeaksOnlyOnFailure
  <1>13. CASE Fail
    <2>1. pc \in {"load", "files"} /\ pc' = "failed" /\ failures' = failures + 1
      BY <1>13 DEF Fail, Leave
    <2>c. /\ Cardinality(parserCache) \in Nat
          /\ Cardinality(parserCache \ {current}) \in Nat
          /\ Cardinality(parserCache) <= Cardinality(parserCache \ {current}) + 1
          /\ IsFiniteSet(parserCache \cup {current})
          /\ Cardinality(parserCache \cup {current}) \in Nat
          /\ Cardinality(parserCache \cup {current}) <= Cardinality(parserCache \ {current}) + 1
      BY <1>c, Zenon
    <2>2. /\ Cardinality(DOMAIN programs) <= failures + 1
          /\ pc = "load" => Cardinality(DOMAIN programs) <= failures
          /\ IsFiniteSet(parserCache)
          /\ Cardinality(parserCache) <= failures + 1
      BY <2>1, <2>c, <1>n DEF BridgeInv, LeftoverInv, LeaksOnlyOnFailure
    <2>3. CASE UNCHANGED bridgeVars
      BY <2>1, <2>2, <2>3, <1>l, <1>n
    <2>4. ASSUME pc = "load", NEW path \in Path, AddProgram(path.config), UNCHANGED parserCache
          PROVE  BridgeInv'
      <3>1. Cardinality(DOMAIN programs') = Cardinality(DOMAIN programs) + 1
        BY <2>4, AddProgramCount DEF Path
      <3> QED
        BY <2>1, <2>2, <2>4, <3>1, <1>l, <1>n
    <2>5. CASE /\ programs' = [i \in DOMAIN programs \ {current} |-> programs[i]]
               /\ UNCHANGED <<programCount, parserCache>>
      <3>1. /\ Cardinality(DOMAIN programs') \in Nat
            /\ Cardinality(DOMAIN programs') <= Cardinality(DOMAIN programs)
        BY <2>5, DeleteProgramCount
      <3> QED
        BY <2>1, <2>2, <2>5, <3>1, <1>l, <1>n
    <2>6. CASE /\ ~project.withProgram /\ pc = "files"
               /\ parserCache' = parserCache \cup (IF todo = {} THEN {} ELSE {current})
               /\ UNCHANGED <<programs, programCount>>
      <3>1. parserCache' = parserCache \/ parserCache' = parserCache \cup {current}
        BY <2>6
      <3>2. Cardinality(parserCache \ {current}) <= failures
        BY <2>6 DEF BridgeInv, LeftoverInv
      <3>3. IsFiniteSet(parserCache') /\ Cardinality(parserCache') <= failures + 1
        BY <2>2, <2>c, <3>1, <3>2, <1>n
      <3> QED
        BY <2>1, <2>2, <2>6, <3>3, <1>l, <1>n
    <2> QED
      BY <1>13, <2>3, <2>4, <2>5, <2>6 DEF Fail
  <1>14. CASE Recover
    <2>1. pc = "failed" /\ pc' = "idle" /\ UNCHANGED <<programs, parserCache, failures>>
      BY <1>14 DEF Recover
    <2> QED
      BY <2>1, <1>l, <1>n DEF BridgeInv, LeftoverInv, LeaksOnlyOnFailure
  <1>15. CASE UNCHANGED vars
    BY <1>15, <1>s DEF vars, bridgeInvVars
  <1> QED
    BY <1>1, <1>2, <1>3, <1>4, <1>5, <1>6, <1>7, <1>8, <1>9, <1>10, <1>11, <1>12, <1>13, <1>14, <1>15
       DEF Next, Work

LEMMA BridgeCorrect == Spec => [](TypeOK /\ HeldInv /\ IdleInv /\ BridgeInv)
  <1>1. Init => TypeOK /\ HeldInv /\ IdleInv /\ BridgeInv
    BY InitType, InitBridge
  <1>2. TypeOK /\ HeldInv /\ IdleInv /\ BridgeInv /\ [Next]_vars =>
            (TypeOK /\ HeldInv /\ IdleInv /\ BridgeInv)'
    BY StepType, StepIdle, StepBridge
  <1> QED
    BY <1>1, <1>2, PTL DEF Spec

\* For every project and any number of analyses, failed ones included: a tsconfig
\* has one program, the program of the files at hand is in the bridge under the
\* identifier the sensor holds, and programs and cached tsconfigs that no analysis
\* uses are at most as many as the analyses that failed.
THEOREM BridgeHoldsWhatIsUsedHolds == Spec => []BridgeHoldsWhatIsUsed
  <1>1. TypeOK /\ BridgeInv => BridgeHoldsWhatIsUsed
    <2> SUFFICES ASSUME TypeOK, BridgeInv
                 PROVE  BridgeHoldsWhatIsUsed
      OBVIOUS
    <2>1. OneProgramPerConfig
      BY DEF BridgeInv, LoadedOnceInv, OneProgramPerConfig
    <2>2. /\ Cardinality(parserCache) \in Nat
          /\ Cardinality(parserCache \ {current}) \in Nat
          /\ Cardinality(parserCache) <= Cardinality(parserCache \ {current}) + 1
      BY CacheCount DEF BridgeInv, LeftoverInv
    <2>3. CacheOfOneConfig
      BY <2>2 DEF BridgeInv, LeftoverInv, CacheOfOneConfig, TypeOK
    <2> QED
      BY <2>1, <2>3 DEF BridgeInv, LeftoverInv, BridgeHoldsWhatIsUsed
  <1> QED
    BY BridgeCorrect, <1>1, PTL

-----------------------------------------------------------------------------
(* The walk over the tsconfigs *)

\* Configured tsconfigs are reachable, and so are the references of a reachable
\* tsconfig that loads.
LEMMA ReachableStep ==
    ASSUME project \in Project
    PROVE  /\ Reachable \subseteq Configs
           /\ \A i \in DOMAIN project.roots : project.roots[i] \in Reachable
           /\ \A c \in Reachable \ project.broken : References(c) \subseteq Reachable
  <1>1. Reachable \subseteq Configs
    BY DEF Reachable
  <1>2. ASSUME NEW i \in DOMAIN project.roots
        PROVE  project.roots[i] \in Reachable
    <2>1. project.roots[i] \in Configs
      BY DEF Project
    <2> QED
      BY <2>1 DEF Reachable, Closed
  <1>3. ASSUME NEW c \in Reachable \ project.broken, NEW k \in DOMAIN project.references[c]
        PROVE  project.references[c][k] \in Reachable
    <2>1. c \in Configs
      BY <1>1
    <2>2. project.references[c] \in Seq(Configs)
      BY <2>1 DEF Project
    <2>3. project.references[c][k] \in Configs
      BY <2>2
    <2>4. ASSUME NEW S \in SUBSET Configs, Closed(S)
          PROVE  project.references[c][k] \in S
      <3>1. c \in S \ project.broken
        BY <2>4 DEF Reachable
      <3> QED
        BY <2>4, <3>1 DEF Closed
    <2> QED
      BY <2>3, <2>4 DEF Reachable
  <1> QED
    BY <1>1, <1>2, <1>3 DEF References

\* A set of tsconfigs that is closed holds all that are reachable.
LEMMA ReachableLeast ==
    ASSUME NEW S \in SUBSET Configs, Closed(S)
    PROVE  Reachable \subseteq S
  BY DEF Reachable

\* The tsconfigs of a list without its head, and of two lists in a row.
LEMMA ConfigsOfTail ==
    ASSUME NEW q \in Seq(Path), q # <<>>
    PROVE  ConfigsOf(q) = {Head(q).config} \cup ConfigsOf(Tail(q))
  <1>1. /\ Len(q) \in Nat \ {0} /\ DOMAIN q = 1..Len(q) /\ Head(q) = q[1]
        /\ DOMAIN Tail(q) = 1..(Len(q) - 1)
        /\ \A i \in 1..(Len(q) - 1) : Tail(q)[i] = q[i + 1]
    OBVIOUS
  <1>2. \A i \in DOMAIN q : i = 1 \/ (i - 1 \in DOMAIN Tail(q) /\ Tail(q)[i - 1] = q[i])
    BY <1>1
  <1>3. \A i \in DOMAIN Tail(q) : i + 1 \in DOMAIN q /\ q[i + 1] = Tail(q)[i]
    BY <1>1
  <1>4. ASSUME NEW i \in DOMAIN q
        PROVE  q[i].config \in {Head(q).config} \cup ConfigsOf(Tail(q))
    BY <1>1, <1>2 DEF ConfigsOf
  <1>5. ASSUME NEW i \in DOMAIN Tail(q)
        PROVE  Tail(q)[i].config \in ConfigsOf(q)
    BY <1>3 DEF ConfigsOf
  <1>6. Head(q).config \in ConfigsOf(q)
    BY <1>1 DEF ConfigsOf
  <1> QED
    BY <1>4, <1>5, <1>6 DEF ConfigsOf

LEMMA ConfigsOfConcat ==
    ASSUME NEW q \in Seq(Path), NEW r \in Seq(Path)
    PROVE  ConfigsOf(q \o r) = ConfigsOf(q) \cup ConfigsOf(r)
  <1>1. /\ Len(q) \in Nat /\ DOMAIN q = 1..Len(q)
        /\ Len(r) \in Nat /\ DOMAIN r = 1..Len(r)
        /\ DOMAIN (q \o r) = 1..(Len(q) + Len(r))
        /\ \A i \in 1..(Len(q) + Len(r)) : (q \o r)[i] = IF i <= Len(q) THEN q[i] ELSE r[i - Len(q)]
    OBVIOUS
  <1>2. \A i \in DOMAIN (q \o r) : \/ i \in DOMAIN q /\ (q \o r)[i] = q[i]
                                   \/ i - Len(q) \in DOMAIN r /\ (q \o r)[i] = r[i - Len(q)]
    BY <1>1
  <1>3. \A i \in DOMAIN q : i \in DOMAIN (q \o r) /\ (q \o r)[i] = q[i]
    BY <1>1
  <1>4. \A i \in DOMAIN r : i + Len(q) \in DOMAIN (q \o r) /\ (q \o r)[i + Len(q)] = r[i]
    BY <1>1
  <1>5. ASSUME NEW i \in DOMAIN (q \o r)
        PROVE  (q \o r)[i].config \in ConfigsOf(q) \cup ConfigsOf(r)
    BY <1>2 DEF ConfigsOf
  <1>6. ASSUME NEW i \in DOMAIN q
        PROVE  q[i].config \in ConfigsOf(q \o r)
    BY <1>3 DEF ConfigsOf
  <1>7. ASSUME NEW i \in DOMAIN r
        PROVE  r[i].config \in ConfigsOf(q \o r)
    BY <1>4 DEF ConfigsOf
  <1> QED
    BY <1>5, <1>6, <1>7 DEF ConfigsOf

\* What is put on the list for a tsconfig is what it refers to.
LEMMA ConfigsOfReferences ==
    ASSUME project \in Project, NEW c \in Configs
    PROVE  ConfigsOf(ProjectReferences(c)) = References(c)
  BY DEF ConfigsOf, ProjectReferences, References

LEMMA InitWalk == Init => WalkInv
  BY DEF Init, WalkInv, Running

LEMMA StepWalk ==
    TypeOK /\ HeldInv /\ IdleInv /\ BridgeInv /\ WalkInv /\ [Next]_vars => WalkInv'
  <1> SUFFICES ASSUME TypeOK, HeldInv, IdleInv, BridgeInv, WalkInv, [Next]_vars
               PROVE  WalkInv'
    OBVIOUS
  <1> USE DEF bridgeVars, historyVars
  <1>p. Running => project \in Project
    BY DEF TypeOK
  <1>u. project' = project => /\ Reachable' = Reachable
                              /\ \A c : References(c)' = References(c)
    BY DEF Reachable, Closed, References
  <1>l. loaded \in Seq(Configs) /\ DOMAIN loaded = 1..Len(loaded) /\ Len(loaded) \in Nat
    BY DEF TypeOK
  \* Steps that leave the list, the tsconfigs visited and those loaded alone.
  <1>f. ASSUME Running, UNCHANGED <<project, workList, seen, loaded>>,
               \A k : Unfollowed(k) => Unfollowed(k)'
        PROVE  WalkInv'
    <2>1. Noted' = Noted
      BY <1>f DEF Noted, ConfigsOf
    <2> QED
      BY <1>f, <2>1, <1>u DEF WalkInv, ConfigsOf
  \* Steps that take the head of the list.
  <1>h. workList # <<>> =>
           /\ Head(workList) \in Path
           /\ Tail(workList) \in Seq(Path)
           /\ ConfigsOf(workList) = {Head(workList).config} \cup ConfigsOf(Tail(workList))
    BY ConfigsOfTail DEF TypeOK
  <1>v. ASSUME NEW path \in Path, Visit(path)
        PROVE  /\ path.config = Head(workList).config
               /\ path.config \in Configs
               /\ seen' = seen \cup {path}
               /\ Running => path.config \in Reachable
               /\ Noted = {p.config : p \in seen'} \cup ConfigsOf(Tail(workList))
    <2>1. /\ path.config = Head(workList).config
          /\ path.config \in Configs
          /\ seen' = seen \cup {path}
          /\ workList # <<>>
      BY <1>v, <1>h, VisitedType DEF Visit, Path
    <2>2. {p.config : p \in seen'} = {p.config : p \in seen} \cup {path.config}
      BY <2>1
    <2> QED
      BY <2>1, <2>2, <1>h DEF WalkInv, Noted
  <1>1. CASE StartAnalysis
    <2>1. loaded = <<>> /\ seen = {}
      BY <1>1 DEF StartAnalysis, IdleInv, Blank, Running
    <2>2. loaded' = <<>> /\ seen' = {} /\ project' \in Project
      BY <1>1, <2>1, ProjectsAreProjects DEF StartAnalysis
    <2>3. ConfigsOf(workList') = {project'.roots[k] : k \in DOMAIN project'.roots}
      BY <1>1 DEF StartAnalysis, ConfigsOf
    <2>4. \A k \in DOMAIN project'.roots : project'.roots[k] \in Reachable'
      <3>1. \A k \in DOMAIN project'.roots : project'.roots[k] \in Configs
        BY <2>2 DEF Project
      <3> QED
        BY <3>1 DEF Reachable, Closed
    <2>5. /\ ConfigsOf(workList') \subseteq Reachable'
          /\ \A k \in DOMAIN project'.roots : project'.roots[k] \in Noted'
      BY <2>3, <2>4 DEF Noted, ConfigsOf
    <2> QED
      BY <2>2, <2>5 DEF WalkInv, ConfigsOf
  <1>2. CASE SkipConfig
    <2>1. /\ Running /\ workList # <<>> /\ workList' = Tail(workList)
          /\ UNCHANGED <<pc, project, seen, loaded>>
          /\ Visited(Head(workList)) \in seen
      BY <1>2 DEF SkipConfig, Running
    <2>2. Head(workList).config \in {p.config : p \in seen}
      BY <2>1, <1>h, VisitedType
    <2>3. Noted' = Noted
      BY <2>1, <2>2, <1>h DEF Noted, ConfigsOf
    <2>4. ConfigsOf(workList') \subseteq ConfigsOf(workList)
      BY <2>1, <1>h
    <2> QED
      BY <2>1, <2>3, <2>4, <1>u DEF WalkInv, Running, Unfollowed, ConfigsOf
  <1>3. CASE ConfigError
    <2>1. PICK path \in Path : Visit(path) /\ path.config \in project.broken
      BY <1>3 DEF ConfigError
    <2>2. /\ Running /\ workList # <<>> /\ workList' = Tail(workList)
          /\ UNCHANGED <<pc, project, loaded>>
      BY <1>3, <2>1 DEF ConfigError, Visit, Running
    <2>3. Noted' = Noted
      <3>1. Noted = {p.config : p \in seen'} \cup ConfigsOf(Tail(workList))
        BY <2>1, <1>v
      <3> QED
        BY <2>2, <3>1 DEF Noted, ConfigsOf
    <2>4. ConfigsOf(workList') \subseteq ConfigsOf(workList)
      BY <2>2, <1>h
    <2>5. \A p \in seen' : p.config \in project.broken \/ \E k \in DOMAIN loaded : loaded[k] = p.config
      BY <2>1, <2>2, <1>v DEF WalkInv
    <2> QED
      BY <2>2, <2>3, <2>4, <2>5, <1>u DEF WalkInv, Running, Unfollowed, ConfigsOf
  <1>4. CASE CreateProgram
    <2>1. PICK path \in Path : /\ Visit(path)
                               /\ path.config \notin project.broken
                               /\ loaded' = Append(loaded, path.config)
      BY <1>4 DEF CreateProgram
    <2>2. /\ Running /\ workList # <<>> /\ workList' = Tail(workList) /\ pc = "load" /\ pc' = "files"
          /\ project' = project /\ project.withProgram
      BY <1>4, <2>1 DEF CreateProgram, Visit, Running
    <2>3. Noted' = Noted
      BY <2>1, <2>2, <1>v DEF Noted, ConfigsOf
    <2>4. ConfigsOf(workList') \subseteq ConfigsOf(workList)
      BY <2>2, <1>h
    <2>5. /\ DOMAIN loaded' = 1..(Len(loaded) + 1) /\ Len(loaded') = Len(loaded) + 1
          /\ loaded'[Len(loaded) + 1] = path.config
          /\ \A k \in DOMAIN loaded : k \in DOMAIN loaded' /\ loaded'[k] = loaded[k]
          /\ \A k \in DOMAIN loaded' : k \in DOMAIN loaded \/ k = Len(loaded')
          /\ Len(loaded) + 1 \in DOMAIN loaded'
      BY <2>1, <1>v, <1>l
    <2>6. \A p \in seen' : p.config \in project.broken \/ \E k \in DOMAIN loaded' : loaded'[k] = p.config
      <3>1. ASSUME NEW p \in seen
            PROVE  p.config \in project.broken \/ \E k \in DOMAIN loaded' : loaded'[k] = p.config
        BY <2>2, <2>5 DEF WalkInv
      <3> QED
        BY <2>1, <2>5, <3>1, <1>v
    <2>7. \A k \in DOMAIN loaded' : loaded'[k] \in Reachable \ project.broken
      BY <2>1, <2>2, <2>5, <1>v DEF WalkInv
    <2>8. \A k \in DOMAIN loaded' : Unfollowed(k)' \/ References(loaded'[k]) \subseteq Noted
      <3>1. \A k \in DOMAIN loaded : References(loaded[k]) \subseteq Noted
        BY <2>2 DEF WalkInv, Unfollowed
      <3> QED
        BY <2>2, <2>5, <3>1 DEF Unfollowed
    <2> QED
      BY <2>2, <2>3, <2>4, <2>6, <2>7, <2>8, <1>u DEF WalkInv, Running, ConfigsOf
  <1>5. CASE DeleteProgram
    <2>1. /\ Running /\ pc = "files" /\ pc' = "load"
          /\ workList' = workList \o ProjectReferences(loaded[Len(loaded)])
          /\ UNCHANGED <<project, seen, loaded>>
      BY <1>5 DEF DeleteProgram, Running
    <2>2. Len(loaded) \in DOMAIN loaded /\ loaded[Len(loaded)] \in Configs
      BY <2>1, <1>l DEF HeldInv
    <2>3. ConfigsOf(workList') = ConfigsOf(workList) \cup References(loaded[Len(loaded)])
      BY <2>1, <2>2, <1>p, ReferencesType, ConfigsOfConcat, ConfigsOfReferences DEF TypeOK
    <2>4. Noted' = Noted \cup References(loaded[Len(loaded)])
      BY <2>1, <2>3 DEF Noted, ConfigsOf
    <2>5. loaded[Len(loaded)] \in Reachable \ project.broken
      BY <2>1, <2>2 DEF WalkInv
    <2>6. ConfigsOf(workList') \subseteq Reachable
      BY <2>1, <2>3, <2>5, <1>p, ReachableStep DEF WalkInv
    <2>7. \A k \in DOMAIN loaded : References(loaded[k]) \subseteq Noted'
      BY <2>1, <2>2, <2>4 DEF WalkInv, Unfollowed
    <2> QED
      BY <2>1, <2>4, <2>6, <2>7, <1>u DEF WalkInv, ConfigsOf
  <1>6. CASE LoadTsConfig
    <2>1. PICK path \in Path : /\ Visit(path)
                               /\ path.config \notin project.broken
                               /\ loaded' = Append(loaded, path.config)
                               /\ workList' = Tail(workList) \o ProjectReferences(path.config)
      BY <1>6 DEF LoadTsConfig
    <2>2. /\ Running /\ workList # <<>> /\ pc = "load" /\ pc' = "load"
          /\ project' = project /\ ~project.withProgram
      BY <1>6, <2>1 DEF LoadTsConfig, Visit, Running
    <2>3. ConfigsOf(workList') = ConfigsOf(Tail(workList)) \cup References(path.config)
      <3>1. ProjectReferences(path.config) \in Seq(Path)
        BY <2>1, <2>2, <1>p, <1>v, ReferencesType
      <3>2. ConfigsOf(ProjectReferences(path.config)) = References(path.config)
        BY <2>1, <2>2, <1>p, <1>v, ConfigsOfReferences
      <3> QED
        BY <2>1, <2>2, <3>1, <3>2, <1>h, ConfigsOfConcat
    <2>4. Noted' = Noted \cup References(path.config)
      BY <2>1, <2>3, <1>v DEF Noted, ConfigsOf
    <2>5. /\ DOMAIN loaded' = 1..(Len(loaded) + 1)
          /\ loaded'[Len(loaded) + 1] = path.config
          /\ \A k \in DOMAIN loaded : k \in DOMAIN loaded' /\ loaded'[k] = loaded[k]
          /\ \A k \in DOMAIN loaded' : k \in DOMAIN loaded \/ loaded'[k] = path.config
          /\ Len(loaded) + 1 \in DOMAIN loaded'
      BY <2>1, <1>v, <1>l
    <2>6. \A p \in seen' : p.config \in project.broken \/ \E k \in DOMAIN loaded' : loaded'[k] = p.config
      <3>1. ASSUME NEW p \in seen
            PROVE  p.config \in project.broken \/ \E k \in DOMAIN loaded' : loaded'[k] = p.config
        BY <2>2, <2>5 DEF WalkInv
      <3> QED
        BY <2>1, <2>5, <3>1, <1>v
    <2>7. \A k \in DOMAIN loaded' : loaded'[k] \in Reachable \ project.broken
      BY <2>1, <2>2, <2>5, <1>v DEF WalkInv
    <2>8. \A k \in DOMAIN loaded' : References(loaded'[k]) \subseteq Noted'
      <3>1. \A k \in DOMAIN loaded : References(loaded[k]) \subseteq Noted
        BY <2>2 DEF WalkInv, Unfollowed
      <3> QED
        BY <2>4, <2>5, <3>1
    <2>9. ConfigsOf(workList') \subseteq Reachable
      BY <2>1, <2>2, <2>3, <1>h, <1>p, <1>v, ReachableStep DEF WalkInv
    <2> QED
      BY <2>2, <2>4, <2>6, <2>7, <2>8, <2>9, <1>u DEF WalkInv, Running, ConfigsOf
  <1>7. CASE NewTsConfig
    BY <1>7, <1>f DEF NewTsConfig, Running, Unfollowed
  <1>8. ASSUME NEW f \in Files, PassOver(f) \/ AnalyzeWithProgram(f) \/ AnalyzeWithTsConfig(f)
        PROVE  WalkInv'
    BY <1>8, <1>f DEF PassOver, AnalyzeWithProgram, AnalyzeWithTsConfig, Running, Unfollowed
  <1>9. ASSUME NEW c \in Configs, NextTsConfig(c)
        PROVE  WalkInv'
    BY <1>9, <1>f DEF NextTsConfig, Running, Unfollowed
  <1>10. CASE Succeed \/ Fail \/ Recover
    BY <1>10 DEF Succeed, Fail, Recover, Leave, WalkInv, Running
  <1>11. CASE UNCHANGED vars
    <2>1. CASE Running
      BY <1>11, <2>1, <1>f DEF vars, Unfollowed
    <2>2. CASE ~Running
      BY <1>11, <2>2 DEF vars, WalkInv, Running
    <2> QED
      BY <2>1, <2>2
  <1> QED
    BY <1>1, <1>2, <1>3, <1>4, <1>5, <1>6, <1>7, <1>8, <1>9, <1>10, <1>11 DEF Next, Work

-----------------------------------------------------------------------------
(* The files *)

\* A set of natural numbers that is not empty has a least element.
LEMMA LeastIndex ==
    ASSUME NEW S \in SUBSET Nat, S # {}
    PROVE  \E m \in S : \A k \in S : m <= k
  <1>1. PICK m \in S : \A k \in S : <<k, m>> \notin OpToRel(<, Nat)
    BY WFMin, NatLessThanWellFounded, Zenon
  <1>2. \A k \in S : ~(k < m)
    BY <1>1, Zenon DEF OpToRel
  <1> QED
    BY <1>2

\* FirstMatch gives the first tsconfig loaded that contains the file, if any does.
LEMMA FirstMatchIsFirst ==
    ASSUME TypeOK, NEW f
    PROVE  /\ (\E i \in DOMAIN loaded : f \in project.contains[loaded[i]]) =>
                 \E i \in DOMAIN loaded :
                    /\ FirstMatch(f) = loaded[i]
                    /\ f \in project.contains[loaded[i]]
                    /\ \A j \in DOMAIN loaded : f \in project.contains[loaded[j]] => i <= j
           /\ FirstMatch(f) \in Configs <=> \E i \in DOMAIN loaded : f \in project.contains[loaded[i]]
  <1> DEFINE matches == {i \in DOMAIN loaded : f \in project.contains[loaded[i]]}
  <1>1. loaded \in Seq(Configs) /\ DOMAIN loaded \subseteq Nat
    BY DEF TypeOK
  <1>2. ASSUME matches # {}
        PROVE  \E i \in DOMAIN loaded :
                    /\ FirstMatch(f) = loaded[i]
                    /\ f \in project.contains[loaded[i]]
                    /\ \A j \in DOMAIN loaded : f \in project.contains[loaded[j]] => i <= j
    <2>1. \E i \in matches : \A j \in matches : i <= j
      BY <1>1, <1>2, LeastIndex
    <2> DEFINE m == CHOOSE i \in matches : \A j \in matches : i <= j
    <2>2. m \in matches /\ \A j \in matches : m <= j
      BY <2>1
    <2>3. FirstMatch(f) = loaded[m]
      BY <1>2 DEF FirstMatch
    <2> QED
      BY <2>2, <2>3
  <1>3. matches = {} => FirstMatch(f) = None
    BY DEF FirstMatch
  <1>4. None \notin Configs
    BY ConstantsAssumption
  <1>5. \A i \in DOMAIN loaded : loaded[i] \in Configs
    BY <1>1
  <1> QED
    BY <1>2, <1>3, <1>4, <1>5

LEMMA InitFiles == Init => FilesInv
  BY DEF Init, Blank, FilesInv, OnceInv, ProgramFilesInv, TsConfigFilesInv, FirstConfigWins, Running

LEMMA StepFiles ==
    TypeOK /\ HeldInv /\ IdleInv /\ BridgeInv /\ FilesInv /\ [Next]_vars => FilesInv'
  <1> SUFFICES ASSUME TypeOK, HeldInv, IdleInv, BridgeInv, FilesInv, [Next]_vars
               PROVE  FilesInv'
    OBVIOUS
  <1> USE DEF bridgeVars, historyVars
  <1>l. loaded \in Seq(Configs) /\ DOMAIN loaded = 1..Len(loaded) /\ Len(loaded) \in Nat
    BY DEF TypeOK
  <1>g. UNCHANGED <<project, loaded>> => /\ \A f : FirstMatch(f)' = FirstMatch(f)
                                         /\ \A c : Group(c)' = Group(c)
    BY DEF FirstMatch, Group
  \* Steps that only move through the list.
  <1>f. ASSUME Running, UNCHANGED <<pc, project, loaded, todo, current, analyzed, with>>,
               workList = <<>> => workList' = <<>>
        PROVE  FilesInv'
    BY <1>f, <1>g DEF FilesInv, OnceInv, ProgramFilesInv, TsConfigFilesInv, FirstConfigWins, Running, Unfollowed
  \* Steps after which nothing is held.
  <1>b. ASSUME loaded' = <<>>, analyzed' = {}, with' = [f \in Files |-> <<>>], pc' # "files"
        PROVE  FilesInv'
    BY <1>b DEF FilesInv, OnceInv, ProgramFilesInv, TsConfigFilesInv, FirstConfigWins, Running
  <1>1. CASE StartAnalysis
    BY <1>1, <1>b DEF StartAnalysis, IdleInv, Blank, Running
  <1>2. CASE SkipConfig
    BY <1>2, <1>f DEF SkipConfig, Running
  <1>3. CASE ConfigError
    BY <1>3, <1>f DEF ConfigError, Visit, Running
  <1>4. CASE CreateProgram
    <2>1. PICK path \in Path : /\ loaded' = Append(loaded, path.config)
                               /\ todo' = project.contains[path.config]
      BY <1>4 DEF CreateProgram
    <2>2. /\ Running /\ pc = "load" /\ pc' = "files" /\ project.withProgram
          /\ UNCHANGED <<project, analyzed, with>>
      BY <1>4 DEF CreateProgram, Running
    <2>3. /\ path.config \in Configs
          /\ DOMAIN loaded' = 1..(Len(loaded) + 1) /\ Len(loaded') = Len(loaded) + 1
          /\ loaded'[Len(loaded')] = path.config
          /\ \A k \in DOMAIN loaded : k \in DOMAIN loaded' /\ loaded'[k] = loaded[k]
          /\ \A k \in DOMAIN loaded' : k \in DOMAIN loaded \/ k = Len(loaded')
      BY <2>1, <1>l DEF Path
    <2>4. OnceInv'
      BY <2>2, <2>3 DEF FilesInv, OnceInv
    <2>5. ProgramFilesInv'
      <3>1. \A k \in DOMAIN loaded :
               project.contains[loaded[k]] \cap project.inputFiles \subseteq analyzed
        BY <2>2 DEF FilesInv, ProgramFilesInv, Unfollowed
      <3> QED
        BY <2>1, <2>2, <2>3, <3>1 DEF ProgramFilesInv, Unfollowed
    <2>6. FirstConfigWins'
      <3> SUFFICES ASSUME NEW f \in Files, NEW k \in DOMAIN loaded',
                          with[f] # <<>>, f \in project.contains[loaded'[k]]
                   PROVE  \E j \in 1..k : with[f][1] = loaded'[j]
        BY <2>2 DEF FirstConfigWins
      <3>1. CASE k \in DOMAIN loaded
        <4>1. PICK j \in 1..k : with[f][1] = loaded[j]
          BY <2>3, <3>1 DEF FilesInv, FirstConfigWins
        <4> QED
          BY <2>3, <3>1, <4>1, <1>l
      <3>2. CASE k = Len(loaded')
        <4>1. PICK j \in DOMAIN loaded : with[f][1] = loaded[j]
          BY DEF FilesInv, OnceInv
        <4> QED
          BY <2>3, <3>2, <4>1, <1>l
      <3> QED
        BY <2>3, <3>1, <3>2
    <2> QED
      BY <2>2, <2>4, <2>5, <2>6 DEF FilesInv, TsConfigFilesInv
  <1>5. CASE DeleteProgram
    <2>1. /\ Running /\ pc = "files" /\ pc' = "load" /\ project.withProgram /\ todo = {}
          /\ UNCHANGED <<project, loaded, analyzed, with>>
      BY <1>5 DEF DeleteProgram, Running
    <2> QED
      BY <2>1 DEF FilesInv, OnceInv, ProgramFilesInv, TsConfigFilesInv, FirstConfigWins, Running, Unfollowed
  <1>6. CASE LoadTsConfig
    <2>1. /\ Running /\ pc = "load" /\ pc' = "load" /\ ~project.withProgram /\ workList # <<>>
          /\ UNCHANGED <<project, analyzed, with>>
      BY <1>6 DEF LoadTsConfig, Visit, Running
    <2>2. analyzed = {} /\ \A f \in Files : with[f] = <<>>
      BY <2>1 DEF FilesInv, TsConfigFilesInv, OnceInv
    <2> QED
      BY <2>1, <2>2 DEF FilesInv, OnceInv, ProgramFilesInv, TsConfigFilesInv, FirstConfigWins, Running
  <1>7. CASE NewTsConfig
    <2>1. /\ Running /\ pc = "files" /\ pc' = "load" /\ ~project.withProgram
          /\ UNCHANGED <<project, workList, loaded, analyzed, with>>
      BY <1>7 DEF NewTsConfig, Running
    <2> QED
      BY <2>1, <1>g DEF FilesInv, OnceInv, ProgramFilesInv, TsConfigFilesInv, FirstConfigWins, Running
  <1>8. ASSUME NEW f \in Files, PassOver(f)
        PROVE  FilesInv'
    <2>1. /\ Running /\ pc = "files" /\ project.withProgram
          /\ f \notin project.inputFiles \/ f \in analyzed
          /\ todo' = todo \ {f}
          /\ UNCHANGED <<pc, project, loaded, analyzed, with>>
      BY <1>8 DEF PassOver, Running
    <2>2. ProgramFilesInv'
      BY <2>1 DEF FilesInv, ProgramFilesInv, Running, Unfollowed
    <2> QED
      BY <2>1, <2>2 DEF FilesInv, OnceInv, TsConfigFilesInv, FirstConfigWins, Running
  <1>9. ASSUME NEW f \in Files, AnalyzeWithProgram(f)
        PROVE  FilesInv'
    <2>1. /\ Running /\ pc = "files" /\ project.withProgram
          /\ f \in todo /\ f \in project.inputFiles /\ f \notin analyzed
          /\ analyzed' = analyzed \cup {f} /\ todo' = todo \ {f}
          /\ UNCHANGED <<pc, project, loaded>>
      BY <1>9 DEF AnalyzeWithProgram, Running
    <2>2. programs[current] = loaded[Len(loaded)] /\ Len(loaded) \in DOMAIN loaded
      BY <2>1, <1>l DEF BridgeInv, ProgramIsThere, HeldInv
    <2>3. with[f] = <<>>
      BY <2>1 DEF FilesInv, OnceInv
    <2>4. /\ with'[f] = <<loaded[Len(loaded)]>>
          /\ \A g \in Files \ {f} : with'[g] = with[g]
      BY <1>9, <2>2, <2>3 DEF AnalyzeWithProgram, TypeOK
    <2>5. OnceInv'
      <3>1. loaded[Len(loaded)] = with'[f][1] /\ Len(with'[f]) = 1
        BY <2>4
      <3>2. ASSUME NEW g \in Files
            PROVE  IF g \in analyzed' THEN Len(with'[g]) = 1 ELSE with'[g] = <<>>
        BY <2>1, <2>4, <3>1 DEF FilesInv, OnceInv
      <3>3. ASSUME NEW g \in analyzed'
            PROVE  \E j \in DOMAIN loaded : with'[g][1] = loaded[j]
        <4>1. CASE g = f
          BY <2>2, <3>1, <4>1
        <4>2. CASE g # f
          <5>1. g \in analyzed /\ g \in Files \ {f}
            BY <2>1, <3>3, <4>2 DEF TypeOK
          <5> QED
            BY <2>4, <5>1 DEF FilesInv, OnceInv
        <4> QED
          BY <4>1, <4>2
      <3>4. analyzed' \subseteq project'.inputFiles
        BY <2>1 DEF FilesInv, OnceInv
      <3> QED
        BY <2>1, <3>2, <3>3, <3>4 DEF OnceInv
    <2>6. ProgramFilesInv'
      BY <2>1 DEF FilesInv, ProgramFilesInv, Running, Unfollowed
    <2>7. FirstConfigWins'
      <3> SUFFICES ASSUME NEW g \in Files, NEW k \in DOMAIN loaded,
                          with'[g] # <<>>, g \in project.contains[loaded[k]]
                   PROVE  \E j \in 1..k : with'[g][1] = loaded[j]
        BY <2>1 DEF FirstConfigWins
      <3>1. CASE g = f
        <4>1. k = Len(loaded)
          BY <2>1, <3>1 DEF FilesInv, ProgramFilesInv, Unfollowed
        <4> QED
          BY <2>4, <3>1, <4>1, <1>l
      <3>2. CASE g # f
        BY <2>4, <3>2 DEF FilesInv, FirstConfigWins
      <3> QED
        BY <3>1, <3>2
    <2> QED
      BY <2>1, <2>5, <2>6, <2>7 DEF FilesInv, TsConfigFilesInv
  <1>10. ASSUME NEW f \in Files, AnalyzeWithTsConfig(f)
         PROVE  FilesInv'
    <2>1. /\ Running /\ pc = "files" /\ ~project.withProgram
          /\ f \in todo
          /\ analyzed' = analyzed \cup {f} /\ todo' = todo \ {f}
          /\ UNCHANGED <<pc, project, workList, loaded, current>>
      BY <1>10 DEF AnalyzeWithTsConfig, Running
    <2>2. /\ f \notin analyzed /\ f \in project.inputFiles /\ FirstMatch(f) = current
          /\ current \in Configs /\ workList = <<>>
      BY <2>1 DEF FilesInv, TsConfigFilesInv, Group, HeldInv
    <2>3. with[f] = <<>>
      BY <2>2 DEF FilesInv, OnceInv
    <2>4. /\ with'[f] = <<current>>
          /\ \A g \in Files \ {f} : with'[g] = with[g]
      BY <1>10, <2>3 DEF AnalyzeWithTsConfig, TypeOK
    <2>5. PICK i \in DOMAIN loaded :
             /\ current = loaded[i]
             /\ \A j \in DOMAIN loaded : f \in project.contains[loaded[j]] => i <= j
      BY <2>2, FirstMatchIsFirst
    <2>6. OnceInv'
      <3>1. current = with'[f][1] /\ Len(with'[f]) = 1
        BY <2>4
      <3>2. ASSUME NEW g \in Files
            PROVE  IF g \in analyzed' THEN Len(with'[g]) = 1 ELSE with'[g] = <<>>
        BY <2>1, <2>4, <3>1 DEF FilesInv, OnceInv
      <3>3. ASSUME NEW g \in analyzed'
            PROVE  \E j \in DOMAIN loaded : with'[g][1] = loaded[j]
        <4>1. CASE g = f
          BY <2>5, <3>1, <4>1
        <4>2. CASE g # f
          <5>1. g \in analyzed /\ g \in Files \ {f}
            BY <2>1, <3>3, <4>2 DEF TypeOK
          <5> QED
            BY <2>4, <5>1 DEF FilesInv, OnceInv
        <4> QED
          BY <4>1, <4>2
      <3>4. analyzed' \subseteq project'.inputFiles
        BY <2>1, <2>2 DEF FilesInv, OnceInv
      <3> QED
        BY <2>1, <3>2, <3>3, <3>4 DEF OnceInv
    <2>7. TsConfigFilesInv'
      <3>1. \A g \in analyzed : g \in Files /\ g # f
        BY <2>2 DEF TypeOK
      <3> QED
        BY <2>1, <2>2, <2>4, <3>1, <1>g DEF FilesInv, TsConfigFilesInv, Running
    <2>8. FirstConfigWins'
      <3> SUFFICES ASSUME NEW g \in Files, NEW k \in DOMAIN loaded,
                          with'[g] # <<>>, g \in project.contains[loaded[k]]
                   PROVE  \E j \in 1..k : with'[g][1] = loaded[j]
        BY <2>1 DEF FirstConfigWins
      <3>1. CASE g = f
        BY <2>4, <2>5, <3>1, <1>l
      <3>2. CASE g # f
        BY <2>4, <3>2 DEF FilesInv, FirstConfigWins
      <3> QED
        BY <3>1, <3>2
    <2> QED
      BY <2>1, <2>6, <2>7, <2>8 DEF FilesInv, ProgramFilesInv
  <1>11. ASSUME NEW c \in Configs, NextTsConfig(c)
         PROVE  FilesInv'
    <2>1. /\ Running /\ pc = "load" /\ pc' = "files" /\ ~project.withProgram /\ workList = <<>>
          /\ current' = c /\ todo' = Group(c) /\ Group(c) \cap analyzed = {}
          /\ UNCHANGED <<project, workList, loaded, analyzed, with>>
      BY <1>11 DEF NextTsConfig, Running
    <2> QED
      BY <2>1, <1>g DEF FilesInv, OnceInv, ProgramFilesInv, TsConfigFilesInv, FirstConfigWins, Running
  <1>12. CASE Succeed \/ Fail
    BY <1>12, <1>b DEF Succeed, Fail, Leave
  <1>13. CASE Recover
    BY <1>13, <1>b DEF Recover, IdleInv, Blank, Running
  <1>14. CASE UNCHANGED vars
    <2>1. CASE Running
      BY <1>14, <2>1, <1>f DEF vars
    <2>2. CASE ~Running
      BY <1>14, <2>2, <1>b DEF vars, IdleInv, Blank, Running
    <2> QED
      BY <2>1, <2>2
  <1> QED
    BY <1>1, <1>2, <1>3, <1>4, <1>5, <1>6, <1>7, <1>8, <1>9, <1>10, <1>11, <1>12, <1>13, <1>14
       DEF Next, Work

LEMMA AnalysisCorrect == Spec => []AnalysisInvariant
  <1>1. Init => AnalysisInvariant
    BY InitType, InitBridge, InitWalk, InitFiles DEF AnalysisInvariant
  <1>2. AnalysisInvariant /\ [Next]_vars => AnalysisInvariant'
    BY StepType, StepIdle, StepBridge, StepWalk, StepFiles DEF AnalysisInvariant
  <1> QED
    BY <1>1, <1>2, PTL DEF Spec

\* A file that several tsconfigs contain is analyzed with the one that was reached
\* first, with programs (analyzeProgram passes over what an earlier program had) as
\* without (findFirst over the loaded tsconfigs), whatever the projects are.
THEOREM FirstConfigWinsHolds == Spec => []FirstConfigWins
  <1>1. AnalysisInvariant => FirstConfigWins
    BY DEF AnalysisInvariant, FilesInv
  <1> QED
    BY AnalysisCorrect, <1>1, PTL

-----------------------------------------------------------------------------
(* Every file once *)

\* When the list is empty, every reachable tsconfig was loaded unless it is broken.
LEMMA WalkIsComplete ==
    ASSUME AnalysisInvariant, pc = "load", workList = <<>>
    PROVE  \A c \in Reachable \ project.broken : \E i \in DOMAIN loaded : loaded[i] = c
  <1> DEFINE S == {p.config : p \in seen}
  <1>1. Running /\ TypeOK /\ WalkInv
    BY DEF AnalysisInvariant, Running
  <1>2. S \in SUBSET Configs
    BY <1>1 DEF TypeOK, Path
  <1>3. Noted = S
    BY DEF Noted, ConfigsOf
  <1>4. ASSUME NEW c \in S \ project.broken
        PROVE  \E i \in DOMAIN loaded : loaded[i] = c
    BY <1>1, <1>4 DEF WalkInv
  <1>5. ASSUME NEW c \in S \ project.broken
        PROVE  References(c) \subseteq S
    BY <1>1, <1>3, <1>4, <1>5 DEF WalkInv, Unfollowed
  <1>6. Closed(S)
    BY <1>1, <1>3, <1>5 DEF Closed, WalkInv, References
  <1>7. Reachable \subseteq S
    BY <1>2, <1>6, ReachableLeast
  <1> QED
    BY <1>4, <1>7

\* An analysis that succeeds has analyzed all it should have.
LEMMA NothingIsMissing ==
    ASSUME AnalysisInvariant, Succeed
    PROVE  Wanted \subseteq analyzed
  <1>1. Running /\ TypeOK /\ FilesInv /\ pc = "load" /\ workList = <<>>
    BY DEF AnalysisInvariant, Succeed, Running
  <1> SUFFICES ASSUME NEW f \in Wanted
               PROVE  f \in analyzed
    OBVIOUS
  <1>2. f \in project.inputFiles
    BY DEF Wanted
  <1>3. PICK i \in DOMAIN loaded : f \in project.contains[loaded[i]]
    BY <1>1, WalkIsComplete DEF Wanted
  <1>4. CASE project.withProgram
    BY <1>1, <1>2, <1>3, <1>4 DEF FilesInv, ProgramFilesInv, Unfollowed
  <1>5. CASE ~project.withProgram
    <2>1. FirstMatch(f) \in Configs
      BY <1>1, <1>3, FirstMatchIsFirst
    <2> QED
      BY <1>2, <1>5, <2>1 DEF Succeed, Group
  <1> QED
    BY <1>4, <1>5

\* A file that is analyzed was to be analyzed, and had not been.
LEMMA AnalyzedIsWanted ==
    ASSUME AnalysisInvariant, NEW f \in Files, AnalyzeWithProgram(f) \/ AnalyzeWithTsConfig(f)
    PROVE  /\ Running
           /\ f \in Wanted
           /\ with[f] = <<>>
           /\ \E c \in Configs : with' = [with EXCEPT ![f] = Append(@, c)]
  <1>1. Running /\ pc = "files" /\ f \in todo
    BY DEF Running, AnalyzeWithProgram, AnalyzeWithTsConfig
  <1>2. TypeOK /\ HeldInv /\ FilesInv /\ WalkInv /\ ProgramIsThere
    BY DEF AnalysisInvariant, BridgeInv
  <1>3. CASE AnalyzeWithProgram(f)
    <2>1. /\ project.withProgram /\ f \in project.inputFiles /\ f \notin analyzed
          /\ with' = [with EXCEPT ![f] = Append(@, programs[current])]
      BY <1>3 DEF AnalyzeWithProgram
    <2>2. Len(loaded) \in DOMAIN loaded /\ loaded[Len(loaded)] \in Configs
      BY <1>1, <1>2 DEF TypeOK, HeldInv
    <2>3. f \in project.contains[loaded[Len(loaded)]]
      BY <1>1, <1>2, <2>1 DEF FilesInv, ProgramFilesInv
    <2>4. loaded[Len(loaded)] \in Reachable \ project.broken
      BY <1>1, <1>2, <2>2 DEF WalkInv
    <2>5. programs[current] = loaded[Len(loaded)]
      BY <1>1, <1>2, <2>1 DEF ProgramIsThere
    <2>6. f \in Wanted
      BY <2>1, <2>3, <2>4 DEF Wanted
    <2>7. with[f] = <<>>
      BY <1>2, <2>1 DEF FilesInv, OnceInv
    <2> QED
      BY <1>1, <2>1, <2>2, <2>5, <2>6, <2>7
  <1>4. CASE AnalyzeWithTsConfig(f)
    <2>1. /\ ~project.withProgram
          /\ with' = [with EXCEPT ![f] = Append(@, current)]
      BY <1>4 DEF AnalyzeWithTsConfig
    <2>2. /\ f \in project.inputFiles /\ f \notin analyzed /\ FirstMatch(f) = current
          /\ current \in Configs
      BY <1>1, <1>2, <2>1 DEF FilesInv, TsConfigFilesInv, Group, HeldInv
    <2>3. \E i \in DOMAIN loaded : f \in project.contains[loaded[i]]
      BY <1>2, <2>2, FirstMatchIsFirst
    <2>4. f \in Wanted
      BY <1>1, <1>2, <2>2, <2>3 DEF Wanted, WalkInv
    <2>5. with[f] = <<>>
      BY <1>2, <2>2 DEF FilesInv, OnceInv
    <2> QED
      BY <1>1, <2>1, <2>2, <2>4, <2>5
  <1> QED
    BY <1>3, <1>4

\* Every step of the sensor is a step of the abstract analysis, or none.
LEMMA StepRefines == AnalysisInvariant /\ [Next]_vars => [Abstract!Next]_(Abstract!vars)
  <1> SUFFICES ASSUME AnalysisInvariant, [Next]_vars
               PROVE  [Abstract!Next]_(Abstract!vars)
    OBVIOUS
  <1> USE DEF Abstract!Next, Abstract!vars
  <1>w. ASSUME project' \in Project
        PROVE  Wanted' \in SUBSET Files
    BY <1>w DEF Wanted, Project
  \* Steps that analyze nothing.
  <1>s. ASSUME Running, Running', UNCHANGED <<project, with>>
        PROVE  UNCHANGED Abstract!vars
    BY <1>s DEF Running, Wanted, Reachable, Closed
  <1>1. CASE StartAnalysis
    <2>1. /\ pc = "idle" /\ pc' = "load" /\ with' = with /\ project' \in Project
      BY <1>1, ProjectsAreProjects DEF StartAnalysis
    <2>2. with = [f \in Files |-> <<>>]
      BY <2>1 DEF AnalysisInvariant, IdleInv, Blank, Running
    <2>3. Wanted' \in SUBSET Files
      BY <2>1, <1>w
    <2>4. [f \in Files |-> Len(with'[f])] = [f \in Files |-> 0]
      BY <2>1, <2>2
    <2>5. Abstract!Begin
      BY <2>1, <2>3, <2>4 DEF Abstract!Begin, Abstract!Nothing, Running
    <2> QED
      BY <2>5
  <1>2. CASE SkipConfig \/ ConfigError \/ CreateProgram \/ DeleteProgram \/ LoadTsConfig \/ NewTsConfig
    BY <1>2, <1>s DEF SkipConfig, ConfigError, CreateProgram, DeleteProgram, LoadTsConfig, NewTsConfig,
                      Visit, Running
  <1>3. ASSUME NEW f \in Files, PassOver(f)
        PROVE  UNCHANGED Abstract!vars
    BY <1>3, <1>s DEF PassOver, Running
  <1>4. ASSUME NEW f \in Files, AnalyzeWithProgram(f) \/ AnalyzeWithTsConfig(f)
        PROVE  Abstract!Analyze(f)
    <2>1. Running /\ f \in Wanted /\ with[f] = <<>>
      BY <1>4, AnalyzedIsWanted
    <2>2. PICK c \in Configs : with' = [with EXCEPT ![f] = Append(@, c)]
      BY <1>4, AnalyzedIsWanted
    <2>3. UNCHANGED <<pc, project>>
      BY <1>4 DEF AnalyzeWithProgram, AnalyzeWithTsConfig
    <2>4. Wanted' = Wanted
      BY <2>3 DEF Wanted, Reachable, Closed
    <2>5. with \in [Files -> Seq(Configs)]
      BY DEF AnalysisInvariant, TypeOK
    <2>6. /\ Len(with'[f]) = 1 /\ Len(with[f]) = 0
          /\ \A g \in Files \ {f} : with'[g] = with[g]
      BY <2>1, <2>2, <2>5
    <2>7. [g \in Files |-> Len(with'[g])] = [[g \in Files |-> Len(with[g])] EXCEPT ![f] = 1]
      BY <2>6
    <2> QED
      BY <2>1, <2>3, <2>4, <2>6, <2>7 DEF Abstract!Analyze, Running
  <1>5. ASSUME NEW c \in Configs, NextTsConfig(c)
        PROVE  UNCHANGED Abstract!vars
    BY <1>5, <1>s DEF NextTsConfig, Running
  <1>6. CASE Succeed
    <2>1. /\ pc = "load" /\ pc' = "idle" /\ with' = [f \in Files |-> <<>>]
      BY <1>6 DEF Succeed, Leave
    <2>2. ASSUME NEW f \in Wanted
          PROVE  f \in Files /\ Len(with[f]) = 1
      <3>1. f \in analyzed
        BY <1>6, <2>2, NothingIsMissing
      <3> QED
        BY <3>1 DEF AnalysisInvariant, TypeOK, FilesInv, OnceInv
    <2>3. [f \in Files |-> Len(with'[f])] = [f \in Files |-> 0]
      BY <2>1
    <2>4. Abstract!Succeed
      BY <2>1, <2>2, <2>3 DEF Abstract!Succeed, Abstract!Nothing, Running
    <2> QED
      BY <2>4
  <1>7. CASE Fail
    <2>1. /\ Running /\ pc' = "failed" /\ with' = [f \in Files |-> <<>>]
      BY <1>7 DEF Fail, Leave, Running
    <2>2. [f \in Files |-> Len(with'[f])] = [f \in Files |-> 0]
      BY <2>1
    <2>3. Abstract!Abort
      BY <2>1, <2>2 DEF Abstract!Abort, Abstract!Nothing, Running
    <2> QED
      BY <2>3
  <1>8. CASE Recover
    <2>1. Abstract!Recover
      BY <1>8 DEF Recover, Abstract!Recover, Running
    <2> QED
      BY <2>1
  <1>9. CASE UNCHANGED vars
    BY <1>9 DEF vars, Running, Wanted, Reachable, Closed
  <1> QED
    BY <1>1, <1>2, <1>3, <1>4, <1>5, <1>6, <1>7, <1>8, <1>9 DEF Next, Work

\* The sensor keeps what an analysis promises: every input file that a tsconfig
\* contains which the configured ones lead to is analyzed exactly once before the
\* analysis succeeds, for all reference graphs, overlaps and failures.
THEOREM AnalyzesOnceHolds == Spec => AnalyzesOnce
  <1>1. Init => Abstract!Init
    BY DEF Init, Blank, Abstract!Init, Abstract!Nothing, Running
  <1> QED
    BY <1>1, AnalysisCorrect, StepRefines, PTL DEF Spec, AnalyzesOnce, Abstract!Spec

=============================================================================
