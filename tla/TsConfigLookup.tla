----------------------------- MODULE TsConfigLookup -----------------------------
(***************************************************************************)
(* The tsconfigs of TypeScript files: the ones the property names, else the *)
(* ones found by a walk over the directories of the project, else in        *)
(* SonarQube a generated one, for the sensors that ask for it.  The walk    *)
(* is breadth-first, a directory a step, and leaves out node_modules; the   *)
(* order in which a directory lists its files is not defined.               *)
(*                                                                         *)
(* The bridge then makes a program of a tsconfig.  When the tsconfig        *)
(* extends one of a package, TypeScript looks for it in the directories     *)
(* above, in four places each, up to the root of the file system.           *)
(***************************************************************************)
EXTENDS Integers, Sequences, SequencesExt, FiniteSets

CONSTANTS
  Base,     \* the base directory
  Subdirs,  \* the directories below it
  Patterns  \* the paths and patterns of the property

VARIABLES
  parent,     \* the directory that a directory is in
  modules,    \* the directories called node_modules
  unreadable, \* the directories that cannot be listed
  configs,    \* the directories with a tsconfig.json
  property,   \* what the property's patterns resolve to, if it is set
  request,    \* who asks: the product, and whether a generated tsconfig will do
  pc,         \* "property", "lookup", "walk", "generated" or "done"
  dirs,       \* the directories that are yet to be listed
  tsconfigs,  \* the tsconfigs of the provider that is asked
  listed,     \* the directories that were listed
  extending   \* the search for the tsconfig that a tsconfig extends

inputs == <<parent, modules, unreadable, configs, property, request>>

vars == <<inputs, pc, dirs, tsconfigs, listed, extending>>

Dirs == Subdirs \cup {Base}

Generated == "generated"

\* A file that only the property names.
Custom == "custom"

NotSet == [p \in {} |-> {}]

\* Where the search is, what fileExists answered so far, whether readFile made up
\* a configuration, and how it ends.
Idle == [at |-> Base, check |-> 0, answers |-> <<>>, missingTsConfig |-> FALSE, outcome |-> "none"]

\* The root of the file system, where no project is.
Root == "root"

\* The directories a directory is in, itself included.
Above(up, d) ==
  LET reach[n \in 0..Cardinality(Subdirs)] ==
        IF n = 0 THEN {d} ELSE reach[n - 1] \cup {up[x] : x \in reach[n - 1] \ {Base}}
  IN reach[Cardinality(Subdirs)]

Init ==
  /\ parent \in [Subdirs -> Dirs]
  /\ \A d \in Subdirs : Base \in Above(parent, d)
  /\ modules \in SUBSET Subdirs
  /\ unreadable \in {{}} \cup {{d} : d \in Subdirs}
  /\ configs \in SUBSET Dirs
  /\ property \in {NotSet} \cup [Patterns -> SUBSET {Custom}]
  /\ request \in [product : {"sonarqube", "sonarlint"}, generate : BOOLEAN]
  /\ pc = "property"
  /\ dirs = <<>>
  /\ tsconfigs = <<>>
  /\ listed = <<>>
  /\ extending = Idle

\* The patterns, from a HashSet, come in any order; a file that two of them
\* match is named twice.
PropertyTsConfigProvider ==
  /\ pc = "property"
  /\ \E order \in SetToSeqs(DOMAIN property) :
       tsconfigs' = FlattenSeq([k \in DOMAIN order |-> SetToSeq(property[order[k]])])
  /\ pc' = IF tsconfigs' = <<>> THEN "lookup" ELSE "done"
  /\ UNCHANGED <<inputs, dirs, listed, extending>>

LookupTsConfigProvider ==
  /\ pc = "lookup"
  /\ dirs' = <<Base>>
  /\ pc' = "walk"
  /\ UNCHANGED <<inputs, tsconfigs, listed, extending>>

\* What listFiles gives, null for a directory that cannot be listed.
Listing(d) ==
  IF d \in unreadable THEN {<<>>}
  ELSE SetToSeqs({x \in Subdirs : parent[x] = d}
                 \cup IF d \in configs THEN {"tsconfig.json"} ELSE {})

IsDirectory(file) == file # "tsconfig.json" /\ file \notin modules

List ==
  /\ pc = "walk" /\ dirs # <<>>
  /\ \E files \in Listing(Head(dirs)) :
       /\ dirs' = Tail(dirs) \o SelectSeq(files, IsDirectory)
       /\ tsconfigs' = IF Contains(files, "tsconfig.json") THEN Append(tsconfigs, Head(dirs)) ELSE tsconfigs
  /\ listed' = Append(listed, Head(dirs))
  /\ UNCHANGED <<inputs, pc, extending>>

EndOfWalk ==
  /\ pc = "walk" /\ dirs = <<>>
  /\ pc' = IF tsconfigs = <<>> /\ request.generate THEN "generated" ELSE "done"
  /\ UNCHANGED <<inputs, dirs, tsconfigs, listed, extending>>

DefaultTsConfigProvider ==
  /\ pc = "generated"
  /\ tsconfigs' = IF request.product = "sonarqube" THEN <<Generated>> ELSE <<>>
  /\ pc' = "done"
  /\ UNCHANGED <<inputs, dirs, listed, extending>>

(***************************************************************************)
(* createProgramOptions: reads the tsconfig, then what it extends.  The     *)
(* files of the project are searched for in order: the package.json of the  *)
(* package and of its parent, the file of that name, its tsconfig.json.     *)
(***************************************************************************)
CreateProgramOptions(dir, extends) ==
  /\ pc = "done" /\ extending = Idle
  /\ dir \in ToSet(tsconfigs) \cap Dirs
  /\ extending' = CASE extends = "package" -> [Idle EXCEPT !.at = dir, !.check = 1]
                    [] extends = "unparsable" -> [Idle EXCEPT !.outcome = "error"]
                    [] OTHER -> [Idle EXCEPT !.outcome = "options"]
  /\ UNCHANGED <<inputs, pc, dirs, tsconfigs, listed>>

IsRootNodeModules(at) == at = Root

\* Only the fourth place is a tsconfig.json.
IsLastTsConfigCheck(at, check) == check = 4 /\ IsRootNodeModules(at)

ParentOf(d) == IF d = Base THEN Root ELSE parent[d]

\* fileExists is told "yes" for the very last place, whether the file exists.
FileExists(there) ==
  /\ extending.outcome = "none" /\ extending.check > 0
  /\ LET answer == there \/ IsLastTsConfigCheck(extending.at, extending.check)
     IN extending' =
          CASE answer -> [extending EXCEPT !.answers = Append(@, there), !.outcome = "found"]
            [] ~answer /\ extending.check < 4 -> [extending EXCEPT !.answers = Append(@, there), !.check = @ + 1]
            [] ~answer /\ extending.check = 4 ->
                 [extending EXCEPT !.answers = Append(@, there), !.check = 1, !.at = ParentOf(@)]
  /\ UNCHANGED <<inputs, pc, dirs, tsconfigs, listed>>

\* readFile: an absent or empty file in the very last place becomes an empty
\* configuration; TypeScript takes an empty file elsewhere for one as well.
ReadFile(content) ==
  /\ extending.outcome = "found"
  /\ ~Last(extending.answers) => content = "absent"
  /\ Last(extending.answers) => content # "absent"
  /\ LET fallback == content \in {"absent", "empty"} /\ IsLastTsConfigCheck(extending.at, extending.check)
     IN extending' = [extending EXCEPT !.missingTsConfig = fallback,
                                       !.outcome = IF content = "errors" THEN "error" ELSE "options"]
  /\ UNCHANGED <<inputs, pc, dirs, tsconfigs, listed>>

Done == pc = "done" /\ UNCHANGED vars

Next ==
  \/ PropertyTsConfigProvider \/ LookupTsConfigProvider \/ List \/ EndOfWalk \/ DefaultTsConfigProvider
  \/ \E dir \in Dirs, extends \in {"nothing", "package", "unparsable"} : CreateProgramOptions(dir, extends)
  \/ \E there \in BOOLEAN : FileExists(there)
  \/ \E content \in {"valid", "errors", "empty", "absent"} : ReadFile(content)
  \/ Done

Spec == Init /\ [][Next]_vars

\* The directories that a reader of the project would look for tsconfigs in.
Searched == {d \in Dirs : /\ Above(parent, d) \cap modules = {}
                          /\ d \notin unreadable
                          /\ Above(parent, d) \cap unreadable = {}}

FromProperty == UNION {property[p] : p \in DOMAIN property}

(***************************************************************************)
(* The tsconfigs that the sensors work with are the property's, if it       *)
(* names any; else every tsconfig.json of the project outside node_modules  *)
(* once, however deep, whatever order directories list their files in and   *)
(* whichever of them cannot be listed; else the generated one or none.      *)
(***************************************************************************)
EveryTsConfigOnce ==
  pc = "done" =>
    IF FromProperty # {} THEN ToSet(tsconfigs) = FromProperty
    ELSE IF configs \cap Searched # {}
    THEN ToSet(tsconfigs) = configs \cap Searched /\ Len(tsconfigs) = Cardinality(configs \cap Searched)
    ELSE tsconfigs = IF request.generate /\ request.product = "sonarqube" THEN <<Generated>> ELSE <<>>

(***************************************************************************)
(* The walk lists no directory twice and none that is in a node_modules,    *)
(* where the cost of a project's dependencies would be.                     *)
(***************************************************************************)
NothingInstalledIsListed ==
  /\ \A i, j \in DOMAIN listed : listed[i] = listed[j] => i = j
  /\ \A i \in DOMAIN listed : Above(parent, listed[i]) \cap modules = {}

(***************************************************************************)
(* A tsconfig that extends one of a package is never refused because the    *)
(* package is not installed, and is reported as missing one only when the   *)
(* search went to its end: what is installed nearer is never replaced by an *)
(* empty configuration (createProgramOptions, isLastTsConfigCheck).         *)
(***************************************************************************)
MissingOnlyAtTheEnd ==
  /\ extending.outcome = "error" /\ extending.check > 0 => Last(extending.answers)
  /\ extending.missingTsConfig =>
       /\ extending.outcome = "options" /\ extending.at = Root
       /\ \A k \in 1..(Len(extending.answers) - 1) : ~extending.answers[k]
  /\ Len(extending.answers) <= 4 * (Cardinality(Dirs) + 1)
================================================================================
