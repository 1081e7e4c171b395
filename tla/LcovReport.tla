------------------------------- MODULE LcovReport -------------------------------
(***************************************************************************)
(* The import of coverage from LCOV reports.  The reports are read line by  *)
(* line as one: a line SF selects a file of the project, by its path or by  *)
(* the end of it, and the lines DA and BRDA after it add executions of its  *)
(* lines and branches, which are saved for the main files at the end.       *)
(* Paths are sequences of names, numbers of blocks and branches sequences   *)
(* of digits.                                                               *)
(***************************************************************************)
EXTENDS Integers, Sequences, SequencesExt, FiniteSets, FiniteSetsExt

CONSTANTS
  MainFiles,    \* the paths of the main files, in the order of the file system
  TestFiles,    \* the paths of the test files
  Reported,     \* the paths that reports name
  LinesInFile,  \* the lines of every file
  Numbers,      \* the line numbers that reports name
  Counts,       \* execution counts
  Blocks,       \* numbers of blocks and of branches
  Checksums,    \* whether lines DA may have a checksum
  MaxLines,     \* how many lines the reports have at most
  Null          \* no file

LinesAssumption == LinesInFile \in Nat /\ MaxLines \in Nat

VARIABLES
  lines,     \* the lines that are read
  fileData,  \* the file of the last line SF, or Null
  branches,  \* of a file: line number -> branch number -> taken
  hits,      \* of a file: line number -> execution count
  unresolvedPaths,
  inconsistenciesCounter,
  saved      \* what is saved, by file

vars == <<lines, fileData, branches, hits, unresolvedPaths, inconsistenciesCounter, saved>>

Files == ToSet(MainFiles) \cup TestFiles

Empty == [x \in {} |-> 0]

Records == [type : {"SF"}, path : Reported]
           \cup [type : {"DA"}, number : Numbers, count : Counts, checksum : IF Checksums THEN BOOLEAN ELSE {FALSE}]
           \cup [type : {"BRDA"}, number : Numbers, block : Blocks, branch : Blocks, taken : Counts]
           \cup {[type |-> "other"]}

Init ==
  /\ lines = <<>>
  /\ fileData = Null
  /\ branches = [f \in {} |-> Empty]
  /\ hits = [f \in {} |-> Empty]
  /\ unresolvedPaths = {}
  /\ inconsistenciesCounter = 0
  /\ saved = Empty

\* The main files below a node of the tree: those whose path is longer.
Below(suffix) == {k \in DOMAIN MainFiles : Len(MainFiles[k]) > Len(suffix) /\ IsSuffix(suffix, MainFiles[k])}

\* The file at the first leaf, where the first child is the first indexed one's.
getFirstLeaf(suffix) ==
  LET Longest == Max({Len(path) : path \in ToSet(MainFiles)})
      leaf[n \in 0..Longest] ==
        IF n = 0 THEN suffix
        ELSE LET node == leaf[n - 1]
             IN IF Below(node) = {} THEN node
                ELSE LET first == MainFiles[Min(Below(node))]
                     IN <<first[Len(first) - Len(node)]>> \o node
  IN leaf[Longest]

getFileWithSuffix(path) ==
  IF \E k \in DOMAIN MainFiles : IsSuffix(path, MainFiles[k]) THEN getFirstLeaf(path) ELSE Null

\* The file of that path, of whatever type, else a main file with that end.
inputFileForSourceFile(path) == IF path \in Files THEN path ELSE getFileWithSuffix(path)

\* The entry of a key, or a default, and a map with a changed entry.
Entry(map, key, default) == IF key \in DOMAIN map THEN map[key] ELSE default

With(map, key, value) == [x \in DOMAIN map \cup {key} |-> IF x = key THEN value ELSE map[x]]

\* Mutant: a file that is named again starts anew.
FreshFile(record) ==
  /\ record.type = "SF"
  /\ LET file == inputFileForSourceFile(record.path)
     IN /\ fileData' = file
        /\ unresolvedPaths' = IF file = Null THEN unresolvedPaths \cup {record.path} ELSE unresolvedPaths
        /\ hits' = IF file = Null THEN hits ELSE With(hits, file, Empty)
        /\ branches' = IF file = Null THEN branches ELSE With(branches, file, Empty)
  /\ UNCHANGED inconsistenciesCounter

SourceFile(record) ==
  /\ record.type = "SF"
  /\ LET file == inputFileForSourceFile(record.path)
     IN /\ fileData' = file
        /\ unresolvedPaths' = IF file = Null THEN unresolvedPaths \cup {record.path} ELSE unresolvedPaths
        /\ hits' = IF file = Null THEN hits ELSE With(hits, file, Entry(hits, file, Empty))
        /\ branches' = IF file = Null THEN branches ELSE With(branches, file, Entry(branches, file, Empty))
  /\ UNCHANGED inconsistenciesCounter

checkLine(number) == number \in 1..LinesInFile

logWrongDataWarning ==
  /\ inconsistenciesCounter' = inconsistenciesCounter + 1
  /\ UNCHANGED <<hits, branches>>

\* The count is all after the first comma, so one with a checksum is no number.
parseLineCoverage(record) ==
  /\ record.type = "DA" /\ fileData # Null
  /\ IF checkLine(record.number) /\ ~record.checksum
     THEN LET before == hits[fileData]
          IN /\ hits' = [hits EXCEPT ![fileData] =
                           With(before, record.number, Entry(before, record.number, 0) + record.count)]
             /\ UNCHANGED <<branches, inconsistenciesCounter>>
     ELSE logWrongDataWarning
  /\ UNCHANGED <<fileData, unresolvedPaths>>

branchNumber(record) == record.block \o record.branch

parseBranchCoverage(record) ==
  /\ record.type = "BRDA" /\ fileData # Null
  /\ IF checkLine(record.number)
     THEN LET before == branches[fileData]
              line == Entry(before, record.number, Empty)
              number == branchNumber(record)
          IN /\ branches' = [branches EXCEPT ![fileData] =
                               With(before, record.number, With(line, number, Entry(line, number, 0) + record.taken))]
             /\ UNCHANGED <<hits, inconsistenciesCounter>>
     ELSE logWrongDataWarning
  /\ UNCHANGED <<fileData, unresolvedPaths>>

Skip(record) ==
  /\ record.type = "other" \/ (fileData = Null /\ record.type \in {"DA", "BRDA"})
  /\ UNCHANGED <<fileData, branches, hits, unresolvedPaths, inconsistenciesCounter>>

Parse ==
  /\ saved = Empty /\ Len(lines) < MaxLines
  /\ \E record \in Records :
       /\ SourceFile(record) \/ parseLineCoverage(record) \/ parseBranchCoverage(record) \/ Skip(record)
       /\ lines' = Append(lines, record)
  /\ UNCHANGED saved

\* External: of two numbers of hits for a line NewCoverage keeps the first.
CoverageOf(f) ==
  LET covered(l) == Cardinality({b \in DOMAIN branches[f][l] : branches[f][l][b] > 0})
  IN [lineHits |-> [l \in DOMAIN hits[f] \cup DOMAIN branches[f] |->
                      IF l \in DOMAIN hits[f] THEN hits[f][l] ELSE covered(l)],
      conditions |-> [l \in DOMAIN branches[f] |-> Cardinality(DOMAIN branches[f][l])],
      covered |-> [l \in DOMAIN branches[f] |-> covered(l)]]

Save ==
  /\ saved = Empty
  /\ saved' = [f \in DOMAIN hits \cap ToSet(MainFiles) |-> CoverageOf(f)]
  /\ UNCHANGED <<lines, fileData, branches, hits, unresolvedPaths, inconsistenciesCounter>>

Done == UNCHANGED vars

Next == Parse \/ Save \/ Done

Spec == Init /\ [][Next]_vars

\* The lines of the reports that are about a file: those after the last line
\* SF before them that names it.
FileOfLine(k) ==
  LET before == {i \in 1..k : lines[i].type = "SF"}
  IN IF before = {} THEN Null ELSE inputFileForSourceFile(lines[Max(before)].path)

About(type, f) == {k \in DOMAIN lines : lines[k].type = type /\ FileOfLine(k) = f
                                         /\ lines[k].number \in 1..LinesInFile}

(***************************************************************************)
(* The executions that are kept for a line of a file are those of all lines *)
(* DA about it, of all sections of all reports that name the file in any    *)
(* way, and of no section of a file that was not found.                     *)
(***************************************************************************)
HitsAreSums ==
  \A f \in Files : \A l \in 1..LinesInFile :
    LET own == {k \in About("DA", f) : lines[k].number = l}
    IN IF own = {} THEN f \in DOMAIN hits => l \notin DOMAIN hits[f]
       ELSE /\ f \in DOMAIN hits /\ l \in DOMAIN hits[f]
            /\ hits[f][l] = MapThenSumSet(LAMBDA k : lines[k].count, own)

(***************************************************************************)
(* The conditions that are saved for a line of a main file are its blocks'  *)
(* branches, and the covered ones those that any report says were taken.    *)
(***************************************************************************)
ConditionsAreBranches ==
  \A f \in DOMAIN saved : \A l \in 1..LinesInFile :
    LET own == {k \in About("BRDA", f) : lines[k].number = l}
        all(K) == {<<lines[k].block, lines[k].branch>> : k \in K}
    IN own # {} =>
         /\ saved[f].conditions[l] = Cardinality(all(own))
         /\ saved[f].covered[l] = Cardinality(all({k \in own : lines[k].taken > 0}))

(***************************************************************************)
(* A section is imported whenever the project has a file with the end of    *)
(* its path, and then to a file with that end; the other paths are reported *)
(* as unresolved.                                                           *)
(***************************************************************************)
ResolvedByTheirEnd ==
  lines # <<>> /\ Last(lines).type = "SF" =>
    LET path == Last(lines).path
        found == {f \in ToSet(MainFiles) : IsSuffix(path, f)} \cup {f \in TestFiles : f = path}
    IN IF found = {} THEN fileData = Null /\ path \in unresolvedPaths
       ELSE fileData \in found /\ path \notin unresolvedPaths

(***************************************************************************)
(* Of the files with the end of a path the first one is taken, in the order *)
(* of the file system (the test should_match_first_with_many_options).      *)
(***************************************************************************)
FirstIsTaken ==
  lines # <<>> /\ Last(lines).type = "SF" =>
    LET path == Last(lines).path
        found == {k \in DOMAIN MainFiles : IsSuffix(path, MainFiles[k])}
    IN path \notin Files /\ found # {} => fileData = MainFiles[Min(found)]

-----------------------------------------------------------------------------
\* ) A small project: two main files that a short path can mean, one that ends
\* like another's directory, and a test file. )

MCMainFiles == <<<<"src", "a">>, <<"lib", "a">>, <<"a">>>>

MCTestFiles == {<<"test", "a">>}

MCReported == {<<"lib", "a">>, <<"test", "a">>, <<"x", "a">>}

\* A file whose path is the end of another's, indexed before it.
MCNestedFiles == <<<<"b", "a">>, <<"c", "b", "a">>>>

MCShort == {<<"a">>, <<"c", "b", "a">>}

MCDigits == {<<1>>, <<2>>}

MCTwoDigits == {<<1>>, <<1, 1>>}

=============================================================================
