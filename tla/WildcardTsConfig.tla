---------------------------- MODULE WildcardTsConfig ----------------------------
(***************************************************************************)
(* The tsconfig of JavaScript files in SonarLint.  The checker of a module  *)
(* counts its files once; below the limit the provider has the bridge       *)
(* create one tsconfig for the root of the module and remembers it in a     *)
(* static map.  Files come and go between analyses, the count can fail, the *)
(* bridge answers, answers with an error, or does not answer.               *)
(***************************************************************************)
EXTENDS Integers, Sequences, FiniteSets, FiniteSetTheorems, TLAPS

CONSTANTS
  Roots,        \* the roots of the modules that are open
  MaxFiles,     \* sonar.javascript.sonarlint.typechecking.maxfiles
  MaxCount,     \* how many files a module has at most
  MaxAnalyses,  \* how many analyses are run
  ErrorAnswers, \* whether the bridge may fail to write the file
  Null          \* the filename that an error answer does not have

CountsAssumption == MaxFiles \in Nat /\ MaxCount \in Nat /\ MaxAnalyses \in Nat

VARIABLES
  count,        \* the files of a module now
  shouldCheck,  \* whether the checker of a module has yet to count
  beyondLimit,  \* what the checker of a module found
  defaultWildcardTsConfig,  \* the lists of tsconfigs by root
  created,      \* the files the bridge created, by root
  analyses,     \* the analyses so far
  given         \* the lists of tsconfigs that analyses were given, in order

vars == <<count, shouldCheck, beyondLimit, defaultWildcardTsConfig, created, analyses, given>>

File(root, number) == <<root, number>>

Init ==
  /\ count \in [Roots -> 0..MaxCount]
  /\ shouldCheck = [r \in Roots |-> TRUE]
  /\ beyondLimit = [r \in Roots |-> TRUE]
  /\ defaultWildcardTsConfig = <<>>
  /\ created = [r \in Roots |-> {}]
  /\ analyses = 0
  /\ given = [r \in Roots |-> <<>>]

Edit(r) ==
  /\ analyses < MaxAnalyses
  /\ \E n \in 0..MaxCount \ {count[r]} : count' = [count EXCEPT ![r] = n]
  /\ UNCHANGED <<shouldCheck, beyondLimit, defaultWildcardTsConfig, created, analyses, given>>

Capped(n) == IF n < MaxFiles THEN n ELSE MaxFiles

checkLimit(r) == beyondLimit' = [beyondLimit EXCEPT ![r] = Capped(count[r]) >= MaxFiles]

\* Mutant: the checker counts for every analysis.
checkAlways(r) ==
  /\ UNCHANGED shouldCheck
  /\ checkLimit(r) \/ UNCHANGED beyondLimit

\* A runtime exception while counting leaves the limit as it is, for good.
checkOnce(r) ==
  IF shouldCheck[r]
  THEN /\ shouldCheck' = [shouldCheck EXCEPT ![r] = FALSE]
       /\ checkLimit(r) \/ UNCHANGED beyondLimit
  ELSE UNCHANGED <<shouldCheck, beyondLimit>>

Remember(r, list) ==
  defaultWildcardTsConfig' = [x \in DOMAIN defaultWildcardTsConfig \cup {r} |->
                                IF x = r THEN list ELSE defaultWildcardTsConfig[x]]

Give(r, list) == given' = [given EXCEPT ![r] = Append(@, list)]

\* The list that computeIfAbsent makes; the exception of a bridge that does
\* not answer leaves the map alone and ends the analysis.
writeTsConfigFileFor(r) ==
  \/ LET file == File(r, Cardinality(created[r]) + 1)
     IN /\ created' = [created EXCEPT ![r] = @ \cup {file}]
        /\ Remember(r, <<file>>)
        /\ Give(r, <<file>>)
  \/ /\ ErrorAnswers
     /\ Remember(r, <<Null>>)
     /\ Give(r, <<Null>>)
     /\ UNCHANGED created
  \/ UNCHANGED <<created, defaultWildcardTsConfig, given>>

getDefaultTsConfigs(r) ==
  IF beyondLimit'[r] THEN Give(r, <<>>) /\ UNCHANGED <<created, defaultWildcardTsConfig>>
  ELSE IF r \in DOMAIN defaultWildcardTsConfig
  THEN Give(r, defaultWildcardTsConfig[r]) /\ UNCHANGED <<created, defaultWildcardTsConfig>>
  ELSE writeTsConfigFileFor(r)

Analyze(r) ==
  /\ analyses < MaxAnalyses
  /\ analyses' = analyses + 1
  /\ checkOnce(r)
  /\ getDefaultTsConfigs(r)
  /\ UNCHANGED count

Done == analyses = MaxAnalyses /\ UNCHANGED vars

Next == (\E r \in Roots : Edit(r) \/ Analyze(r)) \/ Done

Spec == Init /\ [][Next]_vars

(***************************************************************************)
(* All analyses of a module work with the same tsconfigs, although files    *)
(* are added and removed between them, the count may fail and the bridge    *)
(* may miss a request: what one analysis says of types the next one does    *)
(* not take back (checkOnce and computeIfAbsent).                           *)
(***************************************************************************)
SameForAllAnalyses ==
  \A r \in Roots : \A i, j \in DOMAIN given[r] : given[r][i] = given[r][j]

(***************************************************************************)
(* The bridge writes at most one file for a module, however often the       *)
(* module is analyzed and requests are repeated after one was missed.       *)
(***************************************************************************)
OneFilePerModule == \A r \in Roots : Cardinality(created[r]) <= 1

(***************************************************************************)
(* An analysis is given files that exist; one whose creation failed is      *)
(* given none (the test should_not_fail_on_exception).                      *)
(***************************************************************************)
GivenFilesExist ==
  \A r \in Roots : \A i \in DOMAIN given[r] : \A k \in DOMAIN given[r][i] : given[r][i][k] \in created[r]

\* The analyses of a module share one tsconfig, which exists.
WildcardIsShared == SameForAllAnalyses /\ OneFilePerModule /\ GivenFilesExist

---------------------------------------------------------------------------
(* The inductive invariant *)

\* The types of what is kept by root; a remembered list is one of an open module.
WildcardType ==
  /\ shouldCheck \in [Roots -> BOOLEAN] /\ beyondLimit \in [Roots -> BOOLEAN]
  /\ DOMAIN defaultWildcardTsConfig \subseteq Roots
  /\ created \in [Roots -> SUBSET {File(r, 1) : r \in Roots}]
  /\ given \in [Roots -> Seq({<<>>, <<Null>>} \cup {<<File(r, 1)>> : r \in Roots})]

\* A module that was not counted yet is taken to be beyond the limit and was given
\* nothing.  Beyond the limit only empty lists are given and none is remembered;
\* below it only the list that is remembered.
GivenAsDecided(r) ==
  /\ shouldCheck[r] => beyondLimit[r] /\ given[r] = <<>>
  /\ beyondLimit[r] =>
       r \notin DOMAIN defaultWildcardTsConfig /\ \A i \in DOMAIN given[r] : given[r][i] = <<>>
  /\ ~beyondLimit[r] =>
       \A i \in DOMAIN given[r] :
         r \in DOMAIN defaultWildcardTsConfig /\ given[r][i] = defaultWildcardTsConfig[r]

GivenInv == \A r \in Roots : GivenAsDecided(r)

\* The file of a module is there exactly if the remembered list names it; an error
\* answer is remembered as well, and no file is written after it.
CreatedInv ==
  \A r \in Roots :
    IF r \in DOMAIN defaultWildcardTsConfig
    THEN \/ defaultWildcardTsConfig[r] = <<File(r, 1)>> /\ created[r] = {File(r, 1)}
         \/ ErrorAnswers /\ defaultWildcardTsConfig[r] = <<Null>> /\ created[r] = {}
    ELSE created[r] = {}

WildcardInvariant == WildcardType /\ GivenInv /\ CreatedInv

---------------------------------------------------------------------------
(* What one analysis of a module changes *)

Lists == {<<>>, <<Null>>} \cup {<<File(r, 1)>> : r \in Roots}

\* An analysis of r is given one more list; other modules are given nothing.
LEMMA GiveFacts ==
  ASSUME given \in [Roots -> Seq(Lists)], NEW r \in Roots, NEW list \in Lists, Give(r, list)
  PROVE  /\ given' \in [Roots -> Seq(Lists)]
         /\ \A x \in Roots \ {r} : given'[x] = given[x]
         /\ \A i \in DOMAIN given'[r] :
              given'[r][i] = list \/ (i \in DOMAIN given[r] /\ given'[r][i] = given[r][i])
<1>1. given'[r] = Append(given[r], list) /\ \A x \in Roots \ {r} : given'[x] = given[x]
  BY DEF Give
<1>2. given[r] \in Seq(Lists)
  OBVIOUS
<1>3. Append(given[r], list) \in Seq(Lists)
  BY <1>2
<1>4. given' \in [Roots -> Seq(Lists)]
  BY <1>3 DEF Give
<1>5. \A i \in DOMAIN Append(given[r], list) :
        \/ Append(given[r], list)[i] = list
        \/ i \in DOMAIN given[r] /\ Append(given[r], list)[i] = given[r][i]
  BY <1>2
<1> QED
  BY <1>1, <1>4, <1>5

\* The map has the list of r, and what it had for other modules.
LEMMA RememberFacts ==
  ASSUME NEW r \in Roots, NEW list, DOMAIN defaultWildcardTsConfig \subseteq Roots, Remember(r, list)
  PROVE  /\ DOMAIN defaultWildcardTsConfig' = DOMAIN defaultWildcardTsConfig \cup {r}
         /\ defaultWildcardTsConfig'[r] = list
         /\ \A x \in DOMAIN defaultWildcardTsConfig \ {r} :
              defaultWildcardTsConfig'[x] = defaultWildcardTsConfig[x]
  BY DEF Remember

\* After the check the module is counted, and what it was given agrees with the
\* limit that is now in force: the first check finds no list that was given.
LEMMA CheckFacts ==
  ASSUME WildcardInvariant, NEW r \in Roots, checkOnce(r)
  PROVE  /\ shouldCheck' \in [Roots -> BOOLEAN] /\ beyondLimit' \in [Roots -> BOOLEAN]
         /\ \A x \in Roots \ {r} : shouldCheck'[x] = shouldCheck[x] /\ beyondLimit'[x] = beyondLimit[x]
         /\ ~shouldCheck'[r]
         /\ beyondLimit'[r] =>
              r \notin DOMAIN defaultWildcardTsConfig /\ \A i \in DOMAIN given[r] : given[r][i] = <<>>
         /\ ~beyondLimit'[r] =>
              \A i \in DOMAIN given[r] :
                r \in DOMAIN defaultWildcardTsConfig /\ given[r][i] = defaultWildcardTsConfig[r]
<1>t. shouldCheck \in [Roots -> BOOLEAN] /\ beyondLimit \in [Roots -> BOOLEAN] /\ GivenInv
  BY DEF WildcardInvariant, WildcardType
<1>1. CASE shouldCheck[r]
  <2>1. beyondLimit[r] /\ given[r] = <<>> /\ r \notin DOMAIN defaultWildcardTsConfig
    BY <1>1, <1>t DEF GivenInv, GivenAsDecided
  <2>2. \A i \in DOMAIN given[r] : FALSE
    BY <2>1
  <2>3. shouldCheck' = [shouldCheck EXCEPT ![r] = FALSE] /\ (checkLimit(r) \/ UNCHANGED beyondLimit)
    BY <1>1 DEF checkOnce
  <2>4. PICK limit \in BOOLEAN : beyondLimit' = [beyondLimit EXCEPT ![r] = limit]
    <3>1. CASE checkLimit(r)
      <4>1. (Capped(count[r]) >= MaxFiles) \in BOOLEAN
        OBVIOUS
      <4> QED
        BY <3>1, <4>1, Zenon DEF checkLimit
    <3>2. CASE UNCHANGED beyondLimit
      BY <3>2, <1>t
    <3> QED
      BY <2>3, <3>1, <3>2
  <2>5. /\ shouldCheck' \in [Roots -> BOOLEAN] /\ beyondLimit' \in [Roots -> BOOLEAN]
        /\ \A x \in Roots \ {r} : shouldCheck'[x] = shouldCheck[x] /\ beyondLimit'[x] = beyondLimit[x]
        /\ ~shouldCheck'[r]
    BY <2>3, <2>4, <1>t
  <2> QED
    BY <2>1, <2>2, <2>5
<1>2. CASE ~shouldCheck[r]
  <2>1. UNCHANGED <<shouldCheck, beyondLimit>>
    BY <1>2 DEF checkOnce
  <2> QED
    BY <1>2, <2>1, <1>t DEF GivenInv, GivenAsDecided
<1> QED
  BY <1>1, <1>2

\* The first file that the bridge writes for a module is its number one.
LEMMA FirstFile == ASSUME NEW r, created[r] = {} PROVE File(r, Cardinality(created[r]) + 1) = File(r, 1)
  BY FS_EmptySet DEF File

LEMMA AnalyzeKeepsInvariant ==
  ASSUME WildcardInvariant, NEW r \in Roots, Analyze(r)
  PROVE  WildcardInvariant'
<1>t. /\ DOMAIN defaultWildcardTsConfig \subseteq Roots /\ created \in [Roots -> SUBSET {File(x, 1) : x \in Roots}]
      /\ given \in [Roots -> Seq(Lists)] /\ GivenInv /\ CreatedInv
  BY DEF WildcardInvariant, WildcardType, Lists
<1>c. /\ shouldCheck' \in [Roots -> BOOLEAN] /\ beyondLimit' \in [Roots -> BOOLEAN]
      /\ \A x \in Roots \ {r} : shouldCheck'[x] = shouldCheck[x] /\ beyondLimit'[x] = beyondLimit[x]
      /\ ~shouldCheck'[r]
      /\ beyondLimit'[r] =>
           r \notin DOMAIN defaultWildcardTsConfig /\ \A i \in DOMAIN given[r] : given[r][i] = <<>>
      /\ ~beyondLimit'[r] =>
           \A i \in DOMAIN given[r] :
             r \in DOMAIN defaultWildcardTsConfig /\ given[r][i] = defaultWildcardTsConfig[r]
  BY CheckFacts DEF Analyze
<1>1. CASE beyondLimit'[r]
  <2>1. Give(r, <<>>) /\ UNCHANGED <<created, defaultWildcardTsConfig>>
    BY <1>1 DEF Analyze, getDefaultTsConfigs
  <2>2. /\ given' \in [Roots -> Seq(Lists)]
        /\ \A x \in Roots \ {r} : given'[x] = given[x]
        /\ \A i \in DOMAIN given'[r] :
             given'[r][i] = <<>> \/ (i \in DOMAIN given[r] /\ given'[r][i] = given[r][i])
    BY <1>t, <2>1, GiveFacts DEF Lists
  <2>3. GivenInv'
    <3>1. GivenAsDecided(r)'
      BY <1>c, <1>1, <2>1, <2>2 DEF GivenAsDecided
    <3>2. \A x \in Roots \ {r} : GivenAsDecided(x)'
      BY <1>t, <1>c, <2>1, <2>2 DEF GivenInv, GivenAsDecided
    <3> QED
      BY <3>1, <3>2 DEF GivenInv
  <2>4. CreatedInv'
    BY <1>t, <2>1 DEF CreatedInv
  <2> QED
    BY <1>t, <1>c, <2>1, <2>2, <2>3, <2>4 DEF WildcardInvariant, WildcardType, Lists
<1>2. CASE ~beyondLimit'[r] /\ r \in DOMAIN defaultWildcardTsConfig
  <2>1. Give(r, defaultWildcardTsConfig[r]) /\ UNCHANGED <<created, defaultWildcardTsConfig>>
    BY <1>2 DEF Analyze, getDefaultTsConfigs
  <2>2. defaultWildcardTsConfig[r] \in Lists
    BY <1>t, <1>2 DEF CreatedInv, Lists
  <2>3. /\ given' \in [Roots -> Seq(Lists)]
        /\ \A x \in Roots \ {r} : given'[x] = given[x]
        /\ \A i \in DOMAIN given'[r] : \/ given'[r][i] = defaultWildcardTsConfig[r]
                                       \/ i \in DOMAIN given[r] /\ given'[r][i] = given[r][i]
    BY <1>t, <2>1, <2>2, GiveFacts
  <2>4. GivenInv'
    <3>1. GivenAsDecided(r)'
      <4>1. \A i \in DOMAIN given[r] : given[r][i] = defaultWildcardTsConfig[r]
        BY <1>c, <1>2
      <4>2. \A i \in DOMAIN given'[r] : given'[r][i] = defaultWildcardTsConfig[r]
        BY <4>1, <2>3
      <4> QED
        BY <1>c, <1>2, <2>1, <4>2 DEF GivenAsDecided
    <3>2. ASSUME NEW x \in Roots \ {r} PROVE GivenAsDecided(x)'
      <4>1. shouldCheck'[x] = shouldCheck[x] /\ beyondLimit'[x] = beyondLimit[x] /\ given'[x] = given[x]
        BY <1>c, <2>3
      <4>2. GivenAsDecided(x)
        BY <1>t DEF GivenInv
      <4> QED
        BY <4>1, <4>2, <2>1 DEF GivenAsDecided
    <3> QED
      BY <3>1, <3>2 DEF GivenInv
  <2>5. CreatedInv'
    BY <1>t, <2>1 DEF CreatedInv
  <2> QED
    BY <1>t, <1>c, <2>1, <2>3, <2>4, <2>5 DEF WildcardInvariant, WildcardType, Lists
<1>3. CASE ~beyondLimit'[r] /\ r \notin DOMAIN defaultWildcardTsConfig
  <2>w. writeTsConfigFileFor(r)
    BY <1>3 DEF Analyze, getDefaultTsConfigs
  <2>e. created[r] = {} /\ \A i \in DOMAIN given[r] : FALSE
    BY <1>t, <1>c, <1>3 DEF CreatedInv
  <2>g. ASSUME NEW list \in Lists, Give(r, list), Remember(r, list)
        PROVE  /\ GivenInv' /\ given' \in [Roots -> Seq(Lists)]
               /\ DOMAIN defaultWildcardTsConfig' = DOMAIN defaultWildcardTsConfig \cup {r}
               /\ defaultWildcardTsConfig'[r] = list
               /\ \A x \in DOMAIN defaultWildcardTsConfig \ {r} :
                    defaultWildcardTsConfig'[x] = defaultWildcardTsConfig[x]
    <3>1. /\ given' \in [Roots -> Seq(Lists)]
          /\ \A x \in Roots \ {r} : given'[x] = given[x]
          /\ \A i \in DOMAIN given'[r] : given'[r][i] = list
      BY <1>t, <2>g, <2>e, GiveFacts
    <3>2. /\ DOMAIN defaultWildcardTsConfig' = DOMAIN defaultWildcardTsConfig \cup {r}
          /\ defaultWildcardTsConfig'[r] = list
          /\ \A x \in DOMAIN defaultWildcardTsConfig \ {r} :
               defaultWildcardTsConfig'[x] = defaultWildcardTsConfig[x]
      BY <1>t, <2>g, RememberFacts
    <3>3. GivenInv'
      <4>1. GivenAsDecided(r)'
        BY <1>c, <1>3, <3>1, <3>2 DEF GivenAsDecided
      <4>2. ASSUME NEW x \in Roots \ {r} PROVE GivenAsDecided(x)'
        <5>1. /\ shouldCheck'[x] = shouldCheck[x] /\ beyondLimit'[x] = beyondLimit[x] /\ given'[x] = given[x]
              /\ x \in DOMAIN defaultWildcardTsConfig' <=> x \in DOMAIN defaultWildcardTsConfig
              /\ x \in DOMAIN defaultWildcardTsConfig => defaultWildcardTsConfig'[x] = defaultWildcardTsConfig[x]
          BY <1>c, <3>1, <3>2
        <5>2. GivenAsDecided(x)
          BY <1>t DEF GivenInv
        <5> QED
          BY <5>1, <5>2 DEF GivenAsDecided
      <4> QED
        BY <4>1, <4>2 DEF GivenInv
    <3> QED
      BY <3>1, <3>2, <3>3
  <2>1. CASE /\ created' = [created EXCEPT ![r] = @ \cup {File(r, Cardinality(created[r]) + 1)}]
             /\ Remember(r, <<File(r, Cardinality(created[r]) + 1)>>)
             /\ Give(r, <<File(r, Cardinality(created[r]) + 1)>>)
    <3>1. /\ created' = [created EXCEPT ![r] = {File(r, 1)}]
          /\ Remember(r, <<File(r, 1)>>) /\ Give(r, <<File(r, 1)>>)
      BY <2>1, <2>e, FirstFile, <1>t
    <3>2. <<File(r, 1)>> \in Lists
      BY DEF Lists
    <3>3. /\ GivenInv' /\ given' \in [Roots -> Seq(Lists)]
          /\ DOMAIN defaultWildcardTsConfig' = DOMAIN defaultWildcardTsConfig \cup {r}
          /\ defaultWildcardTsConfig'[r] = <<File(r, 1)>>
          /\ \A x \in DOMAIN defaultWildcardTsConfig \ {r} :
               defaultWildcardTsConfig'[x] = defaultWildcardTsConfig[x]
      BY <3>1, <3>2, <2>g
    <3>4. /\ created' \in [Roots -> SUBSET {File(x, 1) : x \in Roots}] /\ created'[r] = {File(r, 1)}
          /\ \A x \in Roots \ {r} : created'[x] = created[x]
      BY <3>1, <1>t
    <3>5. CreatedInv'
      BY <1>t, <3>3, <3>4 DEF CreatedInv
    <3> QED
      BY <1>t, <1>c, <3>3, <3>4, <3>5 DEF WildcardInvariant, WildcardType, Lists
  <2>2. CASE ErrorAnswers /\ Remember(r, <<Null>>) /\ Give(r, <<Null>>) /\ UNCHANGED created
    <3>1. <<Null>> \in Lists
      BY DEF Lists
    <3>2. /\ GivenInv' /\ given' \in [Roots -> Seq(Lists)]
          /\ DOMAIN defaultWildcardTsConfig' = DOMAIN defaultWildcardTsConfig \cup {r}
          /\ defaultWildcardTsConfig'[r] = <<Null>>
          /\ \A x \in DOMAIN defaultWildcardTsConfig \ {r} :
               defaultWildcardTsConfig'[x] = defaultWildcardTsConfig[x]
      BY <2>2, <3>1, <2>g
    <3>3. CreatedInv'
      BY <1>t, <2>2, <2>e, <3>2 DEF CreatedInv
    <3> QED
      BY <1>t, <1>c, <2>2, <3>2, <3>3 DEF WildcardInvariant, WildcardType, Lists
  <2>3. CASE UNCHANGED <<created, defaultWildcardTsConfig, given>>
    <3>1. GivenInv'
      BY <1>t, <1>c, <2>3, <2>e DEF GivenInv, GivenAsDecided
    <3>2. CreatedInv'
      BY <1>t, <2>3 DEF CreatedInv
    <3> QED
      BY <1>t, <1>c, <2>3, <3>1, <3>2 DEF WildcardInvariant, WildcardType, Lists
  <2> QED
    BY <2>w, <2>1, <2>2, <2>3 DEF writeTsConfigFileFor
<1> QED
  BY <1>1, <1>2, <1>3

---------------------------------------------------------------------------
(***************************************************************************)
(* The inductive invariant holds: a module is counted once and for all       *)
(* before its first analysis, and the map is asked before the bridge is.    *)
(***************************************************************************)
THEOREM WildcardInvariantHolds == Spec => []WildcardInvariant
<1>1. ASSUME Init PROVE WildcardInvariant
  <2>1. shouldCheck \in [Roots -> BOOLEAN] /\ beyondLimit \in [Roots -> BOOLEAN]
    BY <1>1 DEF Init
  <2>2. DOMAIN defaultWildcardTsConfig = {}
    BY <1>1 DEF Init
  <2>3. \A r \in Roots : beyondLimit[r] /\ created[r] = {} /\ given[r] = <<>>
    BY <1>1 DEF Init
  <2>4. WildcardType
    BY <1>1, <2>1, <2>2 DEF Init, WildcardType
  <2>5. GivenInv /\ CreatedInv
    BY <2>2, <2>3 DEF GivenInv, GivenAsDecided, CreatedInv
  <2> QED
    BY <2>4, <2>5 DEF WildcardInvariant
<1>2. ASSUME WildcardInvariant, [Next]_vars PROVE WildcardInvariant'
  <2>1. ASSUME NEW r \in Roots, Analyze(r) PROVE WildcardInvariant'
    BY <1>2, <2>1, AnalyzeKeepsInvariant
  <2>2. CASE UNCHANGED <<shouldCheck, beyondLimit, defaultWildcardTsConfig, created, given>>
    BY <1>2, <2>2 DEF WildcardInvariant, WildcardType, GivenInv, GivenAsDecided, CreatedInv
  <2> QED
    BY <1>2, <2>1, <2>2 DEF Next, Edit, Done, vars
<1> QED
  BY <1>1, <1>2, PTL DEF Spec

(***************************************************************************)
(* For any set of modules and any history of edits, failed counts, answers   *)
(* of the bridge and requests it missed, all analyses of a module get the    *)
(* same list (JavaScriptProjectChecker.checkOnce, WildcardTsConfigProvider). *)
(***************************************************************************)
THEOREM SameForAllAnalysesHolds == Spec => []SameForAllAnalyses
<1>1. WildcardInvariant => SameForAllAnalyses
  BY DEF WildcardInvariant, GivenInv, GivenAsDecided, SameForAllAnalyses
<1> QED
  BY <1>1, WildcardInvariantHolds, PTL

(***************************************************************************)
(* For any set of modules and any history, the bridge writes at most one     *)
(* file for a module (computeIfAbsent of WildcardTsConfigProvider).         *)
(***************************************************************************)
THEOREM OneFilePerModuleHolds == Spec => []OneFilePerModule
<1>1. ASSUME WildcardInvariant PROVE OneFilePerModule
  <2> SUFFICES ASSUME NEW r \in Roots PROVE Cardinality(created[r]) <= 1
    BY DEF OneFilePerModule
  <2>1. created[r] = {} \/ created[r] = {File(r, 1)}
    BY <1>1 DEF WildcardInvariant, CreatedInv
  <2>2. CASE created[r] = {}
    BY <2>2, FS_EmptySet
  <2>3. CASE created[r] = {File(r, 1)}
    <3>1. Cardinality({File(r, 1)}) = 1
      BY FS_Singleton
    <3> QED
      BY <2>3, <3>1
  <2> QED
    BY <2>1, <2>2, <2>3
<1> QED
  BY <1>1, WildcardInvariantHolds, PTL

(***************************************************************************)
(* If the bridge never answers with an error, every file that an analysis    *)
(* is given was written.  With error answers the list <<Null>> is remembered *)
(* and given (writeTsConfigFileFor), which is why they are excluded here.   *)
(***************************************************************************)
THEOREM GivenFilesExistHolds == ASSUME ~ErrorAnswers PROVE Spec => []GivenFilesExist
<1>1. ASSUME WildcardInvariant PROVE GivenFilesExist
  <2> SUFFICES ASSUME NEW r \in Roots, NEW i \in DOMAIN given[r], NEW k \in DOMAIN given[r][i]
               PROVE  given[r][i][k] \in created[r]
    BY DEF GivenFilesExist
  <2>1. given[r][i] # <<>>
    OBVIOUS
  <2>2. r \in DOMAIN defaultWildcardTsConfig /\ given[r][i] = defaultWildcardTsConfig[r]
    BY <1>1, <2>1 DEF WildcardInvariant, GivenInv, GivenAsDecided
  <2>3. given[r][i] = <<File(r, 1)>> /\ created[r] = {File(r, 1)}
    BY <1>1, <2>2 DEF WildcardInvariant, CreatedInv
  <2> QED
    BY <2>3
<1> QED
  BY <1>1, WildcardInvariantHolds, PTL

(***************************************************************************)
(* For any number of modules, files and analyses: the analyses of a module   *)
(* share one tsconfig that exists, if the bridge never answers with an error *)
(* (checkOnce, writeTsConfigFileFor, computeIfAbsent).                       *)
(***************************************************************************)
THEOREM WildcardIsSharedHolds == ASSUME ~ErrorAnswers PROVE Spec => []WildcardIsShared
<1>1. SameForAllAnalyses /\ OneFilePerModule /\ GivenFilesExist => WildcardIsShared
  BY DEF WildcardIsShared
<1> QED
  BY <1>1, SameForAllAnalysesHolds, OneFilePerModuleHolds, GivenFilesExistHolds, PTL

================================================================================
