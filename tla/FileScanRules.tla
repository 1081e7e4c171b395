--------------------------- MODULE FileScanRules ---------------------------
(***************************************************************************)
(* Rules that carry state through the statements of a file: forms that are  *)
(* created and configured later (file-uploads, content-length, whose maps   *)
(* live in the module and so outlive a file), queries after the import of   *)
(* a database module (sql-queries), calls after a use of the browser's      *)
(* cryptography (encryption), imports judged by the package.json files of   *)
(* the directories above, which are read once and then cached in the module *)
(* (no-implicit-dependencies), and functions called with and without new    *)
(* (inconsistent-function-call).  A file may be abandoned in the middle,    *)
(* when some rule throws; package.json files may change between files.      *)
(***************************************************************************)
EXTENDS Expressions

CONSTANTS
  Variables,           \* names of forms and of functions
  AssignedValues,      \* expressions assigned to properties of forms
  Queries,             \* first arguments of queries
  Kinds,               \* kinds of statements of this instance
  OptionCalls,         \* calls that pass the options of an upload at once
  MaxStatements, MaxFiles,
  fileUploadSizeLimit, standardSizeLimit,  \* parameters of content-length
  Parent,              \* directory -> directory above it, the root to itself
  Manifests,           \* what a package.json may hold
  CompilerOptions,     \* of the programs that files are analyzed with
  Modules,             \* names in imports: sequences of the parts between slashes
  Whitelist, Builtins  \* packages that need no dependency

LimitsAssumption ==
  /\ fileUploadSizeLimit \in Nat /\ standardSizeLimit \in Nat
  /\ \A d \in DOMAIN Parent : Parent[d] \in DOMAIN Parent

VARIABLES
  phase, file, statements,
  uploads,             \* file-uploads: form -> settings, where it was created
  limits,              \* content-length: form -> size, node to report
  isDbModuleImported, usingCryptoInFile,
  reports,             \* issues on the current file
  packageJson,         \* directory -> manifest on disk
  dirCache,            \* directory -> dependencies of its package.json, when first read
  cache,               \* directory -> dependencies of its files
  context,             \* directory and compiler options of the current file
  usages               \* inconsistent-function-call: function -> last use, with new and without

dependencyVars == <<packageJson, dirCache, cache, context>>

vars == <<phase, file, statements, uploads, limits, isDbModuleImported, usingCryptoInFile, reports, dependencyVars, usages>>

NoForms == [v \in {} |-> 0]

(***************************************************************************)
(* Sizes: numbers, or strings that bytes.parse turns into numbers.          *)
(***************************************************************************)
FORMIDABLE_DEFAULT_SIZE == 200 * 1024 * 1024

BODY_PARSER_DEFAULT_SIZE == 100 * 1024

NoSize == -2

NullSize == -1

parse(text) ==
  CASE text = "4mb" -> 4 * 1024 * 1024
    [] text = "1mb" -> 1024 * 1024
    [] OTHER -> NullSize

\* undefined without a literal of the right type, null for text that is no size.
getSizeValue(e) ==
  LET literal == getValueOfExpression(e, "Literal", FALSE)
  IN IF literal = None THEN NoSize
     ELSE IF literal.value[1] = "number" THEN literal.value[2]
     ELSE IF literal.value[1] = "string" THEN parse(literal.value[2])
     ELSE NoSize

\* No size and size zero are both refused.
IsTooLarge(size, limit) == size <= 0 \/ size > limit

checkSize(p, default, limit) ==
  IF p = Missing THEN IsTooLarge(default, limit)
  ELSE getSizeValue(p.value) > 0 /\ IsTooLarge(getSizeValue(p.value), limit)

ObjectOf(call) == getValueOfExpression(call.arguments[1], "ObjectExpression", FALSE)

checkMulterSize(call) ==
  LET limitsProperty == IF ObjectOf(call) = None THEN Missing ELSE getObjectExpressionProperty(ObjectOf(call), "limits")
  IN CASE ObjectOf(call) = None -> FALSE
       [] limitsProperty = Missing -> TRUE
       [] OTHER -> /\ limitsProperty.value.type = "ObjectExpression"
                   /\ checkSize(getObjectExpressionProperty(limitsProperty.value, "fileSize"), NoSize, fileUploadSizeLimit)

checkBodyParser(call) ==
  IF call.arguments = <<>> THEN IsTooLarge(BODY_PARSER_DEFAULT_SIZE, standardSizeLimit)
  ELSE /\ ObjectOf(call) # None
       /\ checkSize(getObjectExpressionProperty(ObjectOf(call), "limits"), BODY_PARSER_DEFAULT_SIZE, standardSizeLimit)

contentLengthOfCall(call) ==
  CASE call.fqn = "formidable" ->
         /\ call.arguments # <<>> /\ ObjectOf(call) # None
         /\ checkSize(getObjectExpressionProperty(ObjectOf(call), "maxFileSize"), FORMIDABLE_DEFAULT_SIZE, fileUploadSizeLimit)
    [] call.fqn = "multer" -> IF call.arguments = <<>> THEN TRUE ELSE checkMulterSize(call)
    [] call.fqn = "body-parser" -> checkBodyParser(call)

(***************************************************************************)
(* Directory and extensions of uploaded files.                              *)
(***************************************************************************)
keepExtensionsValue(e) == e = Bool("true")

\* Set with a kept extension, or not restricted to a directory.
IsUnrestricted(uploadDirSet, keepExtensions) == keepExtensions \/ ~uploadDirSet

getDiskStorageCalleeIfUnsafeStorage(storage) ==
  /\ storage.fqn = "diskStorage" /\ storage.arguments # <<>>
  /\ ObjectOf(storage) # None
  /\ getObjectExpressionProperty(ObjectOf(storage), "destination") = Missing

checkMulterStorage(call) ==
  LET p == IF call.arguments = <<>> THEN Missing
           ELSE IF ObjectOf(call) = None THEN Missing ELSE getObjectExpressionProperty(ObjectOf(call), "storage")
      storage == IF p = Missing THEN None ELSE getValueOfExpression(p.value, "CallExpression", FALSE)
  IN storage # None /\ getDiskStorageCalleeIfUnsafeStorage(storage)

fileUploadsOfCall(call) ==
  CASE call.fqn = "formidable" ->
         LET options == ObjectOf(call)
             keep == getObjectExpressionProperty(options, "keepExtensions")
         IN /\ call.arguments # <<>> /\ options # None
            /\ IsUnrestricted(getObjectExpressionProperty(options, "uploadDir") # Missing,
                              keep # Missing /\ keepExtensionsValue(keep.value))
    [] call.fqn = "multer" -> checkMulterStorage(call)
    [] OTHER -> FALSE

(***************************************************************************)
(* Queries.                                                                *)
(***************************************************************************)
Template(n) == [type |-> "TemplateLiteral", expressions |-> n]

\* An operator that is not +.
Difference(left, right) == [type |-> "Difference", left |-> left, right |-> right]

isHardcodedLiteral(e) == e.type = "Literal" \/ (e.type = "TemplateLiteral" /\ e.expressions = 0)

isConcatenation(e) == e.type = "BinaryExpression"

RECURSIVE isVariableConcat(_)
isVariableConcat(e) ==
  IF ~isHardcodedLiteral(e.right) THEN TRUE
  ELSE IF isConcatenation(e.left) THEN isVariableConcat(e.left)
  ELSE ~isHardcodedLiteral(e.left)

\* Of a query without argument, nothing.
isQuestionable(e) ==
  CASE e = None -> FALSE
    [] e.type = "TemplateLiteral" -> e.expressions # 0
    [] isConcatenation(e) -> isVariableConcat(e)
    [] OTHER -> e.type = "CallExpression" /\ e.fqn \in {"concat", "replace"}

(***************************************************************************)
(* Dependencies.  A manifest is the sequence of its sections in the order   *)
(* in which they are added: a set of names, or Null, which makes            *)
(* Object.keys throw; what was added before stays.  There are no sections   *)
(* without a package.json, or when it does not parse.                       *)
(***************************************************************************)
Null == {<<"null">>}

addDependencies(names) == {IF name[1] = "@types" THEN Tail(name) ELSE name : name \in names}

getDependenciesFromPackageJson(manifest) ==
  UNION {addDependencies(manifest[i]) : i \in {j \in DOMAIN manifest : \A k \in 1..j : manifest[k] # Null}}

RECURSIVE DirectoriesAbove(_)
DirectoriesAbove(d) == {d} \cup (IF Parent[d] = d THEN {} ELSE DirectoriesAbove(Parent[d]))

\* What getDependencies leaves in dirCache, when the directory is not in cache.
DirCacheAfter(d) ==
  IF d \in DOMAIN cache THEN dirCache
  ELSE dirCache @@ [a \in DirectoriesAbove(d) |-> getDependenciesFromPackageJson(packageJson[a])]

getDependencies(d) ==
  IF d \in DOMAIN cache THEN cache[d] ELSE UNION {DirCacheAfter(d)[a] : a \in DirectoriesAbove(d)}

\* A scope alone is completed with what parts[1] is then: undefined.
getPackageName(name) ==
  IF name[1] \notin {"@scope", "@types"} THEN <<name[1]>>
  ELSE IF Len(name) = 1 THEN <<name[1], "undefined">>
  ELSE SubSeq(name, 1, 2)

\* A path mapping without an asterisk is the whole name, one with an asterisk what stands
\* before and after it; one with several asterisks is left out.
IsApplicableTo(pattern, name) ==
  CASE pattern.asterisks = 0 -> name = pattern.prefix
    [] pattern.asterisks = 1 -> IsPrefix(pattern.prefix, name) /\ IsSuffix(pattern.suffix, name)
    [] OTHER -> FALSE

MatchAll(pattern) == pattern.asterisks = 1 /\ pattern.prefix = <<>> /\ pattern.suffix = <<>>

\* A file under the base URL of the compiler options answers to the name.
UnderBaseUrl(name) == name \in context.options.underBaseUrl

raiseOnImplicitImport(name) ==
  /\ \A pattern \in context.options.paths : ~MatchAll(pattern)
  /\ name[1] \notin {".", ".."}
  /\ \A pattern \in context.options.paths : ~IsApplicableTo(pattern, name)
  /\ name[1] \notin {"node:", "data:", "file:"}
  /\ ~UnderBaseUrl(name)
  /\ getPackageName(name) \notin Whitelist \cup Builtins \cup cache[context.dir]

(***************************************************************************)
(* Statements of a file and their visit.                                    *)
(***************************************************************************)
\* A form is created as the value of a variable, in its declaration or an assignment, or as
\* a part of another expression.
NoVariable == "none"

Statements ==
  [kind : {"create"} \cap Kinds, form : Variables \cup {NoVariable}]
  \cup [kind : {"assign"} \cap Kinds, form : Variables, property : {"uploadDir", "keepExtensions", "maxFileSize"}, value : AssignedValues]
  \cup [kind : {"query"} \cap Kinds, argument : Queries]
  \cup [kind : {"options"} \cap Kinds, call : OptionCalls]
  \cup [kind : {"module"} \cap Kinds, name : Modules]
  \cup [kind : {"new", "call"} \cap Kinds, function : Variables]
  \cup [kind : {"import", "require", "subtle", "encrypt", "subtle.encrypt", "encrypt(subtle)", "createCipher"} \cap Kinds]

Here == Len(statements) + 1

Issue(rule, node) == [rule |-> rule, node |-> node]

NoUsages == [inNew |-> NoForms, inCall |-> NoForms, hasIssue |-> {}]

Init ==
  /\ phase = "idle" /\ file = 0 /\ statements = <<>>
  /\ uploads = NoForms /\ limits = NoForms
  /\ isDbModuleImported = FALSE /\ usingCryptoInFile = FALSE
  /\ reports = {}
  /\ packageJson \in [DOMAIN Parent -> Manifests]
  /\ dirCache = NoForms /\ cache = NoForms
  /\ context = CHOOSE c \in [dir : DOMAIN Parent, options : CompilerOptions] : TRUE
  /\ usages = NoUsages

\* The rules are created for the next file, before its visit.
create(dir, options) ==
  /\ phase = "idle" /\ file < MaxFiles
  /\ phase' = "file" /\ file' = file + 1 /\ statements' = <<>>
  /\ isDbModuleImported' = FALSE /\ usingCryptoInFile' = FALSE
  /\ reports' = {} /\ usages' = NoUsages
  /\ context' = [dir |-> dir, options |-> options]
  /\ dirCache' = DirCacheAfter(dir) /\ cache' = cache @@ dir :> getDependencies(dir)
  /\ UNCHANGED packageJson

\* Mutant: the maps are not cleared.
keepForms(dir, options) == create(dir, options) /\ UNCHANGED <<uploads, limits>>

\* Entering the Program node of the next file.
Program(dir, options) == create(dir, options) /\ uploads' = NoForms /\ limits' = NoForms

\* The package.json of a directory is edited between two files.
EditPackageJson(dir, manifest) ==
  /\ phase = "idle" /\ 0 < file /\ file < MaxFiles
  /\ packageJson' = [packageJson EXCEPT ![dir] = manifest]
  /\ UNCHANGED <<phase, file, statements, uploads, limits, isDbModuleImported, usingCryptoInFile, reports, dirCache, cache, context, usages>>

\* The variable that gets the value, if any.
getLhsVariable(s) == {s.form} \ {NoVariable}

\* Without arguments: the options are set later, through the variable.
checkFormidable(s) ==
  /\ s.kind = "create"
  /\ uploads' = [v \in getLhsVariable(s) |-> [uploadDirSet |-> FALSE, keepExtensions |-> FALSE, callExpression |-> Here]] @@ uploads
  /\ limits' = [v \in getLhsVariable(s) |-> [maxFileSize |-> FORMIDABLE_DEFAULT_SIZE, nodeToReport |-> Here]] @@ limits
  /\ UNCHANGED <<isDbModuleImported, usingCryptoInFile, reports>>

SettingsAfter(settings, s) ==
  CASE s.property = "uploadDir" -> [settings EXCEPT !.uploadDirSet = TRUE]
    [] s.property = "keepExtensions" -> [settings EXCEPT !.keepExtensions = keepExtensionsValue(s.value)]
    [] OTHER -> settings

LimitsAfter(s) ==
  IF s.property # "maxFileSize" THEN limits
  ELSE IF getSizeValue(s.value) # NoSize
       THEN [limits EXCEPT ![s.form] = [maxFileSize |-> getSizeValue(s.value), nodeToReport |-> Here]]
  ELSE [v \in DOMAIN limits \ {s.form} |-> limits[v]]

visitAssignment(s) ==
  /\ s.kind = "assign"
  /\ uploads' = IF s.form \in DOMAIN uploads THEN [uploads EXCEPT ![s.form] = SettingsAfter(@, s)] ELSE uploads
  /\ limits' = IF s.form \in DOMAIN limits THEN LimitsAfter(s) ELSE limits
  /\ UNCHANGED <<isDbModuleImported, usingCryptoInFile, reports>>

checkCallExpression(s) ==
  /\ s.kind = "options"
  /\ reports' = reports \cup (IF contentLengthOfCall(s.call) THEN {Issue("content-length", Here)} ELSE {})
                        \cup (IF fileUploadsOfCall(s.call) THEN {Issue("file-uploads", Here)} ELSE {})
  /\ UNCHANGED <<uploads, limits, isDbModuleImported, usingCryptoInFile>>

\* import "pg" or require("pg").
ImportDeclaration(s) ==
  /\ s.kind \in {"import", "require"}
  /\ isDbModuleImported' = TRUE
  /\ UNCHANGED <<uploads, limits, usingCryptoInFile, reports>>

query(s) ==
  /\ s.kind = "query"
  /\ reports' = reports \cup (IF isDbModuleImported /\ isQuestionable(s.argument) THEN {Issue("sql-queries", Here)} ELSE {})
  /\ UNCHANGED <<uploads, limits, isDbModuleImported, usingCryptoInFile>>

\* A member expression crypto.subtle, alone, in the callee or in an argument of a call.
UsesSubtle(s) == s.kind \in {"subtle", "subtle.encrypt", "encrypt(subtle)"}

\* encrypt or decrypt, by whatever object.
ClientSideCalls == {"encrypt", "subtle.encrypt", "encrypt(subtle)"}

\* A call is checked on exit, with what its callee and its arguments show.
encryption(s) ==
  /\ s.kind \in ClientSideCalls \cup {"subtle", "createCipher"}
  /\ usingCryptoInFile' = (usingCryptoInFile \/ UsesSubtle(s))
  /\ reports' = reports \cup (IF \/ s.kind \in ClientSideCalls /\ usingCryptoInFile'
                                 \/ s.kind = "createCipher"
                              THEN {Issue("encryption", Here)} ELSE {})
  /\ UNCHANGED <<uploads, limits, isDbModuleImported>>

\* import ... from name, or require(name).
implicitDependencies(s) ==
  /\ s.kind = "module"
  /\ reports' = reports \cup (IF raiseOnImplicitImport(s.name) THEN {Issue("no-implicit-dependencies", Here)} ELSE {})
  /\ UNCHANGED <<uploads, limits, isDbModuleImported, usingCryptoInFile>>

\* A name without definition in the file is no variable to judge.
HasDefinition(v) == v # "global"

\* f(...) or new f(...): a use is kept unless one of the other kind is known and not yet
\* reported.
checkExpression(s) ==
  LET otherTypeUsage == s.function \in DOMAIN (IF s.kind = "new" THEN usages.inCall ELSE usages.inNew)
      raises == otherTypeUsage /\ s.function \notin usages.hasIssue
      here == s.function :> Here
  IN /\ s.kind \in {"new", "call"}
     /\ usages' = CASE ~HasDefinition(s.function) -> usages
                    [] HasDefinition(s.function) /\ raises -> [usages EXCEPT !.hasIssue = @ \cup {s.function}]
                    [] OTHER -> IF s.kind = "new" THEN [usages EXCEPT !.inNew = here @@ @] ELSE [usages EXCEPT !.inCall = here @@ @]
     /\ reports' = reports \cup (IF HasDefinition(s.function) /\ raises THEN {Issue("inconsistent-function-call", Here)} ELSE {})
     /\ UNCHANGED <<uploads, limits, isDbModuleImported, usingCryptoInFile>>

Visit ==
  /\ phase = "file" /\ Len(statements) < MaxStatements
  /\ \E s \in Statements :
       /\ \/ checkExpression(s)
          \/ /\ \/ checkFormidable(s) \/ visitAssignment(s) \/ checkCallExpression(s) \/ ImportDeclaration(s)
                \/ query(s) \/ encryption(s) \/ implicitDependencies(s)
             /\ UNCHANGED usages
       /\ statements' = Append(statements, s)
  /\ UNCHANGED <<phase, file, dependencyVars>>

\* The forms that are left at the end of the file.
ProgramExit ==
  /\ phase = "file"
  /\ reports' = reports
       \cup {Issue("file-uploads", uploads[v].callExpression) :
               v \in {u \in DOMAIN uploads : IsUnrestricted(uploads[u].uploadDirSet, uploads[u].keepExtensions)}}
       \cup {Issue("content-length", limits[v].nodeToReport) :
               v \in {u \in DOMAIN limits : IsTooLarge(limits[u].maxFileSize, fileUploadSizeLimit)}}
  /\ phase' = "idle"
  /\ UNCHANGED <<file, statements, uploads, limits, isDbModuleImported, usingCryptoInFile, dependencyVars, usages>>

\* Some rule throws: the linter leaves the file and its issues.
Abandon ==
  /\ phase = "file"
  /\ phase' = "idle" /\ reports' = {} /\ statements' = <<>>
  /\ UNCHANGED <<file, uploads, limits, isDbModuleImported, usingCryptoInFile, dependencyVars, usages>>

Next ==
  \/ \E dir \in DOMAIN Parent, options \in CompilerOptions : Program(dir, options)
  \/ \E dir \in DOMAIN Parent, manifest \in Manifests : EditPackageJson(dir, manifest)
  \/ Visit
  \/ ProgramExit \/ Abandon
  \/ phase = "idle" /\ file = MaxFiles /\ UNCHANGED vars

Spec == Init /\ [][Next]_vars

(***************************************************************************)
(* Properties.                                                             *)
(***************************************************************************)
Finished == phase = "idle"

Reported(rule) == {r.node : r \in {i \in reports : i.rule = rule}}

IsCreate(i, form) == statements[i].kind = "create" /\ statements[i].form = form

\* The creation of the form that the statements after it configure.
LastCreations == {i \in DOMAIN statements : \E v \in Variables : IsCreate(i, v) /\ \A j \in DOMAIN statements : j > i => ~IsCreate(j, v)}

SettingsOf(i, property) ==
  SelectSeq(SubSeq(statements, i + 1, Len(statements)),
            LAMBDA s : s.kind = "assign" /\ s.form = statements[i].form /\ s.property = property)

KeepsExtensions(i) ==
  SettingsOf(i, "keepExtensions") # <<>> /\ Last(SettingsOf(i, "keepExtensions")).value = Bool("true")

\* A form is reported at its creation exactly when the assignments that follow leave it
\* without a directory or with the extensions of the sender, the last one deciding; nothing
\* of an earlier or abandoned file is reported (formidableObjects in file-uploads).
FormsAreJudgedByTheirSettings ==
  Finished /\ "options" \notin Kinds =>
    Reported("file-uploads") = {i \in LastCreations : SettingsOf(i, "uploadDir") = <<>> \/ KeepsExtensions(i)}

\* The size of a form is reported where it was set last, exactly when it is too large, and
\* no longer once a size is assigned that the file does not show (visitAssignment in
\* content-length).
LimitsAreJudgedByTheLastSize ==
  Finished /\ "options" \notin Kinds =>
    \A i \in LastCreations :
      LET sizes == SettingsOf(i, "maxFileSize")
          nodes == {j \in Reported("content-length") :
                      j >= i /\ statements[j].form = statements[i].form}
      IN IF \E k \in DOMAIN sizes : getSizeValue(sizes[k].value) = NoSize THEN nodes = {}
         ELSE IF sizes = <<>> THEN nodes = (IF FORMIDABLE_DEFAULT_SIZE > fileUploadSizeLimit THEN {i} ELSE {})
         ELSE nodes = (IF IsTooLarge(getSizeValue(Last(sizes).value), fileUploadSizeLimit)
                       THEN {CHOOSE j \in DOMAIN statements : j > i /\ statements[j] = Last(sizes)
                               /\ \A k \in (j + 1)..Len(statements) :
                                    ~(statements[k].kind = "assign" /\ statements[k].form = statements[i].form /\ statements[k].property = "maxFileSize")}
                       ELSE {})

RECURSIVE HasVariablePart(_)
HasVariablePart(e) ==
  IF e.type = "BinaryExpression" THEN HasVariablePart(e.left) \/ HasVariablePart(e.right) ELSE ~isHardcodedLiteral(e)

\* Every query with a variable part, built by a concatenation or a template after the
\* import of a database module in the same file, is reported, and no other query than those
\* with a part that is not a literal (isDbModuleImported, isVariableConcat).
BuiltQueriesAreReported ==
  phase = "file" =>
    \A i \in DOMAIN statements : statements[i].kind = "query" =>
      LET imported == \E j \in 1..(i - 1) : statements[j].kind \in {"import", "require"}
          e == statements[i].argument
      IN /\ imported /\ e.type \in {"BinaryExpression", "TemplateLiteral"} /\ HasVariablePart(e) => i \in Reported("sql-queries")
         /\ i \in Reported("sql-queries") =>
              imported /\ (HasVariablePart(e) \/ (IF e.type = "BinaryExpression" THEN e.right.type = "BinaryExpression" ELSE FALSE))

\* A call encrypt is reported exactly when crypto.subtle was used before it in this file or
\* is used by the call itself (usingCryptoInFile, read on exit from the call).
EncryptionFollowsSubtle ==
  phase = "file" =>
    \A i \in DOMAIN statements : statements[i].kind \in ClientSideCalls =>
      (i \in Reported("encryption") <=> \E j \in 1..i : UsesSubtle(statements[j]))

\* The size an upload is limited to when it runs: the last entry of the option.
LimitValues(call, path) == IF call.arguments = <<>> THEN {None} ELSE PathValues(call.arguments[1], path)

KnownSize(e) == e.type = "Literal" /\ e.value[1] \in {"number", "string"}

\* An upload by multer whose size is not limited, or limited to more than the parameter, is
\* reported; a known smaller limit is not (checkMulter, checkSize).
UnlimitedUploadsAreReported ==
  phase = "file" =>
    \A i \in DOMAIN statements :
      IF statements[i].kind # "options" THEN TRUE
      ELSE LET call == statements[i].call
               sizes == LimitValues(call, <<"limits", "fileSize">>)
               large == \E v \in sizes : KnownSize(v) /\ getSizeValue(v) > fileUploadSizeLimit
           IN call.fqn = "multer" =>
                /\ i \in Reported("content-length") => large \/ sizes = {None}
                /\ large \/ LimitValues(call, <<"limits">>) = {None} => i \in Reported("content-length")

\* A parser of request bodies with a limit above the parameter is reported
\* (checkBodyParser).
LargeBodiesAreReported ==
  phase = "file" =>
    \A i \in DOMAIN statements :
      IF statements[i].kind # "options" THEN TRUE
      ELSE LET call == statements[i].call
           IN call.fqn = "body-parser" /\ (\E v \in LimitValues(call, <<"limit">>) : KnownSize(v) /\ getSizeValue(v) > standardSizeLimit)
                => i \in Reported("content-length")

\* The two caches of no-implicit-dependencies agree whatever the order of the files and of
\* the edits: the dependencies of a directory are those of the directories above it, each
\* read once.
CachesAgree ==
  \A d \in DOMAIN cache :
    DirectoriesAbove(d) \subseteq DOMAIN dirCache /\ cache[d] = UNION {dirCache[a] : a \in DirectoriesAbove(d)}

\* The packages that the package.json files above a directory name now.
Declared(d) == UNION {getDependenciesFromPackageJson(packageJson[a]) : a \in DirectoriesAbove(d)}

UpToDate(d) == \A a \in DirectoriesAbove(d) : dirCache[a] = getDependenciesFromPackageJson(packageJson[a])

\* The package of an import that is reported is declared in no package.json above the file,
\* unless one was edited after it was read; a module that is not found otherwise and whose
\* package nothing declares is reported, though other files were judged before
\* (no-implicit-dependencies).
ImportsAreJudgedByTheirPackages ==
  phase = "file" /\ UpToDate(context.dir) =>
    \A i \in DOMAIN statements : statements[i].kind = "module" =>
      LET name == statements[i].name
          mapped == \E p \in context.options.paths : MatchAll(p) \/ IsApplicableTo(p, name)
          free == name[1] \in {".", "..", "node:", "data:"} \/ mapped \/ name \in context.options.underBaseUrl
      IN i \in Reported("no-implicit-dependencies") <=>
           ~free /\ getPackageName(name) \notin Declared(context.dir) \cup Whitelist \cup Builtins

UsesOf(v, kind) == {i \in DOMAIN statements : statements[i].kind = kind /\ statements[i].function = v}

\* A function of the file is reported at its first use that differs from an earlier one, and
\* never again, however its uses go on to alternate (hasIssue in inconsistent-function-call).
InconsistentUsesAreReportedOnce ==
  phase = "file" =>
    \A v \in Variables :
      LET differs == {i \in UsesOf(v, "new") : \E j \in UsesOf(v, "call") : j < i}
                     \cup {i \in UsesOf(v, "call") : \E j \in UsesOf(v, "new") : j < i}
          first == {i \in differs : \A j \in differs : i <= j}
      IN Reported("inconsistent-function-call") \cap (UsesOf(v, "new") \cup UsesOf(v, "call"))
           = (IF HasDefinition(v) THEN first ELSE {})

-----------------------------------------------------------------------------
\* Statements for the runs of FileScanRules.

\* One directory without a package.json.
OneDirectory == [d \in {"/"} |-> d]

NoOptions == {[paths |-> {}, underBaseUrl |-> {}]}

NoModules == {}

\* A project and a package inside it.
Packages == [d \in {"/", "/p"} |-> "/"]

Mapping(asterisks, prefix, suffix) == [asterisks |-> asterisks, prefix |-> prefix, suffix |-> suffix]

SomeOptions ==
  NoOptions \cup {[paths |-> {Mapping(1, <<"b">>, <<>>), Mapping(0, <<"a">>, <<>>), Mapping(2, <<"@scope">>, <<>>)}, underBaseUrl |-> {}],
                  [paths |-> {Mapping(1, <<>>, <<>>)}, underBaseUrl |-> {}],
                  [paths |-> {}, underBaseUrl |-> {<<"a", "sub">>}]}

SomeManifests ==
  {<<>>, <<{<<"a">>}, {<<"@scope", "c">>}, {<<"b">>}>>, <<{<<"@types", "b">>}, Null, {<<"a">>}>>}

SomeModules ==
  {<<"a">>, <<"a", "sub">>, <<"b", "sub">>, <<"@scope", "c">>, <<"@scope", "d", "sub">>, <<"@scope">>, <<".", "a">>, <<"node:", "a">>, <<"data:", "a">>, <<"fs">>}

NoQueries == {}

SettingValues == {Bool("true"), Param, Num(8000001), Num(0), Var(Num(1000))}

Operands == {Str("select"), Template(0), Param}

SomeQueries ==
  LET pairs == {Binary(l, r) : l \in Operands, r \in Operands}
  IN Operands \cup pairs \cup {Binary(p, r) : p \in pairs, r \in Operands} \cup {Binary(Str("select"), p) : p \in pairs}
     \cup {Template(1), Call("concat", <<>>), Call("trim", <<>>), None, Difference(Param, Str("select"))}
     \cup {Binary(Difference(Param, Param), Str("select"))}

NoCalls == {}

SizeValues == {Num(8000001), Num(8000000), Str("4mb"), Str("1mb"), Str("text"), Num(0), Param, Var(Num(8000001))}

Once(S) == S \cup {Var(e) : e \in S}

UploadCalls ==
  LET sizes == {Object(<<Property("fileSize", v)>>) : v \in SizeValues} \cup {Object(<<>>)}
      disk == {Call("diskStorage", <<o>>) : o \in {Object(<<>>), Object(<<Property("destination", Param)>>)}}
      multer == {Object(<<Property("limits", l)>>) : l \in sizes \cup {Param}} \cup {Object(<<>>), Object(<<Property("fileSize", Num(1))>>)}
                \cup {Object(<<Property("limits", Param), Property("storage", d)>>) : d \in Once(disk)}
      formidable == {Object(<<Property("maxFileSize", v), Property(k, b)>>) :
                       v \in SizeValues, k \in {"uploadDir", "keepExtensions"}, b \in {Bool("true"), Bool("false")}}
  IN {Call("multer", <<o>>) : o \in Once(multer) \cup {Param}} \cup {Call("formidable", <<o>>) : o \in Once(formidable)}
     \cup {Call("multer", <<>>), Call("body-parser", <<>>)}
     \cup {Call("body-parser", <<Object(<<Property("limits", v)>>)>>) : v \in SizeValues}

ParserCalls == {Call("body-parser", <<Object(<<Property("limit", v)>>)>>) : v \in SizeValues}

=============================================================================
