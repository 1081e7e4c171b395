--------------------------- MODULE AnalysisCache ---------------------------
(***************************************************************************)
(* The analysis cache of the plugin (eslint/cache): which strategy a file  *)
(* gets, what a hit replays, and what each analysis leaves behind for the  *)
(* next one.  A behaviour is a sequence of scans.  In a scan the sensors   *)
(* run one after the other, each over its own files, reading the previous  *)
(* cache and writing the next one.  Between scans the sources may change,  *)
(* stored entries may be damaged, and plugins may be upgraded.             *)
(***************************************************************************)
EXTENDS Naturals, FiniteSets, Sequences, Folds

CONSTANTS
    Files,      \* the input files
    Sensors,    \* the sensors that use the cache (JavaScript, TypeScript, HTML, YAML)
    SensorOf,   \* the sensor whose predicate selects a file
    IssuesOnly, \* YAML and HTML files, for which the plugin saves nothing but issues
    Contents,   \* what a file can contain
    Plugins,    \* versions of this plugin (PluginInfo.getVersion, possibly null)
    Ucfgs,      \* versions of the UCFG plugin (possibly missing)
    Envs,       \* the contexts a scan may run in, a subset of Env
    MaxScans,   \* bound on the number of scans
    MaxDamage,  \* bound on the number of damaged entries in a stored cache
    WritesFail, \* whether writing an entry may throw
    Absent,     \* no cache entry
    None,       \* no output, no file, no sensor
    Torn        \* UCFG files whose extraction stopped half way

(***************************************************************************)
(* A SensorContext: api is "the runtime API is at least 9.4", lint is "the *)
(* product is SonarLint", security is "the UCFG rule is active".           *)
(***************************************************************************)
Env == [api: BOOLEAN, lint: BOOLEAN, canSkip: BOOLEAN, security: BOOLEAN,
        plugin: Plugins, ucfg: Ucfgs]

ASSUME ConstantsAssumption ==
    /\ SensorOf \in [Files -> Sensors]
    /\ IssuesOnly \subseteq Files
    /\ Envs \subseteq Env
    /\ Envs # {}
    /\ MaxScans \in Nat
    /\ MaxDamage \in Nat
    /\ WritesFail \in BOOLEAN
    /\ None \notin Files \cup Sensors

ASSUME FilesAssumption == IsFiniteSet(Files)

-----------------------------------------------------------------------------
(* Keys and entries *)

UcfgKinds == {"seq", "json"}
PlainKinds == {"data", "strings", "meta"}
DataKinds == {"seq", "json", "data", "strings"}
Kinds == UcfgKinds \cup PlainKinds

Key == [kind: UcfgKinds, file: Files, plugin: Plugins, ucfg: Ucfgs]
         \cup [kind: PlainKinds, file: Files, plugin: Plugins]

\* Mutant of CacheKey: the UCFG keys do not name the version of the UCFG plugin.
CacheKeyWithoutUcfgVersion(f, kind, e) ==
    IF kind \in UcfgKinds
    THEN [kind |-> kind, file |-> f, plugin |-> e.plugin, ucfg |-> CHOOSE u \in Ucfgs : TRUE]
    ELSE [kind |-> kind, file |-> f, plugin |-> e.plugin]

\* CacheKey: every key names the plugin version and the file, and only the
\* keys of UCFG entries the version of the UCFG plugin.
CacheKey(f, kind, e) ==
    IF kind \in UcfgKinds
    THEN [kind |-> kind, file |-> f, plugin |-> e.plugin, ucfg |-> e.ucfg]
    ELSE [kind |-> kind, file |-> f, plugin |-> e.plugin]

\* What reading an entry does: it succeeds, throws an IOException, or throws
\* an unchecked exception (null metadata, invalid path, negative array size).
EntryStates == {"intact", "io", "unchecked"}

\* What an analysis of content by a plugin and a UCFG version produces.
Product == [content: Contents, plugin: Plugins, ucfg: Ucfgs]

Entry == [product: Product, state: EntryStates]

Cache == [Key -> Entry \cup {Absent}]

EmptyCache == [k \in Key |-> Absent]

ASSUME NoneIsNoProduct == None \notin Product

ASSUME AbsentIsNoEntry == Absent \notin Entry

Reasons == {"HIT", "RUNTIME_API_INCOMPATIBLE", "ANALYSIS_MODE_INELIGIBLE",
            "FILE_CHANGED", "FILE_NOT_IN_CACHE", "CACHE_CORRUPTED"}

Names == {"NO_CACHE", "WRITE_ONLY", "READ_AND_WRITE"}

Strategy == [file: Files \cup {None}, name: Names \cup {"NONE"},
             reason: Reasons \cup {"NONE"}]

NoStrategy == [file |-> None, name |-> "NONE", reason |-> "NONE"]

-----------------------------------------------------------------------------

VARIABLES
    source,     \* source[f]: the content of file f
    prev,       \* previousCache of the current scan
    next,       \* nextCache of the current scan
    env,        \* the SensorContext of the current scan
    phase,      \* "idle" between scans, "scan" between sensors, "sensor" between files, "file"
    sensor,     \* the sensor that executes
    pending,    \* sensors this scan has still to execute
    todo,       \* files the sensor has still to analyze
    strategy,   \* the CacheStrategy of the file being analyzed
    ucfgOut,    \* ucfgOut[f]: UCFG files of f in the working directory
    cpdOut,     \* cpdOut[f]: CPD tokens of f saved in this scan
    done,       \* done[f]: how f was finished in this scan
    counters,   \* CacheReporter.counters
    scans       \* number of scans started

vars == <<source, prev, next, env, phase, sensor, pending, todo, strategy,
          ucfgOut, cpdOut, done, counters, scans>>

inputVars == <<source, prev, env, scans>>
outputVars == <<ucfgOut, cpdOut, done>>

\* CacheReporter.getTotal
Total == MapThenFoldSet(+, 0, LAMBDA r : counters[r], LAMBDA S : CHOOSE r \in S : TRUE, Reasons)

NoCounts == [r \in Reasons |-> 0]
NoOutput == [f \in Files |-> None]
NotDone == [f \in Files |-> "no"]

Init ==
    /\ source \in [Files -> Contents]
    /\ prev = EmptyCache
    /\ next = EmptyCache
    /\ env \in Envs
    /\ phase = "idle"
    /\ sensor = None
    /\ pending = {}
    /\ todo = {}
    /\ strategy = NoStrategy
    /\ ucfgOut = NoOutput
    /\ cpdOut = NoOutput
    /\ done = NotDone
    /\ counters = NoCounts
    /\ scans = 0

-----------------------------------------------------------------------------
(* Between scans *)

\* A source file is edited.
Edit(f, c) ==
    /\ phase = "idle"
    /\ source[f] # c
    /\ source' = [source EXCEPT ![f] = c]
    /\ UNCHANGED <<prev, next, env, phase, sensor, pending, todo, strategy,
                   outputVars, counters, scans>>

Damaged == {k \in Key : prev[k] # Absent /\ prev[k].state # "intact"}

\* A stored entry is damaged.
Damage(k, s) ==
    /\ phase = "idle"
    /\ prev[k] # Absent
    /\ prev[k].state = "intact"
    /\ Cardinality(Damaged) < MaxDamage
    /\ prev' = [prev EXCEPT ![k].state = s]
    /\ UNCHANGED <<source, next, env, phase, sensor, pending, todo, strategy,
                   outputVars, counters, scans>>

\* The scanner starts: a process of its own, with an empty next cache and an
\* empty working directory.
StartScan(e) ==
    /\ phase = "idle"
    /\ scans < MaxScans
    /\ scans' = scans + 1
    /\ env' = e
    /\ phase' = "scan"
    /\ pending' = Sensors
    /\ UNCHANGED <<source, prev, next, sensor, todo, strategy, outputVars, counters>>

\* The process of the scanner is gone, with all it did not publish.
LeaveScan ==
    /\ phase' = "idle"
    /\ next' = EmptyCache
    /\ sensor' = None
    /\ pending' = {}
    /\ todo' = {}
    /\ strategy' = NoStrategy
    /\ ucfgOut' = NoOutput
    /\ cpdOut' = NoOutput
    /\ done' = NotDone
    /\ counters' = NoCounts
    /\ UNCHANGED <<source, env, scans>>

\* The scanner finishes.  The next cache is stored, or it is not (the cache of
\* a pull request need not be kept), in which case the old one is read again.
EndScan(kept) ==
    /\ phase = "scan"
    /\ pending = {}
    /\ prev' = IF kept THEN next ELSE prev
    /\ LeaveScan

\* The scanner dies, or a sensor fails under sonar.internal.analysis.failFast:
\* nothing is published.
FailScan ==
    /\ phase # "idle"
    /\ LeaveScan
    /\ UNCHANGED prev

-----------------------------------------------------------------------------
(* AbstractEslintSensor.execute *)

FilesOf(s) == {f \in Files : SensorOf[f] = s}

\* A sensor starts: the static reporter is reset.
StartSensor(s) ==
    /\ phase = "scan"
    /\ s \in pending
    /\ phase' = "sensor"
    /\ sensor' = s
    /\ pending' = pending \ {s}
    /\ todo' = FilesOf(s)
    /\ counters' = NoCounts
    /\ UNCHANGED <<inputVars, next, strategy, outputVars>>

\* execute ends, normally or through one of its catch clauses.
LeaveSensor ==
    /\ phase' = "scan"
    /\ sensor' = None
    /\ todo' = {}
    /\ strategy' = NoStrategy
    /\ UNCHANGED <<inputVars, pending>>

EndSensor ==
    /\ phase = "sensor"
    /\ todo = {}
    /\ LeaveSensor
    /\ UNCHANGED <<next, outputVars, counters>>

\* The bridge does not start or stops answering, or the analysis is cancelled:
\* execute catches the exception and the other sensors still run.
BridgeFailure ==
    /\ phase \in {"sensor", "file"}
    /\ phase = "file" => strategy.name # "READ_AND_WRITE"
    /\ LeaveSensor
    /\ UNCHANGED <<next, outputVars, counters>>

-----------------------------------------------------------------------------
(* CacheStrategies.getStrategyFor *)

IsRuntimeApiCompatible == env.api /\ ~env.lint

\* AnalysisMode.getMode
Mode == IF env.api /\ env.canSkip /\ env.security THEN "SKIP_UNCHANGED" ELSE "DEFAULT"

EntryOf(f, kind) == prev[CacheKey(f, kind, env)]

IsInPrevious(f, kind) == EntryOf(f, kind) # Absent

\* CacheAnalysisSerialization.isInCache
IsInCache(f) == \A kind \in DataKinds : IsInPrevious(f, kind)

\* Mutant of IsSameFile: the metadata is only required to exist.
AnyMetadata(f) == IsInPrevious(f, "meta")

\* FileMetadata.compareTo: same size and same hash stand for the same content.
IsSameFile(f) == EntryOf(f, "meta").product.content = source[f]

\* CacheAnalysisSerialization.readFromCache: the order entries are read in.
ReadOrder == <<"json", "seq", "data", "strings">>

Unreadable(f) == {i \in 1..4 : EntryOf(f, ReadOrder[i]).state # "intact"}

\* How readFromCache ends: "intact", "io" or "unchecked".
ReadResult(f) ==
    IF Unreadable(f) = {} THEN "intact"
    ELSE LET first == CHOOSE i \in Unreadable(f) : \A j \in Unreadable(f) : i <= j
         IN  EntryOf(f, ReadOrder[first]).state

\* The UCFG files readFromCache leaves in the working directory.
Extracted(f) ==
    IF EntryOf(f, "json").state # "intact" THEN ucfgOut[f]
    ELSE IF EntryOf(f, "seq").state # "intact" THEN Torn
    ELSE EntryOf(f, "seq").product

\* getStrategyFor up to the attempt to read: a miss reason, "THROW" for metadata
\* that cannot be read (fileMetadata lets its IOException through), or "READ".
Lookup(f) ==
    IF ~IsRuntimeApiCompatible THEN "RUNTIME_API_INCOMPATIBLE"
    ELSE IF ~env.canSkip THEN "ANALYSIS_MODE_INELIGIBLE"
    ELSE IF ~IsInPrevious(f, "meta") THEN "FILE_CHANGED"
    ELSE IF EntryOf(f, "meta").state # "intact" THEN "THROW"
    ELSE IF ~IsSameFile(f) THEN "FILE_CHANGED"
    ELSE IF ~IsInCache(f) THEN "FILE_NOT_IN_CACHE"
    ELSE "READ"

\* The way getStrategyFor ends: readFromCache turns an IOException into a
\* miss and lets an unchecked exception through.
Outcome(f) ==
    IF Lookup(f) # "READ" THEN Lookup(f)
    ELSE IF ReadResult(f) = "intact" THEN "HIT"
    ELSE IF ReadResult(f) = "io" THEN "CACHE_CORRUPTED"
    ELSE "THROW"

\* The working directory once getStrategyFor is over.
WorkDirAfterRead(f) ==
    IF Lookup(f) = "READ" THEN [ucfgOut EXCEPT ![f] = Extracted(f)] ELSE ucfgOut

\* Mutant of StrategyName: a corrupted entry falls back to a strategy of its own.
StrategyNameCorrupted(outcome) ==
    CASE outcome = "RUNTIME_API_INCOMPATIBLE" -> "NO_CACHE"
      [] outcome = "HIT" -> "READ_AND_WRITE"
      [] outcome = "CACHE_CORRUPTED" -> "READ_ONLY"
      [] OTHER -> "WRITE_ONLY"

\* CacheStrategy.noCache, writeOnly and readAndWrite.
StrategyName(outcome) ==
    CASE outcome = "RUNTIME_API_INCOMPATIBLE" -> "NO_CACHE"
      [] outcome = "HIT" -> "READ_AND_WRITE"
      [] OTHER -> "WRITE_ONLY"

\* CacheAnalysisSerialization.copyFromPrevious: the UCFG and CPD entries.
CopyFromPrevious(f) ==
    LET copied == {CacheKey(f, kind, env) : kind \in DataKinds}
    IN  [k \in Key |-> IF k \in copied THEN prev[k] ELSE next[k]]

\* Mutant of NextAfterRead: the entries are copied before they are read.
CopyBeforeRead(f) == IF Lookup(f) = "READ" THEN CopyFromPrevious(f) ELSE next

\* CacheStrategies.readFromCache copies only after everything could be read.
NextAfterRead(f) == IF Outcome(f) = "HIT" THEN CopyFromPrevious(f) ELSE next

GetStrategyFor(f) ==
    /\ phase = "sensor"
    /\ f \in todo
    /\ Outcome(f) # "THROW"
    /\ phase' = "file"
    /\ todo' = todo \ {f}
    /\ strategy' = [file |-> f, name |-> StrategyName(Outcome(f)), reason |-> Outcome(f)]
    /\ counters' = [counters EXCEPT ![Outcome(f)] = @ + 1]
    /\ next' = NextAfterRead(f)
    /\ ucfgOut' = WorkDirAfterRead(f)
    /\ UNCHANGED <<inputVars, sensor, pending, cpdOut, done>>

\* Damaged metadata, or an exception that readFromCache does not catch, leaves
\* getStrategyFor before the reporter counts the file and ends the sensor.
GetStrategyThrows(f) ==
    /\ phase = "sensor"
    /\ f \in todo
    /\ Outcome(f) = "THROW"
    /\ LeaveSensor
    /\ ucfgOut' = WorkDirAfterRead(f)
    /\ UNCHANGED <<next, cpdOut, done, counters>>

-----------------------------------------------------------------------------
(* analyze(file) of the sensors, once the strategy is known *)

IsAnalysisRequired == strategy.name # "READ_AND_WRITE"

ProductOf(f) == [content |-> source[f], plugin |-> env.plugin, ucfg |-> env.ucfg]

\* The CPD tokens of p are saved, unless only issues are saved for f.
SaveCpd(f, p) == IF f \in IssuesOnly THEN cpdOut ELSE [cpdOut EXCEPT ![f] = p]

\* A hit: the CPD tokens of the cached analysis are saved.
ProcessCacheAnalysis ==
    LET f == strategy.file IN
    /\ phase = "file"
    /\ ~IsAnalysisRequired
    /\ cpdOut' = SaveCpd(f, EntryOf(f, "data").product)
    /\ done' = [done EXCEPT ![f] = "hit"]
    /\ phase' = "sensor"
    /\ strategy' = NoStrategy
    /\ UNCHANGED <<inputVars, next, sensor, pending, todo, ucfgOut, counters>>

\* Mutant of WriteOrder: the metadata is written first.
MetadataFirst == <<"meta", "seq", "json", "data", "strings">>

\* The order CacheAnalysisSerialization.writeToCache writes the entries in.
WriteOrder == <<"seq", "json", "data", "strings", "meta">>

\* The next cache once the first n entries of f are written.
WriteToCache(f, n) ==
    LET written == {CacheKey(f, WriteOrder[i], env) : i \in 1..n}
    IN  [k \in Key |-> IF k \in written
                       THEN [product |-> ProductOf(f), state |-> "intact"]
                       ELSE next[k]]

\* The bridge answers: "ok", or "failed" (a parsing error: no UCFG files, no
\* CPD tokens saved), and the analysis is processed.
ProcessResponse(f, response) ==
    /\ ucfgOut' = IF response = "ok" THEN [ucfgOut EXCEPT ![f] = ProductOf(f)] ELSE ucfgOut
    /\ cpdOut' = IF response = "ok" THEN SaveCpd(f, ProductOf(f)) ELSE cpdOut

\* A miss: the file is analyzed and its analysis written, unless NO_CACHE.
Analyze(response) ==
    LET f == strategy.file IN
    /\ phase = "file"
    /\ IsAnalysisRequired
    /\ ProcessResponse(f, response)
    /\ next' = IF strategy.name = "NO_CACHE" THEN next ELSE WriteToCache(f, 5)
    /\ done' = [done EXCEPT ![f] = IF response = "ok" THEN "analyzed" ELSE "failed"]
    /\ phase' = "sensor"
    /\ strategy' = NoStrategy
    /\ UNCHANGED <<inputVars, sensor, pending, todo, counters>>

\* Writing entry n + 1 throws (an unreadable UCFG file, a failing cache): the
\* entries written so far stay in the next cache and the sensor ends.
WriteThrows(response, n) ==
    LET f == strategy.file IN
    /\ WritesFail
    /\ phase = "file"
    /\ strategy.name = "WRITE_ONLY"
    /\ ProcessResponse(f, response)
    /\ next' = WriteToCache(f, n)
    /\ LeaveSensor
    /\ UNCHANGED <<done, counters>>

Next ==
    \/ \E f \in Files, c \in Contents : Edit(f, c)
    \/ \E k \in Key, s \in {"io", "unchecked"} : Damage(k, s)
    \/ \E e \in Envs : StartScan(e)
    \/ \E kept \in BOOLEAN : EndScan(kept)
    \/ FailScan
    \/ \E s \in Sensors : StartSensor(s)
    \/ EndSensor
    \/ BridgeFailure
    \/ \E f \in Files : GetStrategyFor(f)
    \/ \E f \in Files : GetStrategyThrows(f)
    \/ ProcessCacheAnalysis
    \/ \E response \in {"ok", "failed"} : Analyze(response)
    \/ \E response \in {"ok", "failed"}, n \in 0..4 : WriteThrows(response, n)

Spec == Init /\ [][Next]_vars

-----------------------------------------------------------------------------
(* Properties *)

\* Every variable has its type.
TypeOK ==
    /\ source \in [Files -> Contents]
    /\ prev \in Cache
    /\ next \in Cache
    /\ env \in Env
    /\ phase \in {"idle", "scan", "sensor", "file"}
    /\ sensor \in Sensors \cup {None}
    /\ pending \subseteq Sensors
    /\ todo \subseteq Files
    /\ strategy \in Strategy
    /\ ucfgOut \in [Files -> Product \cup {None, Torn}]
    /\ cpdOut \in [Files -> Product \cup {None}]
    /\ done \in [Files -> {"no", "hit", "analyzed", "failed"}]
    /\ counters \in [Reasons -> Nat]
    /\ scans \in Nat

\* A file that a scan finished, by analysis or from the cache, has in the working
\* directory the UCFG files, and in the report the CPD tokens, of an analysis of
\* its current content by the current plugins: over any sequence of edits,
\* upgrades, damage, failed and discarded scans, a hit never replays the data of
\* another content or version, and never the torn remains of a failed read
\* (CacheStrategies.getStrategyFor, CacheAnalysisSerialization.readFromCache).
FinishedOutputsFresh ==
    \A f \in Files : done[f] \in {"hit", "analyzed"} =>
        /\ ucfgOut[f] = ProductOf(f)
        /\ f \notin IssuesOnly => /\ cpdOut[f] # None
                                  /\ cpdOut[f].content = source[f]
                                  /\ cpdOut[f].plugin = env.plugin

\* A scan never leaves a damaged entry behind: copyFromPrevious runs only after
\* every entry it copies was read without an exception.
NextCacheIntact ==
    \A k \in Key : next[k] # Absent => next[k].state = "intact"

\* Metadata vouches for the rest: where a cache holds the metadata of a file, it
\* holds the CPD entries and the UCFG entries of the scan that wrote it, because
\* writeToCache writes the metadata last.  Hence FILE_NOT_IN_CACHE is met only
\* after an upgrade of the UCFG plugin, never after a write that stopped half way.
MetadataVouches ==
    \A cache \in {prev, next} : \A f \in Files, p \in Plugins :
        LET e(u) == [plugin |-> p, ucfg |-> u] IN
        (\E u \in Ucfgs : cache[CacheKey(f, "meta", e(u))] # Absent) =>
            \E u \in Ucfgs : \A kind \in DataKinds : cache[CacheKey(f, kind, e(u))] # Absent

\* The cache of the Sonar API refuses to write a key twice: within a scan an entry
\* of the next cache is never replaced, not even when a file whose entries could
\* not be read is analyzed and written anew.
EntryWrittenOnce ==
    [][phase' # "idle" => \A k \in Key : next[k] # Absent => next'[k] = next[k]]_vars

\* The report of a sensor counts its own files only, each once: the files it is
\* done with are the ones counted, and the hits are the files it did not analyze
\* (CacheStrategies.reset, CacheReporter.logAndIncrement).
ReportCountsSensorFiles ==
    phase = "sensor" =>
        /\ Total = Cardinality(FilesOf(sensor) \ todo)
        /\ counters["HIT"] = Cardinality({f \in FilesOf(sensor) : done[f] = "hit"})

\* The entries of a cache belong together: whatever plugin wrote them, those of
\* one file come from one content, and their keys name the versions that made
\* them (CacheKey.forFile, forUcfg).
Versioned(cache) ==
    \A k \in Key : cache[k] # Absent =>
        /\ cache[k].product.plugin = k.plugin
        /\ k.kind \in UcfgKinds => cache[k].product.ucfg = k.ucfg

Coherent(cache) ==
    /\ Versioned(cache)
    /\ \A k, l \in Key : k.file = l.file /\ cache[k] # Absent /\ cache[l] # Absent =>
          cache[k].product.content = cache[l].product.content

\* The next cache holds only what this scan's sources gave.
NextFromSources ==
    /\ Versioned(next)
    /\ \A k \in Key : next[k] # Absent => next[k].product.content = source[k.file]

\* Nothing of a scan outlives it, and its sensors take turns.
ScanDiscipline ==
    /\ phase = "idle" => next = EmptyCache /\ done = NotDone /\ pending = {}
    /\ phase \in {"idle", "scan"} => todo = {} /\ sensor = None
    /\ \A f \in todo : SensorOf[f] = sensor
    /\ sensor \notin pending
    /\ phase = "file" => /\ strategy.file \in Files
                         /\ strategy.file \notin todo
                         /\ SensorOf[strategy.file] = sensor

\* The files whose entries of this scan are not written yet.
Unwritten ==
    {f \in Files : \/ SensorOf[f] \in pending
                   \/ f \in todo
                   \/ phase = "file" /\ f = strategy.file /\ strategy.name # "READ_AND_WRITE"}

UnwrittenClean ==
    \A f \in Unwritten : done[f] = "no" /\ \A k \in Key : k.file = f => next[k] = Absent

\* A hit has extracted the UCFG files, and read the CPD tokens, of its source.
HitReady ==
    phase = "file" /\ strategy.name = "READ_AND_WRITE" =>
        LET f == strategy.file IN
        /\ done[f] = "no"
        /\ ucfgOut[f] = ProductOf(f)
        /\ EntryOf(f, "data") # Absent
        /\ EntryOf(f, "data").product.content = source[f]
        /\ EntryOf(f, "data").product.plugin = env.plugin

\* The inductive invariant behind FinishedOutputsFresh and EntryWrittenOnce: the
\* stored cache is coherent, the next one holds only intact entries made from
\* the current sources, a file still to be written has none of them, and a hit
\* has already extracted the UCFG files of the current source.
CacheInvariant ==
    /\ Coherent(prev)
    /\ NextFromSources
    /\ NextCacheIntact
    /\ ScanDiscipline
    /\ UnwrittenClean
    /\ HitReady
    /\ FinishedOutputsFresh

\* "the current file is changed" is what a FILE_CHANGED miss reports: it is not
\* reported for a file whose complete analysis, for its current content and by
\* the current plugins, is there in the previous cache.
FileChangedMeansChanged ==
    strategy.reason = "FILE_CHANGED" =>
        ~ /\ IsInCache(strategy.file)
          /\ \A kind \in DataKinds :
                EntryOf(strategy.file, kind).product.content = source[strategy.file]

\* "Analysis of unchanged files will not be skipped (security rules are not
\* available)" is logged in DEFAULT mode: then no file is taken from the cache.
DefaultModeSkipsNothing ==
    Mode = "DEFAULT" => strategy.name # "READ_AND_WRITE"

-----------------------------------------------------------------------------
(* Contexts of the scans that TLC checks *)

\* A scan with a cache: of a pull request, where files may be skipped, or of a
\* branch, before and after an upgrade of either plugin.
Scan(canSkip, p, u) ==
    [api |-> TRUE, lint |-> FALSE, canSkip |-> canSkip, security |-> TRUE,
     plugin |-> p, ucfg |-> u]

VersionEnvs == {Scan(TRUE, "p1", "u1"), Scan(TRUE, "p1", "u2"), Scan(TRUE, "p2", "u1"),
                Scan(FALSE, "p1", "u1")}

\* A pull request, in the scanner and in SonarLint, which has no cache.
PullRequestEnvs == {Scan(TRUE, "p1", "u1"), [Scan(TRUE, "p1", "u1") EXCEPT !.lint = TRUE]}

\* A pull request, with and without the UCFG rule.
NoSecurityEnvs == {Scan(TRUE, "p1", "u1"), [Scan(TRUE, "p1", "u1") EXCEPT !.security = FALSE]}

\* One file of one sensor.
JustOneFile == [f \in {"f1"} |-> "js"]

=============================================================================
