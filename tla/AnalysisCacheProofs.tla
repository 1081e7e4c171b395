------------------------ MODULE AnalysisCacheProofs ------------------------
(* Proofs of the invariants of AnalysisCache, for any files, sensors, versions *)
(* and number of scans. *)
EXTENDS AnalysisCache, TLAPS

USE DEF Kinds, UcfgKinds, PlainKinds, DataKinds

\* A key built for a file and the context of a scan is a key of the cache, and
\* names the file, the kind and the versions it was built from.
LEMMA CacheKeyType ==
    ASSUME NEW f \in Files, NEW kind \in Kinds, NEW e \in Env
    PROVE  /\ CacheKey(f, kind, e) \in Key
           /\ CacheKey(f, kind, e).file = f
           /\ CacheKey(f, kind, e).kind = kind
           /\ CacheKey(f, kind, e).plugin = e.plugin
           /\ kind \in UcfgKinds => CacheKey(f, kind, e).ucfg = e.ucfg
  BY DEF CacheKey, Key, Env

\* What an analysis of the current source produces is a product.
LEMMA ProductOfType ==
    ASSUME TypeOK, NEW f \in Files
    PROVE  ProductOf(f) \in Product
  BY DEF TypeOK, ProductOf, Product, Env

\* Writing some entries of a file keeps the next cache a cache.
LEMMA WriteToCacheType ==
    ASSUME TypeOK, NEW f \in Files, NEW n \in 0..5
    PROVE  WriteToCache(f, n) \in Cache
  BY ProductOfType DEF TypeOK, WriteToCache, Cache, Entry, EntryStates

\* Reading, with the copy a hit makes, keeps the next cache a cache.
LEMMA NextAfterReadType ==
    ASSUME TypeOK, NEW f \in Files
    PROVE  NextAfterRead(f) \in Cache
  BY DEF TypeOK, NextAfterRead, CopyFromPrevious, Cache

\* The outcome of getStrategyFor is a reason, unless it throws.
LEMMA OutcomeType ==
    ASSUME NEW f \in Files, Outcome(f) # "THROW"
    PROVE  Outcome(f) \in Reasons
  BY DEF Outcome, Lookup, Reasons

\* The entries read from the previous cache are entries or absent.
LEMMA EntryOfType ==
    ASSUME TypeOK, NEW f \in Files, NEW kind \in Kinds
    PROVE  EntryOf(f, kind) \in Entry \cup {Absent}
  BY CacheKeyType DEF TypeOK, EntryOf, Cache

\* getStrategyFor reads only when metadata and data entries are all there.
LEMMA ReadMeansPresent ==
    ASSUME TypeOK, NEW f \in Files, Lookup(f) = "READ"
    PROVE  /\ \A kind \in Kinds : EntryOf(f, kind) \in Entry
           /\ IsSameFile(f)
           /\ IsRuntimeApiCompatible
           /\ env.canSkip
  <1>1. /\ IsInPrevious(f, "meta")
        /\ IsInCache(f)
        /\ IsSameFile(f)
        /\ IsRuntimeApiCompatible
        /\ env.canSkip
    BY DEF Lookup
  <1>2. \A kind \in Kinds : EntryOf(f, kind) # Absent
    BY <1>1 DEF IsInCache, IsInPrevious
  <1>3. QED
    BY <1>1, <1>2, EntryOfType

\* The working directory keeps its type when entries are extracted.
LEMMA WorkDirType ==
    ASSUME TypeOK, NEW f \in Files
    PROVE  WorkDirAfterRead(f) \in [Files -> Product \cup {None, Torn}]
  <1>1. CASE Lookup(f) = "READ"
    <2>1. EntryOf(f, "seq") \in Entry
      BY <1>1, ReadMeansPresent
    <2>2. EntryOf(f, "seq").product \in Product
      BY <2>1 DEF Entry
    <2>3. Extracted(f) \in Product \cup {None, Torn}
      BY <2>2 DEF Extracted, TypeOK
    <2>4. QED
      BY <2>3 DEF WorkDirAfterRead, TypeOK
  <1>2. CASE Lookup(f) # "READ"
    BY <1>2 DEF WorkDirAfterRead, TypeOK
  <1>3. QED
    BY <1>1, <1>2

\* A file the strategy was found for is an input file.  This, and the entry that
\* a hit has read, is what the actions on the current file rely on.
FileInv ==
    phase = "file" =>
        /\ strategy.file \in Files
        /\ strategy.name = "READ_AND_WRITE" => EntryOf(strategy.file, "data") \in Entry

TypeInv == TypeOK /\ FileInv

USE DEF inputVars, outputVars

LEMMA TypeInit == Init => TypeInv
  BY ConstantsAssumption
  DEF Init, TypeInv, TypeOK, FileInv, Cache, EmptyCache, NoOutput, NotDone, NoCounts,
      Strategy, NoStrategy

\* Every step keeps the types.
LEMMA TypeNext == TypeInv /\ [Next]_vars => TypeInv'
  <1> SUFFICES ASSUME TypeInv, [Next]_vars
               PROVE  TypeInv'
    OBVIOUS
  <1> USE DEF TypeInv
  <1>1. ASSUME NEW f \in Files, NEW c \in Contents, Edit(f, c)
        PROVE  TypeInv'
    BY <1>1 DEF Edit, TypeOK, FileInv
  <1>2. ASSUME NEW k \in Key, NEW s \in {"io", "unchecked"}, Damage(k, s)
        PROVE  TypeInv'
    <2>1. prev[k] \in Entry
      BY <1>2 DEF Damage, TypeOK, Cache
    <2>2. [prev[k] EXCEPT !.state = s] \in Entry
      BY <2>1 DEF Entry, EntryStates
    <2>3. prev' \in Cache
      BY <1>2, <2>2 DEF Damage, TypeOK, Cache
    <2>4. QED
      BY <1>2, <2>3 DEF Damage, TypeOK, FileInv
  <1>3. ASSUME NEW e \in Envs, StartScan(e)
        PROVE  TypeInv'
    BY <1>3, ConstantsAssumption DEF StartScan, TypeOK, FileInv
  <1>4. ASSUME LeaveScan, prev' \in Cache
        PROVE  TypeInv'
    BY <1>4 DEF LeaveScan, TypeOK, FileInv, Cache, EmptyCache, NoOutput, NotDone,
                NoCounts, Strategy, NoStrategy
  <1>5. ASSUME NEW kept \in BOOLEAN, EndScan(kept)
        PROVE  TypeInv'
    BY <1>4, <1>5 DEF EndScan, TypeOK
  <1>6. ASSUME FailScan
        PROVE  TypeInv'
    BY <1>4, <1>6 DEF FailScan, TypeOK
  <1>7. ASSUME NEW s \in Sensors, StartSensor(s)
        PROVE  TypeInv'
    BY <1>7 DEF StartSensor, TypeOK, FileInv, FilesOf, NoCounts
  <1>8. ASSUME LeaveSensor, next' \in Cache, counters' \in [Reasons -> Nat],
               ucfgOut' \in [Files -> Product \cup {None, Torn}],
               cpdOut' \in [Files -> Product \cup {None}],
               done' = done
        PROVE  TypeInv'
    BY <1>8 DEF LeaveSensor, TypeOK, FileInv, Strategy, NoStrategy
  <1>9. ASSUME EndSensor \/ BridgeFailure
        PROVE  TypeInv'
    BY <1>8, <1>9 DEF EndSensor, BridgeFailure, TypeOK
  <1>10. ASSUME NEW f \in Files, GetStrategyFor(f)
         PROVE  TypeInv'
    <2>1. next' \in Cache
      BY <1>10, NextAfterReadType DEF GetStrategyFor
    <2>2. ucfgOut' \in [Files -> Product \cup {None, Torn}]
      BY <1>10, WorkDirType DEF GetStrategyFor
    <2>3. Outcome(f) \in Reasons
      BY <1>10, OutcomeType DEF GetStrategyFor
    <2>4. strategy' \in Strategy
      BY <1>10, <2>3 DEF GetStrategyFor, Strategy, StrategyName, Names
    <2>5. counters' \in [Reasons -> Nat]
      BY <1>10, <2>3 DEF GetStrategyFor, TypeOK
    <2>6. TypeOK'
      BY <1>10, <2>1, <2>2, <2>4, <2>5 DEF GetStrategyFor, TypeOK
    <2>7. strategy'.file = f /\ (strategy'.name = "READ_AND_WRITE" => Outcome(f) = "HIT")
      BY <1>10, <2>3 DEF GetStrategyFor, StrategyName, Reasons
    <2>8. Outcome(f) = "HIT" => Lookup(f) = "READ"
      BY DEF Outcome, Lookup
    <2>9. strategy'.name = "READ_AND_WRITE" => EntryOf(f, "data") \in Entry
      BY <2>7, <2>8, ReadMeansPresent
    <2>10. FileInv'
      BY <1>10, <2>7, <2>9 DEF GetStrategyFor, FileInv, EntryOf
    <2>11. QED
      BY <2>6, <2>10
  <1>11. ASSUME NEW f \in Files, GetStrategyThrows(f)
         PROVE  TypeInv'
    <2>1. ucfgOut' \in [Files -> Product \cup {None, Torn}]
      BY <1>11, WorkDirType DEF GetStrategyThrows
    <2>2. QED
      BY <1>8, <1>11, <2>1 DEF GetStrategyThrows, TypeOK
  <1>12. ASSUME ProcessCacheAnalysis
         PROVE  TypeInv'
    <2>1. /\ strategy.file \in Files
          /\ EntryOf(strategy.file, "data").product \in Product
      BY <1>12 DEF ProcessCacheAnalysis, IsAnalysisRequired, FileInv, Entry
    <2>2. QED
      BY <1>12, <2>1
      DEF ProcessCacheAnalysis, SaveCpd, TypeOK, FileInv, Strategy, NoStrategy
  <1>13. ASSUME NEW response \in {"ok", "failed"}, phase = "file",
                ProcessResponse(strategy.file, response)
         PROVE  /\ ucfgOut' \in [Files -> Product \cup {None, Torn}]
                /\ cpdOut' \in [Files -> Product \cup {None}]
    BY <1>13, ProductOfType DEF ProcessResponse, SaveCpd, TypeOK, FileInv
  <1>14. ASSUME NEW response \in {"ok", "failed"}, Analyze(response)
         PROVE  TypeInv'
    <2>1. next' \in Cache
      BY <1>14, WriteToCacheType DEF Analyze, TypeOK, FileInv
    <2>2. strategy.file \in Files
      BY <1>14 DEF Analyze, FileInv
    <2>3. /\ ucfgOut' \in [Files -> Product \cup {None, Torn}]
          /\ cpdOut' \in [Files -> Product \cup {None}]
      BY <1>13, <1>14 DEF Analyze
    <2>4. QED
      BY <1>14, <2>1, <2>2, <2>3 DEF Analyze, TypeOK, FileInv, Strategy, NoStrategy
  <1>15. ASSUME NEW response \in {"ok", "failed"}, NEW n \in 0..4, WriteThrows(response, n)
         PROVE  TypeInv'
    <2>1. next' \in Cache
      BY <1>15, WriteToCacheType DEF WriteThrows, FileInv
    <2>2. /\ ucfgOut' \in [Files -> Product \cup {None, Torn}]
          /\ cpdOut' \in [Files -> Product \cup {None}]
      BY <1>13, <1>15 DEF WriteThrows
    <2>3. QED
      BY <1>8, <1>15, <2>1, <2>2 DEF WriteThrows, TypeOK
  <1>16. CASE UNCHANGED vars
    BY <1>16 DEF vars, TypeOK, FileInv, EntryOf
  <1>17. QED
    BY <1>1, <1>2, <1>3, <1>5, <1>6, <1>7, <1>9, <1>10, <1>11, <1>12, <1>14, <1>15, <1>16
    DEF Next

\* Every variable keeps its type, whatever the constants.
THEOREM TypeCorrect == Spec => []TypeOK
  <1>1. Spec => []TypeInv
    BY TypeInit, TypeNext, PTL DEF Spec
  <1>2. TypeInv => TypeOK
    BY DEF TypeInv
  <1>3. QED
    BY <1>1, <1>2, PTL

-----------------------------------------------------------------------------
(* The inductive invariant *)

LEMMA CacheInvariantInit == Init => CacheInvariant
  BY ConstantsAssumption
  DEF Init, CacheInvariant, Coherent, Versioned, NextFromSources, NextCacheIntact, ScanDiscipline,
      Unwritten, UnwrittenClean, HitReady, FinishedOutputsFresh, EmptyCache, NotDone

\* What the entries of a file tell when getStrategyFor hits: all of them are
\* intact and made from the current source by the current plugins.
LEMMA HitEntries ==
    ASSUME TypeInv, CacheInvariant, NEW f \in Files, Outcome(f) = "HIT"
    PROVE  \A kind \in DataKinds :
             LET e == EntryOf(f, kind) IN
             /\ e \in Entry
             /\ e.state = "intact"
             /\ e.product.content = source[f]
             /\ e.product.plugin = env.plugin
             /\ kind \in UcfgKinds => e.product.ucfg = env.ucfg
  <1> USE DEF TypeInv
  <1>1. Lookup(f) = "READ" /\ ReadResult(f) = "intact"
    BY DEF Outcome, Lookup
  <1>2. /\ \A kind \in Kinds : EntryOf(f, kind) \in Entry
        /\ EntryOf(f, "meta").product.content = source[f]
    BY <1>1, ReadMeansPresent DEF IsSameFile
  <1>3. Unreadable(f) = {}
    <2>1. SUFFICES ASSUME Unreadable(f) # {}
                   PROVE  FALSE
      OBVIOUS
    <2>2. Unreadable(f) \subseteq 1..4
      BY DEF Unreadable
    <2>3. \E i \in Unreadable(f) : \A j \in Unreadable(f) : i <= j
      BY <2>1, <2>2
    <2>4. PICK i \in Unreadable(f) : ReadResult(f) = EntryOf(f, ReadOrder[i]).state
      BY <2>1, <2>3 DEF ReadResult
    <2>5. EntryOf(f, ReadOrder[i]).state # "intact"
      BY <2>4 DEF Unreadable
    <2>6. QED
      BY <1>1, <2>4, <2>5
  <1>4. ASSUME NEW kind \in DataKinds
        PROVE  EntryOf(f, kind).state = "intact"
    <2>1. \E i \in 1..4 : ReadOrder[i] = kind
      BY DEF ReadOrder
    <2>2. QED
      BY <1>3, <2>1 DEF Unreadable
  <1>5. ASSUME NEW kind \in DataKinds
        PROVE  /\ EntryOf(f, kind).product.content = source[f]
               /\ EntryOf(f, kind).product.plugin = env.plugin
               /\ kind \in UcfgKinds => EntryOf(f, kind).product.ucfg = env.ucfg
    <2> DEFINE k == CacheKey(f, kind, env)
    <2> DEFINE l == CacheKey(f, "meta", env)
    <2>1. k \in Key /\ l \in Key /\ k.file = l.file /\ k.plugin = env.plugin /\ k.kind = kind
      BY CacheKeyType DEF TypeOK
    <2>2. kind \in UcfgKinds => k.ucfg = env.ucfg
      BY CacheKeyType DEF TypeOK
    <2>3. prev[k] = EntryOf(f, kind) /\ prev[l] = EntryOf(f, "meta")
      BY DEF EntryOf
    <2>4. prev[k] # Absent /\ prev[l] # Absent
      BY <1>1, <2>3 DEF Lookup, IsInCache, IsInPrevious
    <2>5. QED
      BY <1>2, <2>1, <2>2, <2>3, <2>4 DEF CacheInvariant, Coherent, Versioned
  <1>6. QED
    BY <1>2, <1>4, <1>5

\* A hit copies entries of its own file only.
LEMMA CopyFrame ==
    ASSUME TypeInv, NEW f \in Files, NEW k \in Key
    PROVE  \/ CopyFromPrevious(f)[k] = next[k]
           \/ /\ k.file = f
              /\ \E kind \in DataKinds : k = CacheKey(f, kind, env) /\ CopyFromPrevious(f)[k] = EntryOf(f, kind)
  BY CacheKeyType DEF TypeInv, TypeOK, CopyFromPrevious, EntryOf

\* A write touches entries of its own file only.
LEMMA WriteFrame ==
    ASSUME TypeInv, NEW f \in Files, NEW n \in 0..5, NEW k \in Key
    PROVE  \/ WriteToCache(f, n)[k] = next[k]
           \/ /\ k.file = f
              /\ \E i \in 1..n : k = CacheKey(f, WriteOrder[i], env)
              /\ WriteToCache(f, n)[k] = [product |-> ProductOf(f), state |-> "intact"]
  <1>1. \A i \in 1..n : WriteOrder[i] \in Kinds
    BY DEF WriteOrder
  <1>2. QED
    BY <1>1, CacheKeyType DEF TypeInv, TypeOK, WriteToCache

LEMMA WriteOwnFile ==
    ASSUME TypeInv, NEW f \in Files, NEW n \in 0..5
    PROVE  \A k \in Key : WriteToCache(f, n)[k] = next[k] \/ k.file = f
  BY WriteFrame

\* Writing the entries of the current file keeps the next cache intact and made
\* from the current sources.
LEMMA WriteKeeps ==
    ASSUME TypeInv, CacheInvariant, NEW f \in Files, NEW n \in 0..5,
           next' = WriteToCache(f, n), UNCHANGED <<source, env>>
    PROVE  NextFromSources' /\ NextCacheIntact'
  <1>1. ASSUME NEW k \in Key, next'[k] # Absent
        PROVE  /\ next'[k].product.plugin = k.plugin
               /\ k.kind \in UcfgKinds => next'[k].product.ucfg = k.ucfg
               /\ next'[k].product.content = source[k.file]
               /\ next'[k].state = "intact"
    <2>1. CASE next'[k] = next[k]
      BY <1>1, <2>1 DEF CacheInvariant, NextFromSources, Versioned, NextCacheIntact
    <2>2. CASE /\ k.file = f
               /\ \E i \in 1..n : k = CacheKey(f, WriteOrder[i], env)
               /\ next'[k] = [product |-> ProductOf(f), state |-> "intact"]
      <3>1. \A i \in 1..n : WriteOrder[i] \in Kinds
        BY DEF WriteOrder
      <3>2. PICK i \in 1..n : k = CacheKey(f, WriteOrder[i], env)
        BY <2>2
      <3>3. k.plugin = env.plugin /\ (k.kind \in UcfgKinds => k.ucfg = env.ucfg)
        BY <3>1, <3>2, CacheKeyType DEF TypeInv, TypeOK
      <3>4. QED
        BY <2>2, <3>3 DEF ProductOf
    <2>3. QED
      BY <2>1, <2>2, WriteFrame
  <1>2. QED
    BY <1>1 DEF NextFromSources, Versioned, NextCacheIntact

LEMMA CacheInvariantNext == TypeInv /\ TypeInv' /\ CacheInvariant /\ [Next]_vars => CacheInvariant'
  <1> SUFFICES ASSUME TypeInv, TypeInv', CacheInvariant, [Next]_vars
               PROVE  CacheInvariant'
    OBVIOUS
  <1> USE DEF CacheInvariant
  \* A step that leaves both caches, the sources and the context alone.
  <1>0. ASSUME UNCHANGED <<source, prev, next, env>>
        PROVE  Coherent(prev)' /\ NextFromSources' /\ NextCacheIntact'
    BY <1>0 DEF Coherent, Versioned, NextFromSources, NextCacheIntact
  <1>1. ASSUME NEW f \in Files, NEW c \in Contents, Edit(f, c)
        PROVE  CacheInvariant'
    <2>1. next = EmptyCache /\ done = NotDone
      BY <1>1 DEF Edit, ScanDiscipline
    <2>2. NextFromSources'
      BY <1>1, <2>1 DEF Edit, NextFromSources, Versioned, EmptyCache
    <2>3. FinishedOutputsFresh'
      BY <1>1, <2>1 DEF Edit, FinishedOutputsFresh, NotDone
    <2>4. QED
      BY <1>1, <2>2, <2>3 DEF Edit, Coherent, Versioned, NextCacheIntact, ScanDiscipline, Unwritten,
         UnwrittenClean, HitReady
  <1>2. ASSUME NEW k \in Key, NEW s \in {"io", "unchecked"}, Damage(k, s)
        PROVE  CacheInvariant'
    <2>1. prev[k] \in Entry
      BY <1>2 DEF Damage, TypeInv, TypeOK, Cache
    <2>2. \A l \in Key : /\ prev'[l] # Absent => prev[l] # Absent
                         /\ prev'[l] # Absent => prev'[l].product = prev[l].product
      BY <1>2, <2>1 DEF Damage, TypeInv, TypeOK, Cache, Entry
    <2>3. Coherent(prev)'
      BY <2>2 DEF Coherent, Versioned
    <2>4. QED
      BY <1>2, <2>3 DEF Damage, NextFromSources, Versioned, NextCacheIntact, ScanDiscipline, Unwritten,
         UnwrittenClean, HitReady, FinishedOutputsFresh, ProductOf
  <1>3. ASSUME NEW e \in Envs, StartScan(e)
        PROVE  CacheInvariant'
    <2>1. next = EmptyCache /\ done = NotDone /\ todo = {}
      BY <1>3 DEF StartScan, ScanDiscipline
    <2>2. sensor' \notin pending'
      BY <1>3, ConstantsAssumption DEF StartScan, ScanDiscipline, TypeInv, TypeOK
    <2>3. QED
      BY <1>3, <2>1, <2>2 DEF StartScan, Coherent, NextFromSources, Versioned, NextCacheIntact, ScanDiscipline,
         Unwritten, UnwrittenClean, HitReady, FinishedOutputsFresh, EmptyCache, NotDone
  <1>4. ASSUME LeaveScan, Coherent(prev)'
        PROVE  CacheInvariant'
    BY <1>4, ConstantsAssumption
    DEF LeaveScan, NextFromSources, Versioned, NextCacheIntact, ScanDiscipline,
        Unwritten, UnwrittenClean, HitReady, FinishedOutputsFresh, EmptyCache, NotDone
  <1>5. ASSUME NEW kept \in BOOLEAN, EndScan(kept)
        PROVE  CacheInvariant'
    <2>1. Coherent(next)
      BY DEF NextFromSources, Coherent, Versioned
    <2>2. Coherent(prev)'
      BY <1>5, <2>1 DEF EndScan, Coherent, Versioned
    <2>3. QED
      BY <1>4, <1>5, <2>2 DEF EndScan
  <1>6. ASSUME FailScan
        PROVE  CacheInvariant'
    BY <1>4, <1>6 DEF FailScan, Coherent, Versioned
  <1>7. ASSUME NEW s \in Sensors, StartSensor(s)
        PROVE  CacheInvariant'
    BY <1>0, <1>7 DEF StartSensor, FilesOf, ScanDiscipline, Unwritten, UnwrittenClean, HitReady,
       FinishedOutputsFresh, ProductOf, TypeInv, TypeOK
  <1>8. ASSUME LeaveSensor, UNCHANGED <<source, env, done>>, phase \in {"sensor", "file"},
               NEW f \in Files,
               \A k \in Key : next'[k] = next[k] \/ k.file = f,
               SensorOf[f] \notin pending,
               NextFromSources', NextCacheIntact',
               FinishedOutputsFresh'
        PROVE  CacheInvariant'
    <2>1. ScanDiscipline'
      BY <1>8, ConstantsAssumption DEF LeaveSensor, ScanDiscipline, TypeInv, TypeOK
    <2>2. Unwritten' \subseteq Unwritten /\ f \notin Unwritten'
      BY <1>8 DEF LeaveSensor, Unwritten
    <2>3. UnwrittenClean'
      BY <1>8, <2>2 DEF LeaveSensor, UnwrittenClean
    <2>4. QED
      BY <1>8, <2>1, <2>3 DEF LeaveSensor, Coherent, Versioned, HitReady
  <1>9. ASSUME EndSensor
        PROVE  CacheInvariant'
    BY <1>0, <1>9, ConstantsAssumption
    DEF EndSensor, LeaveSensor, ScanDiscipline, Unwritten, UnwrittenClean, HitReady,
        FinishedOutputsFresh, ProductOf, TypeInv, TypeOK
  <1>10. ASSUME BridgeFailure
         PROVE  CacheInvariant'
    BY <1>0, <1>10, ConstantsAssumption
    DEF BridgeFailure, LeaveSensor, ScanDiscipline, Unwritten, UnwrittenClean, HitReady,
        FinishedOutputsFresh, ProductOf, TypeInv, TypeOK
  <1>11. ASSUME NEW f \in Files, GetStrategyFor(f)
         PROVE  CacheInvariant'
    <2>1. /\ f \in Unwritten
          /\ done[f] = "no"
          /\ \A k \in Key : k.file = f => next[k] = Absent
      BY <1>11 DEF GetStrategyFor, Unwritten, UnwrittenClean
    <2>2. ScanDiscipline'
      BY <1>11 DEF GetStrategyFor, ScanDiscipline, TypeInv, TypeOK
    <2>3. \A k \in Key : next'[k] = next[k] \/ (k.file = f /\ Outcome(f) = "HIT")
      BY <1>11, CopyFrame DEF GetStrategyFor, NextAfterRead
    <2>4. ASSUME NEW k \in Key, next'[k] # Absent
          PROVE  /\ next'[k].product.plugin = k.plugin
                 /\ k.kind \in UcfgKinds => next'[k].product.ucfg = k.ucfg
                 /\ next'[k].product.content = source[k.file]
                 /\ next'[k].state = "intact"
      <3>1. CASE next'[k] = next[k]
        BY <2>4, <3>1 DEF NextFromSources, Versioned, NextCacheIntact
      <3>2. CASE next'[k] # next[k]
        <4>1. Outcome(f) = "HIT" /\ next' = CopyFromPrevious(f)
          BY <1>11, <2>3, <3>2 DEF GetStrategyFor, NextAfterRead
        <4>2. PICK kind \in DataKinds : k = CacheKey(f, kind, env) /\ next'[k] = EntryOf(f, kind)
          BY <3>2, <4>1, CopyFrame
        <4>3. /\ k.file = f /\ k.plugin = env.plugin /\ k.kind = kind
              /\ kind \in UcfgKinds => k.ucfg = env.ucfg
          BY <4>2, CacheKeyType DEF TypeInv, TypeOK
        <4>4. QED
          BY <4>1, <4>2, <4>3, HitEntries
      <3>3. QED
        BY <3>1, <3>2
    <2>5. NextFromSources' /\ NextCacheIntact'
      BY <1>11, <2>4 DEF GetStrategyFor, NextFromSources, Versioned, NextCacheIntact
    <2>6. strategy'.file = f /\ (strategy'.name # "READ_AND_WRITE" <=> Outcome(f) # "HIT")
      BY <1>11 DEF GetStrategyFor, StrategyName
    <2>7. UnwrittenClean'
      <3>1. Unwritten' \subseteq Unwritten
        BY <1>11, <2>1, <2>6 DEF GetStrategyFor, Unwritten
      <3>2. Outcome(f) = "HIT" => f \notin Unwritten'
        BY <1>11, <2>6 DEF GetStrategyFor, Unwritten, ScanDiscipline
      <3>3. QED
        BY <1>11, <2>3, <3>1, <3>2 DEF GetStrategyFor, UnwrittenClean
    <2>8. HitReady'
      <3>1. SUFFICES ASSUME Outcome(f) = "HIT"
                     PROVE  /\ ucfgOut'[f] = ProductOf(f)
                            /\ EntryOf(f, "data") # Absent
                            /\ EntryOf(f, "data").product.content = source[f]
                            /\ EntryOf(f, "data").product.plugin = env.plugin
        BY <1>11, <2>1, <2>6 DEF GetStrategyFor, HitReady, ProductOf, EntryOf
      <3>2. Lookup(f) = "READ"
        BY <3>1 DEF Outcome, Lookup
      <3>3. ucfgOut'[f] = EntryOf(f, "seq").product
        BY <1>11, <3>1, <3>2, HitEntries
        DEF GetStrategyFor, WorkDirAfterRead, Extracted, TypeInv, TypeOK
      <3>4. /\ EntryOf(f, "seq").product \in Product
            /\ EntryOf(f, "seq").product.content = source[f]
            /\ EntryOf(f, "seq").product.plugin = env.plugin
            /\ EntryOf(f, "seq").product.ucfg = env.ucfg
        BY <3>1, HitEntries DEF Entry
      <3>5. EntryOf(f, "seq").product = ProductOf(f)
        BY <3>4 DEF Product, ProductOf
      <3>6. EntryOf(f, "data") # Absent
        BY <3>2 DEF Lookup, IsInCache, IsInPrevious
      <3>7. QED
        BY <3>1, <3>3, <3>5, <3>6, HitEntries
    <2>9. FinishedOutputsFresh'
      <3>1. \A g \in Files : g # f => ucfgOut'[g] = ucfgOut[g]
        BY <1>11 DEF GetStrategyFor, WorkDirAfterRead, TypeInv, TypeOK
      <3>2. QED
        BY <1>11, <2>1, <3>1 DEF GetStrategyFor, FinishedOutputsFresh, ProductOf
    <2>10. Coherent(prev)'
      BY <1>11 DEF GetStrategyFor, Coherent, Versioned
    <2>11. QED
      BY <2>2, <2>5, <2>7, <2>8, <2>9, <2>10
  <1>12. ASSUME NEW f \in Files, GetStrategyThrows(f)
         PROVE  CacheInvariant'
    <2>1. done[f] = "no" /\ SensorOf[f] \notin pending
      BY <1>12 DEF GetStrategyThrows, Unwritten, UnwrittenClean, ScanDiscipline
    <2>2. \A g \in Files : g # f => ucfgOut'[g] = ucfgOut[g]
      BY <1>12 DEF GetStrategyThrows, WorkDirAfterRead, TypeInv, TypeOK
    <2>3. FinishedOutputsFresh'
      BY <1>12, <2>1, <2>2 DEF GetStrategyThrows, LeaveSensor, FinishedOutputsFresh, ProductOf
    <2>4. QED
      BY <1>0, <1>8, <1>12, <2>1, <2>3 DEF GetStrategyThrows, LeaveSensor
  <1>13. ASSUME ProcessCacheAnalysis
         PROVE  CacheInvariant'
    <2> DEFINE f == strategy.file
    <2>1. f \in Files /\ SensorOf[f] \notin pending /\ f \notin todo
      BY <1>13 DEF ProcessCacheAnalysis, ScanDiscipline
    <2>2. UnwrittenClean'
      BY <1>13, <2>1 DEF ProcessCacheAnalysis, Unwritten, UnwrittenClean, TypeInv, TypeOK
    <2>3. FinishedOutputsFresh'
      <3>1. /\ ucfgOut[f] = ProductOf(f)
            /\ EntryOf(f, "data") \in Entry
            /\ EntryOf(f, "data").product.content = source[f]
            /\ EntryOf(f, "data").product.plugin = env.plugin
        BY <1>13 DEF ProcessCacheAnalysis, IsAnalysisRequired, HitReady, TypeInv, FileInv
      <3>2. EntryOf(f, "data").product \in Product
        BY <3>1 DEF Entry
      <3>3. f \notin IssuesOnly => cpdOut'[f] = EntryOf(f, "data").product
        BY <1>13, <2>1 DEF ProcessCacheAnalysis, SaveCpd, TypeInv, TypeOK
      <3>4. f \notin IssuesOnly => cpdOut'[f] # None
        BY <3>2, <3>3, NoneIsNoProduct
      <3>5. \A g \in Files : g # f => done'[g] = done[g] /\ cpdOut'[g] = cpdOut[g]
        BY <1>13, <2>1 DEF ProcessCacheAnalysis, SaveCpd, TypeInv, TypeOK
      <3>6. UNCHANGED <<source, env, ucfgOut>>
        BY <1>13 DEF ProcessCacheAnalysis
      <3>7. QED
        BY <2>1, <3>1, <3>3, <3>4, <3>5, <3>6 DEF FinishedOutputsFresh, ProductOf
    <2>4. ScanDiscipline' /\ HitReady'
      BY <1>13 DEF ProcessCacheAnalysis, ScanDiscipline, HitReady
    <2>5. QED
      BY <1>0, <1>13, <2>2, <2>3, <2>4 DEF ProcessCacheAnalysis
  \* The bridge answers for a file that is not done yet.
  <1>14. ASSUME NEW response \in {"ok", "failed"}, phase = "file", IsAnalysisRequired,
                ProcessResponse(strategy.file, response), UNCHANGED <<source, env>>,
                \A g \in Files : g # strategy.file => done'[g] = done[g],
                done'[strategy.file] \in {"hit", "analyzed"} => response = "ok"
         PROVE  FinishedOutputsFresh'
    <2> DEFINE f == strategy.file
    <2>1. f \in Files
      BY <1>14 DEF ScanDiscipline
    <2>2. \A g \in Files : g # f => ucfgOut'[g] = ucfgOut[g] /\ cpdOut'[g] = cpdOut[g]
      BY <1>14, <2>1 DEF ProcessResponse, SaveCpd, TypeInv, TypeOK
    <2>3. response = "ok" => /\ ucfgOut'[f] = ProductOf(f)
                             /\ f \notin IssuesOnly => cpdOut'[f] = ProductOf(f)
      BY <1>14, <2>1 DEF ProcessResponse, SaveCpd, TypeInv, TypeOK
    <2>4. ProductOf(f) \in Product
      BY <2>1, ProductOfType DEF TypeInv
    <2>5. ProductOf(f) # None
      BY <2>4, NoneIsNoProduct
    <2>6. QED
      BY <1>14, <2>1, <2>2, <2>3, <2>5 DEF FinishedOutputsFresh, ProductOf
  <1>15. ASSUME NEW response \in {"ok", "failed"}, Analyze(response)
         PROVE  CacheInvariant'
    <2> DEFINE f == strategy.file
    <2>1. f \in Files /\ SensorOf[f] \notin pending /\ f \notin todo
      BY <1>15 DEF Analyze, ScanDiscipline
    <2>2. NextFromSources' /\ NextCacheIntact'
      BY <1>0, <1>15, <2>1, WriteKeeps DEF Analyze, NextFromSources, Versioned, NextCacheIntact
    <2>3. \A k \in Key : next'[k] = next[k] \/ k.file = f
      BY <1>15, <2>1, WriteOwnFile DEF Analyze
    <2>4. Unwritten' \subseteq Unwritten /\ f \notin Unwritten'
      BY <1>15, <2>1 DEF Analyze, Unwritten
    <2>5. UnwrittenClean'
      BY <1>15, <2>1, <2>3, <2>4 DEF Analyze, UnwrittenClean, TypeInv, TypeOK
    <2>6. /\ \A g \in Files : g # f => done'[g] = done[g]
          /\ done'[f] \in {"hit", "analyzed"} => response = "ok"
      BY <1>15, <2>1 DEF Analyze, TypeInv, TypeOK
    <2>7. FinishedOutputsFresh'
      BY <1>14, <1>15, <2>6 DEF Analyze
    <2>8. ScanDiscipline' /\ HitReady'
      BY <1>15 DEF Analyze, ScanDiscipline, HitReady
    <2>9. QED
      BY <1>15, <2>2, <2>5, <2>7, <2>8 DEF Analyze, Coherent, Versioned
  <1>16. ASSUME NEW response \in {"ok", "failed"}, NEW n \in 0..4, WriteThrows(response, n)
         PROVE  CacheInvariant'
    <2> DEFINE f == strategy.file
    <2>1. f \in Files /\ SensorOf[f] \notin pending /\ done[f] = "no"
      BY <1>16 DEF WriteThrows, ScanDiscipline, Unwritten, UnwrittenClean
    <2>2. NextFromSources' /\ NextCacheIntact'
      BY <1>16, <2>1, WriteKeeps DEF WriteThrows, LeaveSensor
    <2>3. \A k \in Key : next'[k] = next[k] \/ k.file = f
      <3>1. n \in 0..5
        OBVIOUS
      <3>2. QED
        BY <1>16, <2>1, <3>1, WriteOwnFile DEF WriteThrows
    <2>4. FinishedOutputsFresh'
      BY <1>14, <1>16, <2>1 DEF WriteThrows, LeaveSensor, IsAnalysisRequired
    <2>5. QED
      BY <1>8, <1>16, <2>1, <2>2, <2>3, <2>4 DEF WriteThrows, LeaveSensor
  <1>17. CASE UNCHANGED vars
    BY <1>0, <1>17 DEF vars, ScanDiscipline, Unwritten, UnwrittenClean, HitReady,
       FinishedOutputsFresh, ProductOf, EntryOf
  <1>18. QED
    BY <1>1, <1>2, <1>3, <1>5, <1>6, <1>7, <1>9, <1>10, <1>11, <1>12, <1>13, <1>15, <1>16, <1>17
    DEF Next

\* In every reachable state the inductive invariant holds.
THEOREM CacheInvariantHolds == Spec => []CacheInvariant
  <1>1. Spec => []TypeInv
    BY TypeInit, TypeNext, PTL DEF Spec
  <1>2. QED
    BY <1>1, CacheInvariantInit, CacheInvariantNext, PTL DEF Spec

\* Whatever the files, contents and versions, and over any number of scans, a
\* file finished from the cache or by analysis has the outputs of its current
\* content and of the current plugins.
THEOREM HitsAreFresh == Spec => []FinishedOutputsFresh
  <1>1. CacheInvariant => FinishedOutputsFresh
    BY DEF CacheInvariant
  <1>2. QED
    BY <1>1, CacheInvariantHolds, PTL

\* No scan ever leaves an entry behind that could not be read.
THEOREM NextIntact == Spec => []NextCacheIntact
  <1>1. CacheInvariant => NextCacheIntact
    BY DEF CacheInvariant
  <1>2. QED
    BY <1>1, CacheInvariantHolds, PTL

-----------------------------------------------------------------------------
(* No key is written twice *)

\* The step that EntryWrittenOnce allows.
WriteOnceStep == phase' # "idle" => \A k \in Key : next[k] # Absent => next'[k] = next[k]

LEMMA WriteOnce == TypeInv /\ CacheInvariant /\ [Next]_vars => [WriteOnceStep]_vars
  <1> SUFFICES ASSUME TypeInv, CacheInvariant, Next, phase' # "idle",
                      NEW k \in Key, next[k] # Absent
               PROVE  next'[k] = next[k]
    BY DEF WriteOnceStep
  <1> USE DEF CacheInvariant
  <1>1. CASE next' = next
    BY <1>1
  <1>2. ASSUME LeaveScan
        PROVE  FALSE
    BY <1>2 DEF LeaveScan
  <1>3. ASSUME NEW f \in Files, GetStrategyFor(f)
        PROVE  next'[k] = next[k]
    <2>1. k.file # f
      BY <1>3 DEF GetStrategyFor, Unwritten, UnwrittenClean
    <2>2. QED
      BY <1>3, <2>1, CopyFrame DEF GetStrategyFor, NextAfterRead
  \* The current file, when it is analyzed, has no entry yet.
  <1>4. ASSUME phase = "file", strategy.name # "READ_AND_WRITE", NEW n \in 0..5,
               next' = WriteToCache(strategy.file, n)
        PROVE  next'[k] = next[k]
    <2>1. strategy.file \in Files /\ strategy.file \in Unwritten
      BY <1>4 DEF ScanDiscipline, Unwritten
    <2>2. k.file # strategy.file
      BY <2>1 DEF UnwrittenClean
    <2>3. QED
      BY <1>4, <2>1, <2>2, WriteOwnFile
  <1>5. ASSUME NEW response \in {"ok", "failed"}, Analyze(response)
        PROVE  next'[k] = next[k]
    BY <1>1, <1>4, <1>5 DEF Analyze, IsAnalysisRequired
  <1>6. ASSUME NEW response \in {"ok", "failed"}, NEW n \in 0..4, WriteThrows(response, n)
        PROVE  next'[k] = next[k]
    <2>1. n \in 0..5
      OBVIOUS
    <2>2. QED
      BY <1>4, <1>6, <2>1 DEF WriteThrows
  <1>7. QED
    BY <1>1, <1>2, <1>3, <1>5, <1>6
    DEF Next, Edit, Damage, StartScan, EndScan, FailScan, StartSensor, EndSensor, BridgeFailure,
        GetStrategyThrows, ProcessCacheAnalysis

\* Within a scan no key of the next cache is written a second time, so the write
\* that the Sonar API would refuse never happens.
THEOREM EntriesWrittenOnce == Spec => EntryWrittenOnce
  <1>1. Spec => []TypeInv
    BY TypeInit, TypeNext, PTL DEF Spec
  <1>2. EntryWrittenOnce <=> [][WriteOnceStep]_vars
    BY DEF EntryWrittenOnce, WriteOnceStep
  <1>3. QED
    BY <1>1, <1>2, CacheInvariantHolds, WriteOnce, PTL DEF Spec
-----------------------------------------------------------------------------
(* Metadata comes last *)

\* The keys of the metadata of a file, and of its other entries.
MetaKey(f, p) == [kind |-> "meta", file |-> f, plugin |-> p]
DataKey(f, kind, p, u) == CacheKey(f, kind, [plugin |-> p, ucfg |-> u])

\* What MetadataVouches says of one cache.
Vouched(cache) ==
    \A f \in Files, p \in Plugins : cache[MetaKey(f, p)] # Absent =>
        \E u \in Ucfgs : \A kind \in DataKinds : cache[DataKey(f, kind, p, u)] # Absent

AllVouched == Vouched(prev) /\ Vouched(next)

LEMMA KeysOfAFile ==
    ASSUME NEW f \in Files, NEW p \in Plugins
    PROVE  /\ MetaKey(f, p) \in Key
           /\ \A u \in Ucfgs, kind \in DataKinds : DataKey(f, kind, p, u) \in Key
  BY DEF MetaKey, DataKey, CacheKey, Key

\* Entries that are added keep a cache vouched for, when metadata comes with the
\* entries it vouches for.
LEMMA VouchedGrows ==
    ASSUME NEW c, NEW d, Vouched(c),
           \A k \in Key : c[k] # Absent => d[k] # Absent,
           \A f \in Files, p \in Plugins :
              d[MetaKey(f, p)] # Absent =>
                 \/ c[MetaKey(f, p)] # Absent
                 \/ \E u \in Ucfgs : \A kind \in DataKinds : d[DataKey(f, kind, p, u)] # Absent
    PROVE  Vouched(d)
  <1> SUFFICES ASSUME NEW f \in Files, NEW p \in Plugins, c[MetaKey(f, p)] # Absent
               PROVE  \E u \in Ucfgs : \A kind \in DataKinds : d[DataKey(f, kind, p, u)] # Absent
    BY DEF Vouched
  <1>1. PICK u \in Ucfgs : \A kind \in DataKinds : c[DataKey(f, kind, p, u)] # Absent
    BY DEF Vouched
  <1> QED
    BY <1>1, KeysOfAFile

\* A copy by a hit adds no metadata, and what it copies is there.
LEMMA CopyVouched ==
    ASSUME TypeInv, NEW f \in Files, Outcome(f) = "HIT", Vouched(next)
    PROVE  Vouched(CopyFromPrevious(f))
  <1>1. Lookup(f) = "READ"
    BY DEF Outcome, Lookup
  <1>2. \A kind \in Kinds : EntryOf(f, kind) \in Entry
    BY <1>1, ReadMeansPresent DEF TypeInv
  <1>3. \A kind \in DataKinds : prev[CacheKey(f, kind, env)] # Absent
    BY <1>2, AbsentIsNoEntry DEF EntryOf
  <1>4. \A k \in Key : next[k] # Absent => CopyFromPrevious(f)[k] # Absent
    BY <1>3 DEF CopyFromPrevious
  <1>5. ASSUME NEW g \in Files, NEW p \in Plugins
        PROVE  CopyFromPrevious(f)[MetaKey(g, p)] = next[MetaKey(g, p)]
    <2>1. MetaKey(g, p) \in Key /\ MetaKey(g, p).kind = "meta"
      BY KeysOfAFile DEF MetaKey
    <2>2. \A kind \in DataKinds : CacheKey(f, kind, env).kind # "meta"
      BY CacheKeyType DEF TypeInv, TypeOK
    <2> QED
      BY <2>1, <2>2 DEF CopyFromPrevious
  <1> QED
    BY <1>4, <1>5, VouchedGrows

\* writeToCache writes the metadata after all other entries of the file.
LEMMA WriteVouched ==
    ASSUME TypeInv, NEW f \in Files, NEW n \in 0..5, Vouched(next)
    PROVE  Vouched(WriteToCache(f, n))
  <1> DEFINE entry == [product |-> ProductOf(f), state |-> "intact"]
             written == {CacheKey(f, WriteOrder[i], env) : i \in 1..n}
  <1>1. entry # Absent
    <2>1. entry \in Entry
      BY ProductOfType DEF TypeInv, Entry, EntryStates
    <2> QED
      BY <2>1, AbsentIsNoEntry
  <1>2. \A k \in Key : WriteToCache(f, n)[k] = IF k \in written THEN entry ELSE next[k]
    BY DEF WriteToCache
  <1>3. \A k \in Key : next[k] # Absent => WriteToCache(f, n)[k] # Absent
    BY <1>1, <1>2
  <1>4. ASSUME NEW g \in Files, NEW p \in Plugins, MetaKey(g, p) \in written
        PROVE  \E u \in Ucfgs : \A kind \in DataKinds : WriteToCache(f, n)[DataKey(g, kind, p, u)] # Absent
    <2>1. env \in Env /\ env.ucfg \in Ucfgs
      BY DEF TypeInv, TypeOK, Env
    <2>2. PICK i \in 1..n : MetaKey(g, p) = CacheKey(f, WriteOrder[i], env)
      BY <1>4
    <2>3. WriteOrder[i] \in Kinds
      BY DEF WriteOrder
    <2>4. g = f /\ p = env.plugin /\ WriteOrder[i] = "meta"
      BY <2>1, <2>2, <2>3, CacheKeyType DEF MetaKey
    <2>5. n = 5
      BY <2>4 DEF WriteOrder
    <2>6. ASSUME NEW kind \in DataKinds
          PROVE  DataKey(g, kind, p, env.ucfg) \in written
      <3>1. DataKey(g, kind, p, env.ucfg) = CacheKey(f, kind, env)
        BY <2>4 DEF DataKey, CacheKey
      <3>2. \E j \in 1..5 : kind = WriteOrder[j]
        BY DEF WriteOrder
      <3> QED
        BY <2>5, <3>1, <3>2
    <2> QED
      BY <2>1, <2>6, <1>1, <1>2, KeysOfAFile
  <1>5. ASSUME NEW g \in Files, NEW p \in Plugins, WriteToCache(f, n)[MetaKey(g, p)] # Absent
        PROVE  \/ next[MetaKey(g, p)] # Absent
               \/ \E u \in Ucfgs : \A kind \in DataKinds : WriteToCache(f, n)[DataKey(g, kind, p, u)] # Absent
    BY <1>2, <1>4, <1>5, KeysOfAFile
  <1> QED
    BY <1>3, <1>5, VouchedGrows

LEMMA VouchedNext == TypeInv /\ AllVouched /\ [Next]_vars => AllVouched'
  <1> SUFFICES ASSUME TypeInv, Vouched(prev), Vouched(next), [Next]_vars
               PROVE  Vouched(prev') /\ Vouched(next')
    BY DEF AllVouched
  <1>1. CASE UNCHANGED <<prev, next>>
    BY <1>1
  <1>2. ASSUME NEW k \in Key, NEW s \in {"io", "unchecked"}, Damage(k, s)
        PROVE  Vouched(prev') /\ Vouched(next')
    <2>1. prev[k] \in Entry /\ prev \in Cache
      BY <1>2 DEF Damage, TypeInv, TypeOK, Cache
    <2>2. [prev[k] EXCEPT !.state = s] \in Entry
      BY <2>1 DEF Entry, EntryStates
    <2>3. prev'[k] # Absent /\ \A l \in Key \ {k} : prev'[l] = prev[l]
      BY <1>2, <2>1, <2>2, AbsentIsNoEntry DEF Damage, Cache
    <2>4. \A l \in Key : prev[l] # Absent <=> prev'[l] # Absent
      BY <1>2, <2>3 DEF Damage
    <2>5. Vouched(prev')
      BY <2>4, KeysOfAFile, VouchedGrows
    <2> QED
      BY <1>2, <2>5 DEF Damage
  <1>3. ASSUME LeaveScan, prev' \in {prev, next}
        PROVE  Vouched(prev') /\ Vouched(next')
    <2>1. \A k \in Key : next'[k] = Absent
      BY <1>3 DEF LeaveScan, EmptyCache
    <2>2. Vouched(next')
      BY <2>1, KeysOfAFile DEF Vouched
    <2> QED
      BY <1>3, <2>2
  <1>4. ASSUME NEW f \in Files, GetStrategyFor(f)
        PROVE  Vouched(prev') /\ Vouched(next')
    BY <1>4, CopyVouched DEF GetStrategyFor, NextAfterRead
  <1>5. ASSUME NEW response \in {"ok", "failed"}, Analyze(response)
        PROVE  Vouched(prev') /\ Vouched(next')
    <2>1. strategy.file \in Files
      BY <1>5 DEF Analyze, TypeInv, FileInv
    <2> QED
      BY <1>5, <2>1, WriteVouched DEF Analyze
  <1>6. ASSUME NEW response \in {"ok", "failed"}, NEW n \in 0..4, WriteThrows(response, n)
        PROVE  Vouched(prev') /\ Vouched(next')
    <2>1. strategy.file \in Files /\ n \in 0..5
      BY <1>6 DEF WriteThrows, TypeInv, FileInv
    <2> QED
      BY <1>6, <2>1, WriteVouched DEF WriteThrows, LeaveSensor
  <1> QED
    BY <1>1, <1>2, <1>3, <1>4, <1>5, <1>6
    DEF Next, Edit, StartScan, EndScan, FailScan, StartSensor, EndSensor, BridgeFailure, LeaveSensor,
        GetStrategyThrows, ProcessCacheAnalysis, vars

\* Where a cache, stored or about to be, holds the metadata of a file, it holds the
\* other entries of the scan that wrote it: a write that stops half way, damage and
\* discarded scans included.
THEOREM MetadataVouchesHolds == Spec => []MetadataVouches
  <1>1. Init => AllVouched
    BY KeysOfAFile DEF Init, EmptyCache, AllVouched, Vouched
  <1>2. Spec => []TypeInv
    BY TypeInit, TypeNext, PTL DEF Spec
  <1>3. Spec => []AllVouched
    BY <1>1, <1>2, VouchedNext, PTL DEF Spec
  <1>4. AllVouched => MetadataVouches
    <2> SUFFICES ASSUME AllVouched, NEW cache \in {prev, next}, NEW f \in Files, NEW p \in Plugins,
                        \E u \in Ucfgs : cache[CacheKey(f, "meta", [plugin |-> p, ucfg |-> u])] # Absent
                 PROVE  \E u \in Ucfgs : \A kind \in DataKinds :
                           cache[CacheKey(f, kind, [plugin |-> p, ucfg |-> u])] # Absent
      BY Zenon DEF MetadataVouches
    <2>1. \A u \in Ucfgs : CacheKey(f, "meta", [plugin |-> p, ucfg |-> u]) = MetaKey(f, p)
      BY DEF MetaKey, CacheKey
    <2>2. cache[MetaKey(f, p)] # Absent
      BY <2>1
    <2>3. Vouched(cache)
      BY DEF AllVouched
    <2> QED
      BY <2>2, <2>3 DEF Vouched, DataKey
  <1> QED
    BY <1>3, <1>4, PTL

=============================================================================
