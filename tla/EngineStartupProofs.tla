-------------------------- MODULE EngineStartupProofs --------------------------
(***************************************************************************)
(* Theorems about EngineCache, for any number of processes, restarts,       *)
(* failing system calls and cache cleanings, and about EngineStartup, for   *)
(* any number of callers.                                                   *)
(*                                                                         *)
(* The cache: a file is linked only by its creator, after it was written    *)
(* and synced, and content that was synced is never lost; so the cache      *)
(* entry is genuine or left by earlier runs, and a path that was found      *)
(* genuine leads to a genuine file or to none when it is opened.            *)
(*                                                                         *)
(* The startup: every step is a step of EngineCache or leaves the cache     *)
(* alone, so what is proved of it holds here.  The rest follows from what   *)
(* the three states of clientOnce mean: none has started, one caller is     *)
(* inside, or the startup has ended and its result is stored for good.      *)
(***************************************************************************)
EXTENDS EngineStartup, TLAPS

AfterWrite == {"sync", "link", "checkLinked", "checkEntry", "checkOwn"}
AfterSync == AfterWrite \ {"sync"}

WrittenOK ==
  /\ \A p \in Procs : pc[p] \in AfterWrite => content[Own(p)] = "genuine"
  /\ \A p \in Procs : pc[p] \in AfterSync => Own(p) \in synced
  /\ entry \in TempFiles => entry \in synced /\ content[entry] = "genuine"

ChosenOK ==
  /\ \A p \in Procs : chosen[p] # NoFile /\ ~viaEntry[p] => chosen[p] \in Explicit \union {Own(p)}
  /\ \A p \in Procs : pc[p] = "load" =>
       /\ ~viaEntry[p] => content[chosen[p]] = "genuine"
       /\ viaEntry[p] /\ entry = Old => content[Old] = "genuine"

CacheInv == CacheTypeOK /\ WrittenOK /\ ChosenOK /\ LoadedIsGenuine

LEMMA FileNames ==
  /\ NoFile \notin Files /\ Old \notin TempFiles /\ Old \notin Explicit /\ Old # NoFile
  /\ \A f \in Explicit : f \notin TempFiles
  /\ TempFiles \subseteq Files /\ Explicit \subseteq Files /\ Old \in Files
BY EngineCacheAssumption DEF Files, TempFiles

LEMMA OwnFiles ==
  ASSUME CacheTypeOK
  PROVE  /\ \A p \in Procs : Own(p) \in TempFiles
         /\ \A p, q \in Procs : Own(p) = Own(q) => p = q
BY DEF CacheTypeOK, StartupTypeOK, Own, TempFiles

LEMMA InitCacheInv == CacheInit => CacheInv
<1> SUFFICES ASSUME CacheInit PROVE CacheInv
  OBVIOUS
<1>1. CacheTypeOK
  BY EngineCacheAssumption DEF CacheInit, CacheTypeOK, DiskTypeOK, StartupTypeOK, StagesOK, Files
<1>2. QED
  BY <1>1, FileNames DEF CacheInit, CacheInv, WrittenOK, ChosenOK, LoadedIsGenuine, AfterWrite, AfterSync

(* One lemma per step: the types, the stages, the rest of the invariant.     *)
LEMMA StartBundledKeepsInv ==
  ASSUME CacheInv, NEW p \in Procs, StartBundled(p)
  PROVE  CacheInv'
<1> USE FileNames, OwnFiles DEF CacheInv, CacheTypeOK, StartBundled, Goto, Fault, ChooseEntry, ChooseFile,
        IsGenuine, FileAtPath, disk, DiskTypeOK, StartupTypeOK, StagesOK
<1>1. DiskTypeOK'
  OBVIOUS
<1>2. StartupTypeOK'
  BY DEF Starting, Ended
<1>3. StagesOK'
  OBVIOUS
<1>4. \A q \in Procs : Own(q)' = Own(q)
  BY DEF Own
<1>5. WrittenOK' /\ ChosenOK' /\ LoadedIsGenuine'
  BY <1>4 DEF WrittenOK, ChosenOK, LoadedIsGenuine, AfterWrite, AfterSync
<1>6. QED
  BY <1>1, <1>2, <1>3, <1>5

LEMMA LookupKeepsInv ==
  ASSUME CacheInv, NEW p \in Procs, Lookup(p)
  PROVE  CacheInv'
<1> USE FileNames, OwnFiles DEF CacheInv, CacheTypeOK, Lookup, Goto, Fault, ChooseEntry, ChooseFile,
        IsGenuine, FileAtPath, disk, DiskTypeOK, StartupTypeOK, StagesOK
<1>1. DiskTypeOK'
  OBVIOUS
<1>2. StartupTypeOK'
  <2>1. pc' \in [Procs -> {"off"} \union Starting \union Ended]
    BY DEF Starting, Ended
  <2>2. chosen' \in [Procs -> Files \union {NoFile}]
    OBVIOUS
  <2>3. viaEntry' \in [Procs -> BOOLEAN]
    OBVIOUS
  <2>4. disturbed' \in [Procs -> BOOLEAN] /\ epoch' = epoch
    OBVIOUS
  <2>5. QED
    BY <2>1, <2>2, <2>3, <2>4
<1>3. StagesOK'
  OBVIOUS
<1>4. \A q \in Procs : Own(q)' = Own(q)
  BY DEF Own
<1>5. WrittenOK' /\ ChosenOK' /\ LoadedIsGenuine'
  BY <1>4 DEF WrittenOK, ChosenOK, LoadedIsGenuine, AfterWrite, AfterSync
<1>6. QED
  BY <1>1, <1>2, <1>3, <1>5

LEMMA CreateTempKeepsInv ==
  ASSUME CacheInv, NEW p \in Procs, CreateTemp(p)
  PROVE  CacheInv'
<1> USE FileNames, OwnFiles DEF CacheInv, CacheTypeOK, CreateTemp, Goto, Fault, ChooseEntry, ChooseFile,
        IsGenuine, FileAtPath, disk, DiskTypeOK, StartupTypeOK, StagesOK
<1>1. DiskTypeOK'
  OBVIOUS
<1>2. StartupTypeOK'
  BY DEF Starting, Ended
<1>3. StagesOK'
  OBVIOUS
<1>4. \A q \in Procs : Own(q)' = Own(q)
  BY DEF Own
<1>5. WrittenOK' /\ ChosenOK' /\ LoadedIsGenuine'
  BY <1>4 DEF WrittenOK, ChosenOK, LoadedIsGenuine, AfterWrite, AfterSync
<1>6. QED
  BY <1>1, <1>2, <1>3, <1>5

LEMMA WriteTempKeepsInv ==
  ASSUME CacheInv, NEW p \in Procs, WriteTemp(p)
  PROVE  CacheInv'
<1> USE FileNames, OwnFiles DEF CacheInv, CacheTypeOK, WriteTemp, Goto, Fault, ChooseEntry, ChooseFile,
        IsGenuine, FileAtPath, disk, DiskTypeOK, StartupTypeOK, StagesOK
<1>1. DiskTypeOK'
  OBVIOUS
<1>2. StartupTypeOK'
  BY DEF Starting, Ended
<1>3. StagesOK'
  OBVIOUS
<1>4. \A q \in Procs : Own(q)' = Own(q)
  BY DEF Own
<1>5. WrittenOK' /\ ChosenOK' /\ LoadedIsGenuine'
  BY <1>4 DEF WrittenOK, ChosenOK, LoadedIsGenuine, AfterWrite, AfterSync
<1>6. QED
  BY <1>1, <1>2, <1>3, <1>5

LEMMA SyncTempKeepsInv ==
  ASSUME CacheInv, NEW p \in Procs, SyncTemp(p)
  PROVE  CacheInv'
<1> USE FileNames, OwnFiles DEF CacheInv, CacheTypeOK, SyncTemp, Goto, Fault, ChooseEntry, ChooseFile,
        IsGenuine, FileAtPath, disk, DiskTypeOK, StartupTypeOK, StagesOK
<1>1. DiskTypeOK'
  OBVIOUS
<1>2. StartupTypeOK'
  BY DEF Starting, Ended
<1>3. StagesOK'
  OBVIOUS
<1>4. \A q \in Procs : Own(q)' = Own(q)
  BY DEF Own
<1>5. WrittenOK' /\ ChosenOK' /\ LoadedIsGenuine'
  BY <1>4 DEF WrittenOK, ChosenOK, LoadedIsGenuine, AfterWrite, AfterSync
<1>6. QED
  BY <1>1, <1>2, <1>3, <1>5

LEMMA LinkKeepsInv ==
  ASSUME CacheInv, NEW p \in Procs, Link(p)
  PROVE  CacheInv'
<1> USE FileNames, OwnFiles DEF CacheInv, CacheTypeOK, Link, Goto, Fault, ChooseEntry, ChooseFile,
        IsGenuine, FileAtPath, disk, DiskTypeOK, StartupTypeOK, StagesOK
<1>1. DiskTypeOK'
  OBVIOUS
<1>2. StartupTypeOK'
  BY DEF Starting, Ended
<1>3. StagesOK'
  OBVIOUS
<1>4. \A q \in Procs : Own(q)' = Own(q)
  BY DEF Own
<1>5. WrittenOK' /\ ChosenOK' /\ LoadedIsGenuine'
  BY <1>4 DEF WrittenOK, ChosenOK, LoadedIsGenuine, AfterWrite, AfterSync
<1>6. QED
  BY <1>1, <1>2, <1>3, <1>5

LEMMA CheckLinkedKeepsInv ==
  ASSUME CacheInv, NEW p \in Procs, CheckLinked(p)
  PROVE  CacheInv'
<1> USE FileNames, OwnFiles DEF CacheInv, CacheTypeOK, CheckLinked, Goto, Fault, ChooseEntry, ChooseFile,
        IsGenuine, FileAtPath, disk, DiskTypeOK, StartupTypeOK, StagesOK
<1>1. DiskTypeOK'
  OBVIOUS
<1>2. StartupTypeOK'
  <2>1. pc' \in [Procs -> {"off"} \union Starting \union Ended]
    BY DEF Starting, Ended
  <2>2. chosen' \in [Procs -> Files \union {NoFile}]
    OBVIOUS
  <2>3. viaEntry' \in [Procs -> BOOLEAN]
    OBVIOUS
  <2>4. disturbed' \in [Procs -> BOOLEAN] /\ epoch' = epoch
    OBVIOUS
  <2>5. QED
    BY <2>1, <2>2, <2>3, <2>4
<1>3. StagesOK'
  OBVIOUS
<1>4. \A q \in Procs : Own(q)' = Own(q)
  BY DEF Own
<1>5. WrittenOK' /\ ChosenOK' /\ LoadedIsGenuine'
  BY <1>4 DEF WrittenOK, ChosenOK, LoadedIsGenuine, AfterWrite, AfterSync
<1>6. QED
  BY <1>1, <1>2, <1>3, <1>5

LEMMA CheckEntryKeepsInv ==
  ASSUME CacheInv, NEW p \in Procs, CheckEntry(p)
  PROVE  CacheInv'
<1> USE FileNames, OwnFiles DEF CacheInv, CacheTypeOK, CheckEntry, Goto, Fault, ChooseEntry, ChooseFile,
        IsGenuine, FileAtPath, disk, DiskTypeOK, StartupTypeOK, StagesOK
<1>1. DiskTypeOK'
  OBVIOUS
<1>2. StartupTypeOK'
  <2>1. pc' \in [Procs -> {"off"} \union Starting \union Ended]
    BY DEF Starting, Ended
  <2>2. chosen' \in [Procs -> Files \union {NoFile}]
    OBVIOUS
  <2>3. viaEntry' \in [Procs -> BOOLEAN]
    OBVIOUS
  <2>4. disturbed' \in [Procs -> BOOLEAN] /\ epoch' = epoch
    OBVIOUS
  <2>5. QED
    BY <2>1, <2>2, <2>3, <2>4
<1>3. StagesOK'
  OBVIOUS
<1>4. \A q \in Procs : Own(q)' = Own(q)
  BY DEF Own
<1>5. WrittenOK' /\ ChosenOK' /\ LoadedIsGenuine'
  BY <1>4 DEF WrittenOK, ChosenOK, LoadedIsGenuine, AfterWrite, AfterSync
<1>6. QED
  BY <1>1, <1>2, <1>3, <1>5

LEMMA CheckOwnKeepsInv ==
  ASSUME CacheInv, NEW p \in Procs, CheckOwn(p)
  PROVE  CacheInv'
<1> USE FileNames, OwnFiles DEF CacheInv, CacheTypeOK, CheckOwn, Goto, Fault, ChooseEntry, ChooseFile,
        IsGenuine, FileAtPath, disk, DiskTypeOK, StartupTypeOK, StagesOK
<1>1. DiskTypeOK'
  OBVIOUS
<1>2. StartupTypeOK'
  <2>1. pc' \in [Procs -> {"off"} \union Starting \union Ended]
    BY DEF Starting, Ended
  <2>2. chosen' \in [Procs -> Files \union {NoFile}]
    OBVIOUS
  <2>3. viaEntry' \in [Procs -> BOOLEAN]
    OBVIOUS
  <2>4. disturbed' \in [Procs -> BOOLEAN] /\ epoch' = epoch
    OBVIOUS
  <2>5. QED
    BY <2>1, <2>2, <2>3, <2>4
<1>3. StagesOK'
  OBVIOUS
<1>4. \A q \in Procs : Own(q)' = Own(q)
  BY DEF Own
<1>5. WrittenOK' /\ ChosenOK' /\ LoadedIsGenuine'
  BY <1>4 DEF WrittenOK, ChosenOK, LoadedIsGenuine, AfterWrite, AfterSync
<1>6. QED
  BY <1>1, <1>2, <1>3, <1>5

LEMMA CleanupKeepsInv ==
  ASSUME CacheInv, NEW p \in Procs, Cleanup(p)
  PROVE  CacheInv'
<1> USE FileNames, OwnFiles DEF CacheInv, CacheTypeOK, Cleanup, Goto, Fault, ChooseEntry, ChooseFile,
        IsGenuine, FileAtPath, disk, DiskTypeOK, StartupTypeOK, StagesOK
<1>1. DiskTypeOK'
  OBVIOUS
<1>2. StartupTypeOK'
  BY DEF Starting, Ended
<1>3. StagesOK'
  OBVIOUS
<1>4. \A q \in Procs : Own(q)' = Own(q)
  BY DEF Own
<1>5. WrittenOK' /\ ChosenOK' /\ LoadedIsGenuine'
  BY <1>4 DEF WrittenOK, ChosenOK, LoadedIsGenuine, AfterWrite, AfterSync
<1>6. QED
  BY <1>1, <1>2, <1>3, <1>5

LEMMA VerifyPathKeepsInv ==
  ASSUME CacheInv, NEW p \in Procs, VerifyPath(p)
  PROVE  CacheInv'
<1> USE FileNames, OwnFiles DEF CacheInv, CacheTypeOK, VerifyPath, Goto, Fault, ChooseEntry, ChooseFile,
        IsGenuine, FileAtPath, disk, DiskTypeOK, StartupTypeOK, StagesOK
<1>1. DiskTypeOK'
  OBVIOUS
<1>2. StartupTypeOK'
  BY DEF Starting, Ended
<1>3. StagesOK'
  OBVIOUS
<1>4. \A q \in Procs : Own(q)' = Own(q)
  BY DEF Own
<1>5. WrittenOK' /\ ChosenOK' /\ LoadedIsGenuine'
  BY <1>4 DEF WrittenOK, ChosenOK, LoadedIsGenuine, AfterWrite, AfterSync
<1>6. QED
  BY <1>1, <1>2, <1>3, <1>5

LEMMA LoadEngineKeepsInv ==
  ASSUME CacheInv, NEW p \in Procs, LoadEngine(p)
  PROVE  CacheInv'
<1> USE FileNames, OwnFiles DEF CacheInv, CacheTypeOK, LoadEngine, Goto, Fault, ChooseEntry, ChooseFile,
        IsGenuine, FileAtPath, disk, DiskTypeOK, StartupTypeOK, StagesOK
<1>1. DiskTypeOK'
  OBVIOUS
<1>2. StartupTypeOK'
  <2>1. pc' \in [Procs -> {"off"} \union Starting \union Ended]
    BY DEF Starting, Ended
  <2>2. chosen' \in [Procs -> Files \union {NoFile}]
    OBVIOUS
  <2>3. viaEntry' \in [Procs -> BOOLEAN]
    OBVIOUS
  <2>4. disturbed' \in [Procs -> BOOLEAN] /\ epoch' = epoch
    OBVIOUS
  <2>5. QED
    BY <2>1, <2>2, <2>3, <2>4
<1>3. StagesOK'
  OBVIOUS
<1>4. \A q \in Procs : Own(q)' = Own(q)
  BY DEF Own
<1>5. WrittenOK' /\ ChosenOK' /\ LoadedIsGenuine'
  BY <1>4 DEF WrittenOK, ChosenOK, LoadedIsGenuine, AfterWrite, AfterSync
<1>6. QED
  BY <1>1, <1>2, <1>3, <1>5

LEMMA StartExplicitKeepsInv ==
  ASSUME CacheInv, NEW p \in Procs, NEW f \in Explicit, StartExplicit(p, f)
  PROVE  CacheInv'
<1> USE FileNames, OwnFiles DEF CacheInv, CacheTypeOK, StartExplicit, Goto, Fault, ChooseEntry, ChooseFile,
        IsGenuine, FileAtPath, disk, DiskTypeOK, StartupTypeOK, StagesOK
<1>1. DiskTypeOK'
  OBVIOUS
<1>2. StartupTypeOK'
  BY DEF Starting, Ended
<1>3. StagesOK'
  OBVIOUS
<1>4. \A q \in Procs : Own(q)' = Own(q)
  BY DEF Own
<1>5. WrittenOK' /\ ChosenOK' /\ LoadedIsGenuine'
  BY <1>4 DEF WrittenOK, ChosenOK, LoadedIsGenuine, AfterWrite, AfterSync
<1>6. QED
  BY <1>1, <1>2, <1>3, <1>5

LEMMA DeadKeepsInv ==
  ASSUME CacheInv, NEW ps \in SUBSET Procs, Dead(ps),
         \A p \in ps : epoch[p] < MaxEpoch, DiskTypeOK',
         \A f \in Files : content'[f] = content[f] \/ (f \notin synced /\ ps = Procs),
         entry' \in {entry, NoFile}, UNCHANGED synced
  PROVE  CacheInv'
<1> USE FileNames, OwnFiles DEF CacheInv, CacheTypeOK, Dead, DiskTypeOK, StartupTypeOK, StagesOK
<1>1. StartupTypeOK'
  BY EngineCacheAssumption
<1>2. StagesOK'
  OBVIOUS
<1>3. \A p \in Procs \ ps : Own(p)' = Own(p)
  BY DEF Own
<1>4. \A p \in ps : pc'[p] = "off" /\ chosen'[p] = NoFile
  OBVIOUS
<1>5. \A p \in Procs \ ps : /\ pc'[p] = pc[p] /\ chosen'[p] = chosen[p]
                            /\ viaEntry'[p] = viaEntry[p]
                            /\ content' = content
  OBVIOUS
<1>6. WrittenOK'
  BY <1>3, <1>4, <1>5 DEF WrittenOK, AfterWrite, AfterSync
<1>7. ChosenOK' /\ LoadedIsGenuine'
  BY <1>3, <1>4, <1>5 DEF ChosenOK, LoadedIsGenuine
<1>8. QED
  BY <1>1, <1>2, <1>6, <1>7

LEMMA EnvironmentKeepsInv ==
  ASSUME CacheInv
  PROVE  /\ \A p \in Procs : Crash(p) => CacheInv'
         /\ PowerLoss => CacheInv'
         /\ CleanCache => CacheInv'
         /\ UNCHANGED cacheVars => CacheInv'
<1>1. ASSUME NEW p \in Procs, Crash(p)
      PROVE  CacheInv'
  <2>1. UNCHANGED <<linkable, entry, temps, content, synced, unremoved, cleans>>
    BY <1>1 DEF Crash, disk
  <2>2. DiskTypeOK'
    BY <2>1 DEF CacheInv, CacheTypeOK, DiskTypeOK
  <2>3. PICK ps \in SUBSET Procs : ps = {p}
    OBVIOUS
  <2>4. Dead(ps) /\ \A q \in ps : epoch[q] < MaxEpoch
    BY <1>1, <2>3 DEF Crash
  <2>5. \A f \in Files : content'[f] = content[f]
    BY <2>1
  <2>6. entry' \in {entry, NoFile} /\ UNCHANGED synced
    BY <2>1
  <2>7. QED
    BY <2>2, <2>4, <2>5, <2>6, DeadKeepsInv
<1>2. ASSUME PowerLoss
      PROVE  CacheInv'
  <2>1. DiskTypeOK'
    BY <1>2 DEF PowerLoss, CacheInv, CacheTypeOK, DiskTypeOK
  <2>2. QED
    BY <1>2, <2>1, DeadKeepsInv DEF PowerLoss, CacheInv, CacheTypeOK, DiskTypeOK
<1>3. ASSUME CleanCache
      PROVE  CacheInv'
  <2>1. \A p \in Procs : Own(p)' = Own(p)
    BY <1>3 DEF CleanCache, Own
  <2>2. CacheTypeOK'
    BY <1>3, EngineCacheAssumption DEF CacheInv, CacheTypeOK, CleanCache, DiskTypeOK, StartupTypeOK, StagesOK
  <2>3. QED
    BY <1>3, <2>1, <2>2, FileNames
       DEF CleanCache, CacheInv, WrittenOK, ChosenOK, LoadedIsGenuine
<1>4. ASSUME UNCHANGED cacheVars
      PROVE  CacheInv'
  BY <1>4 DEF cacheVars, disk, CacheInv, CacheTypeOK, DiskTypeOK, StartupTypeOK, StagesOK, WrittenOK, ChosenOK,
     LoadedIsGenuine, Own
<1>5. QED
  BY <1>1, <1>2, <1>3, <1>4

THEOREM CacheInvariant == CacheSpec => []CacheInv
<1>1. CacheInv /\ [CacheNext]_cacheVars => CacheInv'
  <2> SUFFICES ASSUME CacheInv, [CacheNext]_cacheVars PROVE CacheInv'
    OBVIOUS
  <2>1. ASSUME NEW p \in Procs, Start(p)
        PROVE  CacheInv'
    BY <2>1, StartBundledKeepsInv, StartExplicitKeepsInv DEF Start
  <2>2. ASSUME NEW p \in Procs, Step(p)
        PROVE  CacheInv'
    BY <2>2, LookupKeepsInv, CreateTempKeepsInv, WriteTempKeepsInv, SyncTempKeepsInv,
       LinkKeepsInv, CheckLinkedKeepsInv, CheckEntryKeepsInv, CheckOwnKeepsInv,
       CleanupKeepsInv, VerifyPathKeepsInv, LoadEngineKeepsInv DEF Step
  <2>3. QED
    BY <2>1, <2>2, EnvironmentKeepsInv DEF CacheNext, AllEnded
<1>2. QED
  BY InitCacheInv, <1>1, PTL DEF CacheSpec

(* The types, and the stage at which a startup has chosen its path.          *)
THEOREM CacheTypeCorrect == CacheSpec => []CacheTypeOK
<1>1. CacheInv => CacheTypeOK
  BY DEF CacheInv
<1>2. QED
  BY <1>1, CacheInvariant, PTL

(* Only an engine with the pinned digest is ever running.                    *)
THEOREM OnlyGenuineLoaded == CacheSpec => []LoadedIsGenuine
<1>1. CacheInv => LoadedIsGenuine
  BY DEF CacheInv
<1>2. QED
  BY <1>1, CacheInvariant, PTL

(* No unfinished file is ever behind the cache entry.                        *)
THEOREM OnlyCompletePublished == CacheSpec => []PublishedIsComplete
<1>1. CacheInv => PublishedIsComplete
  BY DEF CacheInv, WrittenOK, PublishedIsComplete
<1>2. QED
  BY <1>1, CacheInvariant, PTL

(* No step of a startup changes the file at a path another one has chosen.   *)
THEOREM ChosenPathsStayPut == CacheSpec => PathsStayPut
<1> DEFINE Stay ==
      \A p \in Procs : Step(p) =>
        \A q \in Procs :
          pc[q] \in {"verify", "load", "ready"} /\ FileAtPath(q) # NoFile =>
            IF viaEntry[q] THEN entry' = entry ELSE chosen[q] \in temps' \union Explicit
<1>1. CacheInv => Stay
  <2> SUFFICES ASSUME CacheInv, NEW p \in Procs, Step(p), NEW q \in Procs,
                      pc[q] \in {"verify", "load", "ready"}, FileAtPath(q) # NoFile
               PROVE  IF viaEntry[q] THEN entry' = entry ELSE chosen[q] \in temps' \union Explicit
    OBVIOUS
  <2>1. CASE Link(p)
    BY <2>1 DEF Link, FileAtPath
  <2>2. CASE Cleanup(p)
    <3>1. p # q
      BY <2>2 DEF Cleanup
    <3>2. Own(p) # Own(q)
      BY <3>1, OwnFiles DEF CacheInv
    <3>3. chosen[q] # NoFile
      BY DEF CacheInv, CacheTypeOK, StagesOK
    <3>4. ~viaEntry[q] => chosen[q] # Own(p)
      BY <3>2, <3>3, FileNames, OwnFiles DEF CacheInv, ChosenOK
    <3>5. QED
      BY <2>2, <3>4 DEF Cleanup, FileAtPath
  <2>3. CASE entry' = entry /\ temps \subseteq temps'
    BY <2>3 DEF FileAtPath
  <2>4. QED
    BY <2>1, <2>2, <2>3 DEF Step, Lookup, CreateTemp, WriteTemp, SyncTemp, CheckLinked,
       CheckEntry, CheckOwn, VerifyPath, LoadEngine, disk
<1>2. QED
  BY <1>1, CacheInvariant, PTL DEF PathsStayPut

-----------------------------------------------------------------------------
(* A startup that nothing disturbs.                                          *)

HoldsTemp == {"write"} \union AfterWrite

(* What such a startup of p has at each stage: its temporary file, the entry *)
(* it has linked, a reason to keep a copy, a genuine file at the path it has *)
(* chosen; it has not failed.  A caller's own file may be anything.          *)
OnCourse(p) ==
  /\ pc[p] \in HoldsTemp => Own(p) \in temps
  /\ pc[p] = "checkLinked" => entry = Own(p)
  /\ pc[p] = "checkEntry" => ~linkable \/ entry # NoFile
  /\ pc[p] = "checkOwn" => CopyNeeded
  /\ pc[p] \in {"verify", "load"} /\ ~viaEntry[p] /\ chosen[p] \in TempFiles => CopyNeeded
  /\ pc[p] = "cleanup" => viaEntry[p] /\ chosen[p] # NoFile /\ IsGenuine(entry)
  /\ pc[p] \in {"verify", "load"} /\ chosen[p] \notin Explicit =>
       IF viaEntry[p] THEN IsGenuine(entry)
         ELSE chosen[p] = Own(p) /\ Own(p) \in temps /\ IsGenuine(Own(p))
  /\ pc[p] = "failed" => chosen[p] \in Explicit

UndisturbedOK == \A p \in Procs : ~disturbed[p] => OnCourse(p)

(* What a startup of another process leaves alone.                           *)
LEMMA OthersFrame ==
  ASSUME CacheInv, NEW q \in Procs, Step(q), NEW p \in Procs \ {q}
  PROVE  /\ epoch' = epoch /\ linkable' = linkable /\ unremoved \subseteq unremoved'
         /\ pc'[p] = pc[p] /\ viaEntry'[p] = viaEntry[p]
         /\ chosen'[p] = chosen[p] /\ disturbed'[p] = disturbed[p]
         /\ Own(p)' = Own(p) /\ (Own(p) \in temps' <=> Own(p) \in temps)
         /\ content'[Own(p)] = content[Own(p)] /\ content'[Old] = content[Old]
         /\ entry # NoFile => entry' = entry
         /\ \A f \in Files : content[f] = "genuine" => content'[f] = "genuine"
<1>1. /\ Own(p) # Own(q) /\ Own(p) \in Files /\ Own(q) \in Files
      /\ Old \in Files /\ Old # Own(q)
  BY OwnFiles, FileNames DEF CacheInv
<1>2. CacheTypeOK
  BY DEF CacheInv
<1> USE <1>1, <1>2 DEF CacheTypeOK, DiskTypeOK, StartupTypeOK, Goto, Fault, ChooseEntry, ChooseFile, disk, Own
<1>3. CASE Lookup(q) \/ CreateTemp(q) \/ WriteTemp(q) \/ SyncTemp(q)
  BY <1>3 DEF Lookup, CreateTemp, WriteTemp, SyncTemp
<1>4. CASE Link(q) \/ CheckLinked(q) \/ CheckEntry(q) \/ CheckOwn(q)
  BY <1>4 DEF Link, CheckLinked, CheckEntry, CheckOwn
<1>5. CASE Cleanup(q) \/ VerifyPath(q) \/ LoadEngine(q)
  BY <1>5 DEF Cleanup, VerifyPath, LoadEngine
<1>6. QED
  BY <1>3, <1>4, <1>5 DEF Step

LEMMA OthersKeepOnCourse ==
  ASSUME CacheInv, NEW q \in Procs, Step(q), NEW p \in Procs \ {q}, OnCourse(p)
  PROVE  OnCourse(p)'
<1>1. IsGenuine(entry) => IsGenuine(entry)'
  <2>1. entry # NoFile => entry \in Files
    BY FileNames DEF CacheInv, CacheTypeOK, DiskTypeOK
  <2>2. QED
    BY <2>1, OthersFrame DEF IsGenuine
<1>2. Own(p) # NoFile
  BY OwnFiles, FileNames DEF CacheInv
<1>3. pc[p] = "checkLinked" => entry' = entry
  BY <1>2, OthersFrame DEF OnCourse
<1>4. CopyNeeded => CopyNeeded'
  BY OthersFrame, FileNames DEF CopyNeeded, IsGenuine
<1>5. QED
  BY <1>1, <1>2, <1>3, <1>4, OthersFrame DEF OnCourse, IsGenuine

(* A startup's own steps, none of its system calls failing.                  *)
LEMMA StepKeepsOnCourse ==
  ASSUME CacheInv, NEW p \in Procs, Step(p), ~disturbed[p], ~disturbed'[p], OnCourse(p)
  PROVE  OnCourse(p)'
<1>1. Own(p) \in TempFiles /\ Own(p) \in Files /\ Own(p) # NoFile /\ Own(p) \notin Explicit
  BY OwnFiles, FileNames DEF CacheInv
<1>2. CacheTypeOK /\ WrittenOK
  BY DEF CacheInv
<1>3. ~Fault(p)
  BY <1>2 DEF Fault, CacheTypeOK, StartupTypeOK
<1> USE <1>1, <1>2, <1>3 DEF CacheTypeOK, DiskTypeOK, StartupTypeOK, Goto, ChooseEntry, ChooseFile, disk, OnCourse,
        HoldsTemp, AfterWrite
<1>4. CASE Lookup(p) \/ CreateTemp(p)
  BY <1>4, FileNames DEF Lookup, CreateTemp, Own, IsGenuine
<1>5. CASE WriteTemp(p) \/ SyncTemp(p) \/ Link(p)
  BY <1>5 DEF WriteTemp, SyncTemp, Link, Own
<1>6. CASE CheckLinked(p)
  BY <1>6 DEF CheckLinked, Own, IsGenuine, WrittenOK
<1>7. CASE CheckEntry(p)
  <2>1. entry \in TempFiles => IsGenuine(entry)
    BY FileNames DEF WrittenOK, IsGenuine
  <2>2. entry \in TempFiles \union {Old, NoFile}
    OBVIOUS
  <2>3. ~IsGenuine(entry) /\ (~linkable \/ entry # NoFile) => CopyNeeded
    BY <2>1, <2>2 DEF CopyNeeded
  <2>4. UNCHANGED disk
    BY <1>7 DEF CheckEntry
  <2>5. CopyNeeded' <=> CopyNeeded
    BY <2>4 DEF CopyNeeded, IsGenuine
  <2>6. QED
    BY <1>7, <2>3, <2>4, <2>5 DEF CheckEntry, Own, IsGenuine
<1>8. CASE CheckOwn(p)
  <2>1. CopyNeeded' <=> CopyNeeded
    BY <1>8 DEF CheckOwn, CopyNeeded, IsGenuine
  <2>2. QED
    BY <1>8, <2>1 DEF CheckOwn, Own, IsGenuine, WrittenOK
<1>9. CASE Cleanup(p)
  BY <1>9 DEF Cleanup, Own, IsGenuine
<1>10. CASE VerifyPath(p)
  BY <1>10 DEF VerifyPath, FileAtPath, Own, IsGenuine, CopyNeeded
<1>11. CASE LoadEngine(p)
  BY <1>11 DEF LoadEngine, FileAtPath, Own, IsGenuine
<1>12. QED
  BY <1>4, <1>5, <1>6, <1>7, <1>8, <1>9, <1>10, <1>11 DEF Step

LEMMA StartOnCourse ==
  ASSUME CacheInv, NEW p \in Procs, Start(p)
  PROVE  OnCourse(p)' /\ \A o \in Procs \ {p} : OnCourse(o) => OnCourse(o)'
<1>1. CacheTypeOK
  BY DEF CacheInv
<1> USE <1>1 DEF CacheTypeOK, StartupTypeOK, Goto, ChooseFile, disk, OnCourse, HoldsTemp, AfterWrite, Own, IsGenuine, CopyNeeded
<1>2. CASE StartBundled(p)
  BY <1>2 DEF StartBundled
<1>3. ASSUME NEW f \in Explicit, StartExplicit(p, f)
      PROVE  OnCourse(p)' /\ \A o \in Procs \ {p} : OnCourse(o) => OnCourse(o)'
  BY <1>3, FileNames DEF StartExplicit
<1>4. QED
  BY <1>2, <1>3 DEF Start

(* A process that has died is off; an emptied cache disturbs those starting. *)
LEMMA EnvironmentKeepsUndisturbed ==
  ASSUME CacheInv, UndisturbedOK, (\E p \in Procs : Crash(p)) \/ PowerLoss \/ CleanCache
  PROVE  UndisturbedOK'
<1>1. CacheTypeOK
  BY DEF CacheInv
<1>2. ASSUME NEW ps \in SUBSET Procs, NEW p \in ps, Dead(ps)
      PROVE  OnCourse(p)'
  BY <1>1, <1>2 DEF Dead, OnCourse, HoldsTemp, AfterWrite
<1>3. ASSUME NEW p \in Procs, Crash(p)
      PROVE  UndisturbedOK'
  <2>1. \A o \in Procs \ {p} : OnCourse(o) /\ ~disturbed[o] => OnCourse(o)'
    BY <1>1, <1>3 DEF Crash, Dead, disk, OnCourse, Own, IsGenuine, CopyNeeded, CacheTypeOK, StartupTypeOK
  <2>2. \A o \in Procs \ {p} : disturbed'[o] = disturbed[o]
    BY <1>1, <1>3 DEF Crash, Dead, CacheTypeOK, StartupTypeOK
  <2>3. OnCourse(p)'
    BY <1>2, <1>3 DEF Crash
  <2>4. QED
    BY <2>1, <2>2, <2>3 DEF UndisturbedOK
<1>4. CASE PowerLoss
  BY <1>2, <1>4 DEF PowerLoss, UndisturbedOK
<1>5. CASE CleanCache
  BY <1>1, <1>5 DEF CleanCache, UndisturbedOK, OnCourse, Starting, HoldsTemp, AfterWrite, CacheTypeOK, StartupTypeOK
<1>6. QED
  BY <1>3, <1>4, <1>5

(* A startup stays on its course until something disturbs it.                *)
THEOREM UndisturbedInvariant == CacheSpec => []UndisturbedOK
<1>1. CacheInit => UndisturbedOK
  BY DEF CacheInit, UndisturbedOK, OnCourse, HoldsTemp, AfterWrite
<1>2. CacheInv /\ UndisturbedOK /\ [CacheNext]_cacheVars => UndisturbedOK'
  <2> SUFFICES ASSUME CacheInv, UndisturbedOK, [CacheNext]_cacheVars PROVE UndisturbedOK'
    OBVIOUS
  <2>1. ASSUME NEW p \in Procs, Start(p)
        PROVE  UndisturbedOK'
    <3>1. disturbed' = disturbed
      BY <2>1 DEF Start, StartBundled, StartExplicit
    <3>2. QED
      BY <2>1, <3>1, StartOnCourse DEF UndisturbedOK
  <2>2. ASSUME NEW p \in Procs, Step(p)
        PROVE  UndisturbedOK'
    <3>1. \A o \in Procs \ {p} : ~disturbed'[o] => OnCourse(o)'
      BY <2>2, OthersFrame, OthersKeepOnCourse DEF UndisturbedOK
    <3>2. disturbed' = disturbed \/ Fault(p)
      BY <2>2 DEF Step, Lookup, CreateTemp, WriteTemp, SyncTemp, Link, CheckLinked, CheckEntry, CheckOwn,
         Cleanup, VerifyPath, LoadEngine
    <3>3. disturbed[p] => disturbed'[p]
      BY <3>2 DEF Fault, CacheInv, CacheTypeOK, StartupTypeOK
    <3>4. ~disturbed'[p] => OnCourse(p)'
      BY <2>2, <3>3, StepKeepsOnCourse DEF UndisturbedOK
    <3>5. QED
      BY <3>1, <3>4 DEF UndisturbedOK
  <2>3. CASE UNCHANGED cacheVars
    BY <2>3 DEF cacheVars, disk, UndisturbedOK, OnCourse, Own, IsGenuine, CopyNeeded
  <2>4. QED
    BY <2>1, <2>2, <2>3, EnvironmentKeepsUndisturbed DEF CacheNext, AllEnded
<1>3. QED
  BY <1>1, <1>2, CacheInvariant, PTL DEF CacheSpec

(* A startup that no failing system call and no emptied cache disturbs is    *)
(* not failed by other processes, or by what earlier ones have left.         *)
THEOREM UndisturbedStartsSucceed == CacheSpec => []UndisturbedStartSucceeds
<1>1. UndisturbedOK => UndisturbedStartSucceeds
  BY DEF UndisturbedOK, OnCourse, UndisturbedStartSucceeds
<1>2. QED
  BY <1>1, UndisturbedInvariant, PTL

-----------------------------------------------------------------------------
(* The temporary files of the cache.                                         *)

(* The file of this run of p is not there before it is created; afterwards   *)
(* it is in use, or kept, or could not be removed.                           *)
TempAccounted(p) ==
  Own(p) \in temps =>
    /\ pc[p] \notin {"off", "lookup", "create"}
    /\ \/ Own(p) \in unremoved
       \/ pc[p] \in HoldsTemp \union {"cleanup"}
       \/ ~viaEntry[p] /\ chosen[p] = Own(p)

TempsOK ==
  /\ \A f \in temps : f[2] <= epoch[f[1]]
  /\ \A p \in Procs : TempAccounted(p)

LEMMA TempNames ==
  ASSUME CacheTypeOK
  PROVE  /\ \A f \in temps : f[1] \in Procs /\ f[2] \in Nat /\ f = <<f[1], f[2]>>
         /\ \A p \in Procs : Own(p)[1] = p /\ Own(p)[2] = epoch[p] /\ epoch[p] \in Nat
BY EngineCacheAssumption DEF CacheTypeOK, DiskTypeOK, StartupTypeOK, TempFiles, Own

LEMMA OwnStepAccounts ==
  ASSUME CacheInv, NEW p \in Procs, Step(p), TempAccounted(p)
  PROVE  TempAccounted(p)'
<1>1. Own(p) \in TempFiles /\ Own(p) # NoFile /\ CacheTypeOK
  BY OwnFiles, FileNames DEF CacheInv
<1> USE <1>1 DEF CacheTypeOK, DiskTypeOK, StartupTypeOK, StagesOK, Goto, Fault, ChooseEntry, ChooseFile, disk,
        TempAccounted, HoldsTemp, AfterWrite
<1>2. CASE Lookup(p)
  BY <1>2 DEF Lookup, Own, IsGenuine
<1>3. CASE CreateTemp(p) \/ WriteTemp(p) \/ SyncTemp(p) \/ Link(p)
  BY <1>3 DEF CreateTemp, WriteTemp, SyncTemp, Link, Own
<1>4. CASE CheckLinked(p) \/ CheckEntry(p)
  BY <1>4 DEF CheckLinked, CheckEntry, Own
<1>5. CASE CheckOwn(p)
  BY <1>5 DEF CheckOwn, Own
<1>6. CASE Cleanup(p)
  BY <1>6 DEF Cleanup, Own
<1>7. CASE VerifyPath(p)
  BY <1>7 DEF VerifyPath, Own
<1>8. CASE LoadEngine(p)
  BY <1>8 DEF LoadEngine, FileAtPath, Own
<1>9. QED
  BY <1>2, <1>3, <1>4, <1>5, <1>6, <1>7, <1>8 DEF Step

LEMMA StepKeepsTemps ==
  ASSUME CacheInv, TempsOK, NEW q \in Procs, Step(q)
  PROVE  TempsOK'
<1>1. temps' \subseteq temps \union {Own(q)} /\ epoch' = epoch
  BY DEF Step, Lookup, CreateTemp, WriteTemp, SyncTemp, Link, CheckLinked, CheckEntry, CheckOwn,
     Cleanup, VerifyPath, LoadEngine, disk
<1>2. \A f \in temps' : f[2] <= epoch'[f[1]]
  BY <1>1, TempNames DEF TempsOK, CacheInv
<1>3. \A p \in Procs \ {q} : TempAccounted(p)'
  BY OthersFrame DEF TempsOK, TempAccounted
<1>4. TempAccounted(q)'
  BY OwnStepAccounts DEF TempsOK
<1>5. QED
  BY <1>2, <1>3, <1>4 DEF TempsOK

LEMMA StartKeepsTemps ==
  ASSUME CacheInv, TempsOK, NEW q \in Procs, Start(q)
  PROVE  TempsOK'
<1>1. CacheTypeOK
  BY DEF CacheInv
<1>2. pc[q] = "off" /\ UNCHANGED <<temps, unremoved, epoch>>
  BY DEF Start, StartBundled, StartExplicit, disk
<1>3. \A p \in Procs \ {q} : pc'[p] = pc[p] /\ viaEntry'[p] = viaEntry[p] /\ chosen'[p] = chosen[p]
  BY <1>1 DEF Start, StartBundled, StartExplicit, Goto, ChooseFile, CacheTypeOK, StartupTypeOK
<1>4. QED
  BY <1>2, <1>3 DEF TempsOK, TempAccounted, Own

(* The files of those who die are of a run that is over.                     *)
LEMMA DeadKeepsTemps ==
  ASSUME CacheInv, TempsOK, NEW ps \in SUBSET Procs, Dead(ps), temps' \subseteq temps,
         ps = Procs \/ unremoved' = unremoved
  PROVE  TempsOK'
<1>1. CacheTypeOK
  BY DEF CacheInv
<1>2. \A p \in Procs : epoch'[p] = IF p \in ps THEN epoch[p] + 1 ELSE epoch[p]
  BY DEF Dead
<1>3. \A f \in temps' : f[2] <= epoch'[f[1]]
  BY <1>1, <1>2, TempNames DEF TempsOK
<1>4. \A p \in ps : Own(p)' \notin temps'
  <2> SUFFICES ASSUME NEW p \in ps, <<p, epoch[p] + 1>> \in temps PROVE FALSE
    BY <1>2 DEF Own
  <2>1. epoch[p] + 1 <= epoch[p]
    BY DEF TempsOK
  <2>2. QED
    BY <1>1, <2>1, TempNames
<1>5. \A p \in Procs \ ps : TempAccounted(p)'
  BY <1>1, <1>2 DEF Dead, TempsOK, TempAccounted, Own, CacheTypeOK, StartupTypeOK
<1>6. QED
  BY <1>3, <1>4, <1>5 DEF TempsOK, TempAccounted

(* No temporary file is left that nothing accounts for: a startup's own, a   *)
(* private copy, which an undisturbed startup keeps only where it has to, or *)
(* one that a dead run has left or that could not be removed.                *)
THEOREM TempsStayAccountedFor == CacheSpec => []TempsAccountedFor
<1>1. CacheInit => TempsOK
  BY DEF CacheInit, TempsOK, TempAccounted
<1>2. CacheInv /\ TempsOK /\ [CacheNext]_cacheVars => TempsOK'
  <2> SUFFICES ASSUME CacheInv, TempsOK, [CacheNext]_cacheVars PROVE TempsOK'
    OBVIOUS
  <2>1. ASSUME NEW p \in Procs, Crash(p)
        PROVE  TempsOK'
    BY <2>1, DeadKeepsTemps DEF Crash, disk
  <2>2. CASE PowerLoss
    BY <2>2, DeadKeepsTemps DEF PowerLoss
  <2>3. CASE CleanCache
    BY <2>3 DEF CleanCache, TempsOK, TempAccounted
  <2>4. CASE UNCHANGED cacheVars
    BY <2>4 DEF cacheVars, disk, TempsOK, TempAccounted, Own
  <2>5. QED
    BY <2>1, <2>2, <2>3, <2>4, StepKeepsTemps, StartKeepsTemps DEF CacheNext, AllEnded
<1>3. CacheInv /\ TempsOK /\ UndisturbedOK => TempsAccountedFor
  <2> SUFFICES ASSUME CacheInv, TempsOK, UndisturbedOK PROVE TempsAccountedFor
    OBVIOUS
  <2>1. ASSUME NEW f \in temps, f = Own(f[1])
        PROVE  \/ f \in unremoved
               \/ pc[f[1]] \in HoldsTemp \union {"cleanup"}
               \/ ~viaEntry[f[1]] /\ chosen[f[1]] = f
    <3>1. f[1] \in Procs
      BY TempNames DEF CacheInv
    <3>2. QED
      BY <2>1, <3>1 DEF TempsOK, TempAccounted
  <2>2. \A p \in Procs : pc[p] \in {"verify", "load"} /\ ~viaEntry[p] /\ chosen[p] \in TempFiles =>
          disturbed[p] \/ CopyNeeded
    BY DEF UndisturbedOK, OnCourse
  <2>3. QED
    BY <2>1, <2>2 DEF TempsAccountedFor, HoldsTemp, AfterWrite
<1>4. QED
  BY <1>1, <1>2, <1>3, CacheInvariant, UndisturbedInvariant, PTL DEF CacheSpec

-----------------------------------------------------------------------------
(* The startup.                                                              *)

CallersOK ==
  /\ wants \in [Callers -> {Bundled} \union Explicit]
  /\ at \in [Callers -> {"idle", "calling", "running", "returned"}]
  /\ once \in [Procs -> {"new", "running", "done"}]
  /\ shared \in [Procs -> {Unset, "client", "error"}]
  /\ got \in [Callers -> {Unset, "client", "error"}]

(* What clientOnce says of the startup of its process.                       *)
OnceOK ==
  \A p \in Procs :
    /\ once[p] = "new" => pc[p] = "off" /\ shared[p] = Unset
    /\ once[p] = "running" => shared[p] = Unset
    /\ once[p] = "done" => /\ pc[p] \in Ended
                           /\ shared[p] = IF pc[p] = "ready" THEN "client" ELSE "error"

(* One caller at most is inside, and the answers are the stored result.      *)
AnswersOK ==
  /\ \A c \in Callers : at[c] = "running" => once[ProcOf[c]] = "running"
  /\ \A c, d \in Callers : at[c] = "running" /\ at[d] = "running" /\ ProcOf[c] = ProcOf[d] => c = d
  /\ \A c \in Callers : at[c] = "returned" => once[ProcOf[c]] = "done" /\ got[c] = shared[ProcOf[c]]
  /\ \A c \in Callers : at[c] # "returned" => got[c] = Unset

StartupInv == CacheInv /\ CallersOK /\ OnceOK /\ AnswersOK

-----------------------------------------------------------------------------
LEMMA NextIsCacheStep ==
  ASSUME CallersOK, [Next]_vars
  PROVE  [CacheNext]_cacheVars
<1>1. ASSUME NEW c \in Callers, Enter(c)
      PROVE  CacheNext
  <2>1. ProcOf[c] \in Procs /\ wants[c] \in {Bundled} \union Explicit
    BY EngineStartupAssumption DEF CallersOK
  <2>2. Start(ProcOf[c])
    BY <1>1, <2>1 DEF Enter, Start
  <2>3. QED
    BY <2>1, <2>2 DEF CacheNext
<1>2. ASSUME NEW c \in Callers, Call(c) \/ Finish(c) \/ Read(c)
      PROVE  UNCHANGED cacheVars
  BY <1>2 DEF Call, Finish, Read
<1>3. Startup \/ Environment => CacheNext
  BY DEF Startup, Environment, CacheNext
<1>4. QED
  BY <1>1, <1>2, <1>3 DEF Next, AllReturned, vars

(* A step of the startup moves its own process on from where it is starting. *)
LEMMA StepMoves ==
  ASSUME CacheTypeOK, NEW p \in Procs, Step(p)
  PROVE  /\ pc[p] \in Starting
         /\ \A o \in Procs \ {p} : pc'[o] = pc[o]
         /\ pc'[p] # "off"
<1>1. pc \in [Procs -> {"off"} \union Starting \union Ended]
  BY DEF CacheTypeOK, StartupTypeOK
<1>2. pc[p] \in Starting /\ \E s \in Starting \union Ended : Goto(p, s)
  BY DEF Step, Lookup, CreateTemp, WriteTemp, SyncTemp, Link, CheckLinked, CheckEntry, CheckOwn,
     Cleanup, VerifyPath, LoadEngine, Starting, Ended
<1>3. PICK s \in Starting \union Ended : Goto(p, s)
  BY <1>2
<1>4. s # "off"
  BY DEF Starting, Ended
<1>5. QED
  BY <1>1, <1>2, <1>3, <1>4 DEF Goto

LEMMA Stages == "off" \notin Ended /\ "off" \notin Starting /\ Starting \cap Ended = {} /\ "ready" \in Ended
BY DEF Starting, Ended

LEMMA ProcsOfCallers == \A c \in Callers : ProcOf[c] \in Procs
BY EngineStartupAssumption

-----------------------------------------------------------------------------
LEMMA InitStartupInv == Init => StartupInv
BY InitCacheInv, EngineStartupAssumption, ProcsOfCallers
   DEF Init, StartupInv, CallersOK, OnceOK, AnswersOK, CacheInit

LEMMA CallKeepsInv ==
  ASSUME CallersOK, OnceOK, AnswersOK, NEW c \in Callers, Call(c)
  PROVE  CallersOK' /\ OnceOK' /\ AnswersOK'
<1> USE DEF Call, CallersOK, cacheVars
<1>1. CallersOK'
  OBVIOUS
<1>2. OnceOK'
  BY DEF OnceOK
<1>3. AnswersOK'
  BY DEF AnswersOK
<1>4. QED
  BY <1>1, <1>2, <1>3

LEMMA EnterKeepsInv ==
  ASSUME CacheTypeOK, CallersOK, OnceOK, AnswersOK, NEW c \in Callers, Enter(c)
  PROVE  CallersOK' /\ OnceOK' /\ AnswersOK'
<1> DEFINE p == ProcOf[c]
<1>1. p \in Procs
  BY ProcsOfCallers
<1>2. \A o \in Procs \ {p} : pc'[o] = pc[o]
  BY <1>1 DEF Enter, StartBundled, StartExplicit, Goto, CacheTypeOK, StartupTypeOK
<1>3. CallersOK'
  BY <1>1 DEF Enter, CallersOK
<1>4. OnceOK'
  BY <1>1, <1>2 DEF Enter, CallersOK, OnceOK
<1>5. AnswersOK'
  BY <1>1, ProcsOfCallers DEF Enter, CallersOK, AnswersOK
<1>6. QED
  BY <1>3, <1>4, <1>5

LEMMA FinishKeepsInv ==
  ASSUME CallersOK, OnceOK, AnswersOK, NEW c \in Callers, Finish(c)
  PROVE  CallersOK' /\ OnceOK' /\ AnswersOK'
<1> DEFINE p == ProcOf[c]
<1>1. p \in Procs /\ once[p] = "running" /\ UNCHANGED <<pc, wants, got>>
  BY ProcsOfCallers DEF Finish, AnswersOK, cacheVars
<1>2. CallersOK'
  BY <1>1 DEF Finish, CallersOK
<1>3. OnceOK'
  BY <1>1 DEF Finish, CallersOK, OnceOK
<1>4. AnswersOK'
  BY <1>1, ProcsOfCallers DEF Finish, CallersOK, AnswersOK
<1>5. QED
  BY <1>2, <1>3, <1>4

LEMMA ReadKeepsInv ==
  ASSUME CallersOK, OnceOK, AnswersOK, NEW c \in Callers, Read(c)
  PROVE  CallersOK' /\ OnceOK' /\ AnswersOK'
<1>1. ProcOf[c] \in Procs /\ UNCHANGED <<pc, wants, once, shared>>
  BY ProcsOfCallers DEF Read, cacheVars
<1>2. CallersOK'
  BY <1>1 DEF Read, CallersOK
<1>3. OnceOK'
  BY <1>1 DEF OnceOK
<1>4. AnswersOK'
  BY <1>1 DEF Read, CallersOK, AnswersOK
<1>5. QED
  BY <1>2, <1>3, <1>4

(* The startup of p is inside clientOnce: it is neither off nor ended.       *)
LEMMA StartupKeepsInv ==
  ASSUME CacheTypeOK, CallersOK, OnceOK, AnswersOK, Startup
  PROVE  CallersOK' /\ OnceOK' /\ AnswersOK'
<1>1. PICK p \in Procs : Step(p)
  BY DEF Startup
<1>2. UNCHANGED <<wants, at, once, shared, got>>
  BY DEF Startup, callerVars
<1>3. once[p] = "running"
  BY <1>1, StepMoves, Stages DEF OnceOK, CallersOK
<1>4. OnceOK'
  BY <1>1, <1>2, <1>3, StepMoves DEF OnceOK
<1>5. QED
  BY <1>2, <1>4 DEF CallersOK, AnswersOK

LEMMA DeathKeepsInv ==
  ASSUME CacheTypeOK, CallersOK, OnceOK, AnswersOK, NEW ps \in SUBSET Procs, Dead(ps), ForgetCallers(ps)
  PROVE  CallersOK' /\ OnceOK' /\ AnswersOK'
<1>1. CallersOK'
  BY ProcsOfCallers DEF ForgetCallers, CallersOK
<1>2. OnceOK'
  BY DEF Dead, ForgetCallers, CallersOK, OnceOK
<1>3. AnswersOK'
  BY ProcsOfCallers DEF ForgetCallers, CallersOK, AnswersOK
<1>4. QED
  BY <1>1, <1>2, <1>3

LEMMA EnvironmentKeepsOutcomes ==
  ASSUME CacheTypeOK, CallersOK, OnceOK, AnswersOK, Environment
  PROVE  CallersOK' /\ OnceOK' /\ AnswersOK'
<1>1. ASSUME NEW p \in Procs, Crash(p), ForgetCallers({p})
      PROVE  CallersOK' /\ OnceOK' /\ AnswersOK'
  BY <1>1, DeathKeepsInv DEF Crash
<1>2. ASSUME PowerLoss, ForgetCallers(Procs)
      PROVE  CallersOK' /\ OnceOK' /\ AnswersOK'
  BY <1>2, DeathKeepsInv DEF PowerLoss
<1>3. ASSUME CleanCache, UNCHANGED callerVars
      PROVE  CallersOK' /\ OnceOK' /\ AnswersOK'
  BY <1>3 DEF CleanCache, callerVars, CallersOK, OnceOK, AnswersOK
<1>4. QED
  BY <1>1, <1>2, <1>3 DEF Environment

LEMMA CacheStepKeepsCacheInv ==
  ASSUME CacheInv, [CacheNext]_cacheVars
  PROVE  CacheInv'
<1>1. ASSUME NEW p \in Procs, Start(p)
      PROVE  CacheInv'
  BY <1>1, StartBundledKeepsInv, StartExplicitKeepsInv DEF Start
<1>2. ASSUME NEW p \in Procs, Step(p)
      PROVE  CacheInv'
  BY <1>2, LookupKeepsInv, CreateTempKeepsInv, WriteTempKeepsInv, SyncTempKeepsInv,
     LinkKeepsInv, CheckLinkedKeepsInv, CheckEntryKeepsInv, CheckOwnKeepsInv,
     CleanupKeepsInv, VerifyPathKeepsInv, LoadEngineKeepsInv DEF Step
<1>3. QED
  BY <1>1, <1>2, EnvironmentKeepsInv DEF CacheNext, AllEnded

THEOREM StartupInvariant == Spec => []StartupInv
<1>1. StartupInv /\ [Next]_vars => StartupInv'
  <2> SUFFICES ASSUME StartupInv, [Next]_vars PROVE StartupInv'
    OBVIOUS
  <2>1. CacheInv'
    BY NextIsCacheStep, CacheStepKeepsCacheInv DEF StartupInv
  <2>2. CacheTypeOK /\ CallersOK /\ OnceOK /\ AnswersOK
    BY DEF StartupInv, CacheInv
  <2>3. CASE \E c \in Callers : Call(c) \/ Enter(c) \/ Finish(c) \/ Read(c)
    BY <2>1, <2>2, <2>3, CallKeepsInv, EnterKeepsInv, FinishKeepsInv, ReadKeepsInv DEF StartupInv
  <2>4. CASE Startup \/ Environment
    BY <2>1, <2>2, <2>4, StartupKeepsInv, EnvironmentKeepsOutcomes DEF StartupInv
  <2>5. CASE UNCHANGED vars
    BY <2>1, <2>2, <2>5 DEF StartupInv, vars, cacheVars, callerVars, CallersOK, OnceOK, AnswersOK
  <2>6. QED
    BY <2>3, <2>4, <2>5 DEF Next, AllReturned
<1>2. QED
  BY InitStartupInv, <1>1, PTL DEF Spec

-----------------------------------------------------------------------------
(* The processes of a machine use the cache as EngineCache says, whichever   *)
(* calls begin their startups: its theorems hold of their callers too.       *)
THEOREM CallersShareTheCache == Spec => CacheSpec
<1>1. Init => CacheInit
  BY DEF Init
<1>2. StartupInv /\ [Next]_vars => [CacheNext]_cacheVars
  BY NextIsCacheStep DEF StartupInv
<1>3. QED
  BY <1>1, <1>2, StartupInvariant, PTL DEF Spec, CacheSpec

(* The types; a result is stored exactly when clientOnce is done, and told   *)
(* exactly to the calls that have returned.                                  *)
THEOREM StartupTypeCorrect == Spec => []TypeOK
<1>1. StartupInv => TypeOK
  BY EngineStartupAssumption, ProcsOfCallers
     DEF StartupInv, CacheInv, CallersOK, OnceOK, AnswersOK, TypeOK
<1>2. QED
  BY <1>1, StartupInvariant, PTL

(* No call is given a client without an authentic engine behind it.          *)
THEOREM ClientsAreUsable == Spec => []ClientIsUsable
<1>1. StartupInv => ClientIsUsable
  BY EngineStartupAssumption, ProcsOfCallers
     DEF StartupInv, CacheInv, LoadedIsGenuine, CallersOK, OnceOK, AnswersOK, ClientIsUsable
<1>2. QED
  BY <1>1, StartupInvariant, PTL

(* Initialisation is process-wide and first-call-wins: the calls implement   *)
(* EngineOnce.                                                               *)
THEOREM FirstCallDoesWin == Spec => FirstCallWins
<1> DEFINE outcome == [p \in Procs |-> IF once[p] = "done" THEN shared[p] ELSE Unset]
<1>1. Init => Once!Init
  BY DEF Init, Once!Init
<1>2. StartupInv /\ [Next]_vars => [Once!Next]_(Once!vars)
  <2> SUFFICES ASSUME StartupInv, [Next]_vars
               PROVE  [Once!Next]_(Once!vars)
    OBVIOUS
  <2> USE ProcsOfCallers, EngineStartupAssumption DEF StartupInv, CallersOK
  <2>1. ASSUME NEW c \in Callers, Finish(c)
        PROVE  Once!Settle(ProcOf[c])
    <3>1. once[ProcOf[c]] = "running"
      BY <2>1 DEF Finish, AnswersOK
    <3>2. PICK o \in {"client", "error"} : shared' = [shared EXCEPT ![ProcOf[c]] = o]
      BY <2>1 DEF Finish
    <3>3. once' = [once EXCEPT ![ProcOf[c]] = "done"] /\ got' = got
      BY <2>1 DEF Finish
    <3>4. outcome[ProcOf[c]] = Unset /\ outcome' = [outcome EXCEPT ![ProcOf[c]] = o]
      BY <3>1, <3>2, <3>3
    <3>5. QED
      BY <3>3, <3>4 DEF Once!Settle
  <2>2. ASSUME NEW c \in Callers, Read(c)
        PROVE  Once!Tell(c)
    <3>1. got[c] = Unset /\ once[ProcOf[c]] = "done"
      BY <2>2 DEF Read, AnswersOK
    <3>2. shared[ProcOf[c]] # Unset
      BY <3>1 DEF OnceOK
    <3>3. got' = [got EXCEPT ![c] = outcome[ProcOf[c]]] /\ outcome' = outcome
      BY <2>2, <3>1 DEF Read
    <3>4. QED
      BY <3>1, <3>2, <3>3 DEF Once!Tell
  <2>3. ASSUME NEW ps \in SUBSET Procs, ForgetCallers(ps)
        PROVE  Once!End(ps)
    BY <2>3 DEF ForgetCallers, Once!End
  <2>4. ASSUME NEW c \in Callers, Call(c) \/ Enter(c)
        PROVE  UNCHANGED Once!vars
    <3>1. UNCHANGED <<shared, got>>
      BY <2>4 DEF Call, Enter
    <3>2. outcome' = outcome
      BY <2>4, <3>1 DEF Call, Enter, OnceOK
    <3>3. QED
      BY <3>1, <3>2 DEF Once!vars
  <2>5. ASSUME UNCHANGED callerVars
        PROVE  UNCHANGED Once!vars
    BY <2>5 DEF callerVars, Once!vars
  <2>6. CASE \E c \in Callers : Call(c) \/ Enter(c) \/ Finish(c) \/ Read(c)
    <3>1. CASE \E c \in Callers : Finish(c) \/ Read(c)
      BY <2>1, <2>2, <3>1 DEF Once!Next
    <3>2. CASE \E c \in Callers : Call(c) \/ Enter(c)
      BY <2>4, <3>2
    <3>3. QED
      BY <2>6, <3>1, <3>2
  <2>7. CASE Environment
    <3>1. (\E ps \in SUBSET Procs : ForgetCallers(ps)) \/ UNCHANGED callerVars
      BY <2>7 DEF Environment
    <3>2. QED
      BY <2>3, <2>5, <3>1 DEF Once!Next
  <2>8. CASE Startup \/ AllReturned \/ UNCHANGED vars
    BY <2>5, <2>8 DEF Startup, AllReturned, vars
  <2>9. QED
    BY <2>6, <2>7, <2>8 DEF Next
<1>3. QED
  BY <1>1, <1>2, StartupInvariant, PTL DEF Spec, FirstCallWins, Once!Spec
=============================================================================
