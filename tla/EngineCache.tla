------------------------------ MODULE EngineCache ------------------------------
(***************************************************************************)
(* How the processes of one user materialise the embedded SQL engine in the *)
(* cache directory they share and load it: bundledFFIPath and openClient    *)
(* (ffi.go).                                                                *)
(*                                                                         *)
(* A file is named by the process and the incarnation that created it; its  *)
(* content outlives its directory entries.  The directory holds temporary   *)
(* names and at most one cache entry, a hard link.  Processes crash and     *)
(* restart, the machine loses power, any system call may fail, and the user *)
(* may empty the cache.                                                     *)
(***************************************************************************)
EXTENDS Naturals, FiniteSets

CONSTANTS
  Procs,        \* the processes
  MaxEpoch,     \* how often a process may die and be started again
  MaxCleans,    \* how often the cache is emptied
  Explicit,     \* files a caller may name in InitWithRuntimePath
  Old,          \* the file of a cache entry left by earlier runs
  NoFile

ASSUME EngineCacheAssumption ==
  /\ MaxEpoch \in Nat /\ MaxCleans \in Nat
  /\ Explicit \intersect (Procs \X (0 .. MaxEpoch)) = {}
  /\ Old \notin (Procs \X (0 .. MaxEpoch)) \union Explicit
  /\ NoFile \notin (Procs \X (0 .. MaxEpoch)) \union Explicit \union {Old}

TempFiles == Procs \X (0 .. MaxEpoch)
Files == TempFiles \union {Old} \union Explicit

VARIABLES
  linkable,   \* the file system of the cache has hard links
  entry,      \* the file the cache entry links to, or NoFile
  temps,      \* the files that have a temporary name in the cache
  content,    \* of each file: "partial", "genuine" or "foreign"
  synced,     \* the files whose content has reached the disk
  unremoved,  \* the temporary names a startup of this boot could not remove
  epoch,      \* the incarnation of each process
  pc,         \* where the process stands in bundledFFIPath and openClient
  viaEntry,   \* the path to open is the cache entry, not a file of its own
  chosen,     \* the file at the path to open, NoFile before the choice
  disturbed,  \* a system call of this startup failed, or the cache was emptied
  cleans      \* how often the cache was emptied

disk == <<linkable, entry, temps, content, synced, unremoved, cleans>>
cacheVars == <<disk, epoch, pc, viaEntry, chosen, disturbed>>

Starting == {"lookup", "create", "write", "sync", "link", "checkLinked", "checkEntry",
             "checkOwn", "cleanup", "verify", "load"}
Ended == {"ready", "failed"}

Own(p) == <<p, epoch[p]>>

CacheInit ==
  /\ linkable \in BOOLEAN
  /\ entry \in {NoFile, Old}
  /\ temps = {}
  /\ content \in [Files -> {"partial", "genuine", "foreign"}]
  /\ \A f \in TempFiles : content[f] = "partial"
  /\ entry = NoFile => content[Old] = "partial"
  /\ synced = {Old} \union Explicit
  /\ unremoved = {}
  /\ epoch = [p \in Procs |-> 0]
  /\ pc = [p \in Procs |-> "off"]
  /\ viaEntry = [p \in Procs |-> FALSE]
  /\ chosen = [p \in Procs |-> NoFile]
  /\ disturbed = [p \in Procs |-> FALSE]
  /\ cleans = 0

-----------------------------------------------------------------------------
Goto(p, s) == pc' = [pc EXCEPT ![p] = s]

(* A system call of the startup fails.                                       *)
Fault(p) == disturbed' = [disturbed EXCEPT ![p] = TRUE]

(* Mutant of IsGenuine: any file will do.                                    *)
IsThere(f) == f # NoFile

(* verifyBundledFFIIntegrity: the digest of the file is the pinned one.      *)
IsGenuine(f) == f # NoFile /\ content[f] = "genuine"

(* The file found at the path the process is about to open.                  *)
FileAtPath(p) ==
  IF viaEntry[p] THEN entry
  ELSE IF chosen[p] \in temps \union Explicit THEN chosen[p] ELSE NoFile

ChooseEntry(p) ==
  /\ viaEntry' = [viaEntry EXCEPT ![p] = TRUE]
  /\ chosen' = [chosen EXCEPT ![p] = entry]

ChooseFile(p, f) ==
  /\ viaEntry' = [viaEntry EXCEPT ![p] = FALSE]
  /\ chosen' = [chosen EXCEPT ![p] = f]

(* openBundledClient, and InitWithRuntimePath with an explicit file.         *)
StartBundled(p) ==
  /\ pc[p] = "off"
  /\ Goto(p, "lookup")
  /\ UNCHANGED <<disk, epoch, viaEntry, chosen, disturbed>>

StartExplicit(p, f) ==
  /\ pc[p] = "off"
  /\ Goto(p, "verify")
  /\ ChooseFile(p, f)
  /\ UNCHANGED <<disk, epoch, disturbed>>

(* The directory is made and the existing entry is checked; an entry that    *)
(* cannot be read counts as absent.                                          *)
Lookup(p) ==
  /\ pc[p] = "lookup"
  /\ \/ IsGenuine(entry) /\ Goto(p, "verify") /\ ChooseEntry(p) /\ UNCHANGED disturbed
     \/ ~IsGenuine(entry) /\ Goto(p, "create") /\ UNCHANGED <<viaEntry, chosen, disturbed>>
     \/ (Goto(p, "create") \/ Goto(p, "failed")) /\ Fault(p) /\ UNCHANGED <<viaEntry, chosen>>
  /\ UNCHANGED <<disk, epoch>>

CreateTemp(p) ==
  /\ pc[p] = "create"
  /\ \/ /\ Goto(p, "write")
        /\ temps' = temps \union {Own(p)}
        /\ UNCHANGED disturbed
     \/ Goto(p, "failed") /\ Fault(p) /\ UNCHANGED temps
  /\ UNCHANGED <<linkable, entry, content, synced, unremoved, cleans, epoch, viaEntry, chosen>>

WriteTemp(p) ==
  /\ pc[p] = "write"
  /\ \/ /\ Goto(p, "sync")
        /\ content' = [content EXCEPT ![Own(p)] = "genuine"]
        /\ UNCHANGED disturbed
     \/ Goto(p, "cleanup") /\ Fault(p) /\ UNCHANGED content
  /\ UNCHANGED <<linkable, entry, temps, synced, unremoved, cleans, epoch, viaEntry, chosen>>

(* Mutant of SyncTemp: the file is linked without having been synced.        *)
SyncTempSkipped(p) ==
  /\ pc[p] = "sync"
  /\ Goto(p, "link")
  /\ UNCHANGED <<disk, epoch, viaEntry, chosen, disturbed>>

SyncTemp(p) ==
  /\ pc[p] = "sync"
  /\ \/ Goto(p, "link") /\ synced' = synced \union {Own(p)} /\ UNCHANGED disturbed
     \/ Goto(p, "cleanup") /\ Fault(p) /\ UNCHANGED synced
  /\ UNCHANGED <<linkable, entry, temps, content, unremoved, cleans, epoch, viaEntry, chosen>>

(* Mutant of Link: os.Rename.                                                *)
Rename(p) ==
  /\ pc[p] = "link"
  /\ \/ entry' = Own(p) /\ temps' = temps \ {Own(p)} /\ Goto(p, "checkLinked") /\ UNCHANGED disturbed
     \/ Goto(p, "checkEntry") /\ Fault(p) /\ UNCHANGED <<entry, temps>>
  /\ UNCHANGED <<linkable, content, synced, unremoved, cleans, epoch, viaEntry, chosen>>

(* os.Link fails when the entry exists; any failure leads to the entry.      *)
Link(p) ==
  /\ pc[p] = "link"
  /\ LET possible == linkable /\ entry = NoFile /\ Own(p) \in temps
     IN  \/ possible /\ entry' = Own(p) /\ Goto(p, "checkLinked") /\ UNCHANGED disturbed
         \/ ~possible /\ Goto(p, "checkEntry") /\ UNCHANGED <<entry, disturbed>>
         \/ Goto(p, "checkEntry") /\ Fault(p) /\ UNCHANGED entry
  /\ UNCHANGED <<linkable, temps, content, synced, unremoved, cleans, epoch, viaEntry, chosen>>

CheckLinked(p) ==
  /\ pc[p] = "checkLinked"
  /\ Goto(p, "cleanup")
  /\ \/ IsGenuine(entry) /\ ChooseEntry(p) /\ UNCHANGED disturbed
     \/ ~IsGenuine(entry) /\ UNCHANGED <<viaEntry, chosen, disturbed>>
     \/ Fault(p) /\ UNCHANGED <<viaEntry, chosen>>
  /\ UNCHANGED <<disk, epoch>>

(* Mutants of CheckEntry: an entry that is not genuine is an error; it makes *)
(* the startup begin again.                                                  *)
CheckEntryStrictly(p) ==
  /\ pc[p] = "checkEntry"
  /\ Goto(p, "cleanup")
  /\ \/ IsGenuine(entry) /\ ChooseEntry(p) /\ UNCHANGED disturbed
     \/ ~IsGenuine(entry) /\ UNCHANGED <<viaEntry, chosen, disturbed>>
     \/ Fault(p) /\ UNCHANGED <<viaEntry, chosen>>
  /\ UNCHANGED <<disk, epoch>>

CheckEntryOrRetry(p) ==
  /\ pc[p] = "checkEntry"
  /\ \/ IsGenuine(entry) /\ Goto(p, "cleanup") /\ ChooseEntry(p)
     \/ ~IsGenuine(entry) /\ Goto(p, "lookup") /\ UNCHANGED <<viaEntry, chosen>>
  /\ UNCHANGED <<disk, epoch, disturbed>>

CheckEntry(p) ==
  /\ pc[p] = "checkEntry"
  /\ \/ IsGenuine(entry) /\ Goto(p, "cleanup") /\ ChooseEntry(p) /\ UNCHANGED disturbed
     \/ ~IsGenuine(entry) /\ Goto(p, "checkOwn") /\ UNCHANGED <<viaEntry, chosen, disturbed>>
     \/ Goto(p, "checkOwn") /\ Fault(p) /\ UNCHANGED <<viaEntry, chosen>>
  /\ UNCHANGED <<disk, epoch>>

(* The temporary file is kept as this process's private copy.                *)
CheckOwn(p) ==
  /\ pc[p] = "checkOwn"
  /\ LET own == IF Own(p) \in temps THEN Own(p) ELSE NoFile
     IN  \/ /\ IsGenuine(own) /\ Goto(p, "verify") /\ ChooseFile(p, own)
            /\ UNCHANGED disturbed
         \/ ~IsGenuine(own) /\ Goto(p, "cleanup") /\ UNCHANGED <<viaEntry, chosen, disturbed>>
         \/ Goto(p, "cleanup") /\ Fault(p) /\ UNCHANGED <<viaEntry, chosen>>
  /\ UNCHANGED <<disk, epoch>>

(* Mutants of Cleanup: the file is kept whatever happened; the error is lost. *)
CleanupKeeps(p) ==
  /\ pc[p] = "cleanup"
  /\ Goto(p, IF chosen[p] = NoFile THEN "failed" ELSE "verify")
  /\ UNCHANGED <<disk, epoch, viaEntry, chosen, disturbed>>

CleanupForgivingly(p) ==
  /\ pc[p] = "cleanup"
  /\ Goto(p, "verify")
  /\ temps' = temps \ {Own(p)}
  /\ UNCHANGED <<linkable, entry, content, synced, unremoved, cleans, epoch, viaEntry, chosen, disturbed>>

(* The deferred removal, whose failure is ignored; no path chosen is an      *)
(* error.                                                                    *)
Cleanup(p) ==
  /\ pc[p] = "cleanup"
  /\ Goto(p, IF chosen[p] = NoFile THEN "failed" ELSE "verify")
  /\ \/ temps' = temps \ {Own(p)} /\ UNCHANGED <<unremoved, disturbed>>
     \/ unremoved' = unremoved \union {Own(p)} /\ Fault(p) /\ UNCHANGED temps
  /\ UNCHANGED <<linkable, entry, content, synced, cleans, epoch, viaEntry, chosen>>

(* openClient: the path is authenticated, and opened by its name again.      *)
VerifyPath(p) ==
  /\ pc[p] = "verify"
  /\ \/ IsGenuine(FileAtPath(p)) /\ Goto(p, "load") /\ UNCHANGED disturbed
     \/ ~IsGenuine(FileAtPath(p)) /\ Goto(p, "failed") /\ UNCHANGED disturbed
     \/ Goto(p, "failed") /\ Fault(p)
  /\ UNCHANGED <<disk, epoch, viaEntry, chosen>>

LoadEngine(p) ==
  /\ pc[p] = "load"
  /\ \/ /\ FileAtPath(p) # NoFile
        /\ Goto(p, "ready")
        /\ chosen' = [chosen EXCEPT ![p] = FileAtPath(p)]
        /\ UNCHANGED disturbed
     \/ FileAtPath(p) = NoFile /\ Goto(p, "failed") /\ UNCHANGED <<chosen, disturbed>>
     \/ Goto(p, "failed") /\ Fault(p) /\ UNCHANGED chosen
  /\ UNCHANGED <<disk, epoch, viaEntry>>

Step(p) ==
  \/ Lookup(p) \/ CreateTemp(p) \/ WriteTemp(p) \/ SyncTemp(p) \/ Link(p)
  \/ CheckLinked(p) \/ CheckEntry(p) \/ CheckOwn(p) \/ Cleanup(p)
  \/ VerifyPath(p) \/ LoadEngine(p)

-----------------------------------------------------------------------------
(* What happens to the processes and to the directory.                       *)

(* The process ends, in whatever way; what it left on the disk stays.        *)
Dead(ps) ==
  /\ epoch' = [p \in Procs |-> IF p \in ps THEN epoch[p] + 1 ELSE epoch[p]]
  /\ pc' = [p \in Procs |-> IF p \in ps THEN "off" ELSE pc[p]]
  /\ viaEntry' = [p \in Procs |-> p \notin ps /\ viaEntry[p]]
  /\ chosen' = [p \in Procs |-> IF p \in ps THEN NoFile ELSE chosen[p]]
  /\ disturbed' = [p \in Procs |-> p \notin ps /\ disturbed[p]]

Crash(p) ==
  /\ pc[p] # "off" /\ epoch[p] < MaxEpoch
  /\ Dead({p})
  /\ UNCHANGED disk

(* Content that was not synced may be lost, and so may new names.            *)
PowerLoss ==
  /\ \A p \in Procs : epoch[p] < MaxEpoch
  /\ Dead(Procs)
  /\ \E lost \in SUBSET (TempFiles \ synced) :
       content' = [f \in Files |-> IF f \in lost THEN "partial" ELSE content[f]]
  /\ entry' = entry \/ (entry # Old /\ entry' = NoFile)
  /\ temps' \in SUBSET temps
  /\ unremoved' = {}
  /\ UNCHANGED <<linkable, synced, cleans>>

CleanCache ==
  /\ cleans < MaxCleans
  /\ cleans' = cleans + 1
  /\ entry' = NoFile
  /\ temps' = {} /\ unremoved' = {}
  /\ disturbed' = [p \in Procs |-> disturbed[p] \/ pc[p] \in Starting]
  /\ UNCHANGED <<linkable, content, synced, epoch, pc, viaEntry, chosen>>

(* A process that has its client, or its error, stays like that.             *)
AllEnded == (\A p \in Procs : pc[p] \in Ended) /\ UNCHANGED cacheVars

Start(p) == StartBundled(p) \/ \E f \in Explicit : StartExplicit(p, f)

CacheNext ==
  \/ \E p \in Procs : Start(p) \/ Step(p) \/ Crash(p)
  \/ PowerLoss \/ CleanCache \/ AllEnded

CacheSpec == CacheInit /\ [][CacheNext]_cacheVars
-----------------------------------------------------------------------------
(* Properties *)

DiskTypeOK ==
  /\ linkable \in BOOLEAN
  /\ entry \in TempFiles \union {Old, NoFile}
  /\ temps \subseteq TempFiles
  /\ content \in [Files -> {"partial", "genuine", "foreign"}]
  /\ synced \subseteq Files
  /\ unremoved \subseteq TempFiles
  /\ cleans \in 0 .. MaxCleans

StartupTypeOK ==
  /\ epoch \in [Procs -> 0 .. MaxEpoch]
  /\ pc \in [Procs -> {"off"} \union Starting \union Ended]
  /\ viaEntry \in [Procs -> BOOLEAN]
  /\ chosen \in [Procs -> Files \union {NoFile}]
  /\ disturbed \in [Procs -> BOOLEAN]

(* The stages that have chosen a path to open, and those that have not.      *)
StagesOK ==
  \A p \in Procs :
    /\ pc[p] \in {"verify", "load", "ready"} => chosen[p] # NoFile
    /\ pc[p] \in {"off", "lookup", "create", "write", "sync", "link",
                  "checkLinked", "checkEntry", "checkOwn"} => chosen[p] = NoFile

(* Types, and what each stage of a startup has chosen.                       *)
CacheTypeOK == DiskTypeOK /\ StartupTypeOK /\ StagesOK

(* "Its SHA-256 digest is checked before native code is loaded": whatever    *)
(* the cache held before, whoever died half-way, only the pinned engine runs. *)
LoadedIsGenuine == \A p \in Procs : pc[p] = "ready" => content[chosen[p]] = "genuine"

(* "A hard link installs the completed file": no process and no power loss   *)
(* leaves an unfinished file behind the cache entry.                         *)
PublishedIsComplete == entry \in TempFiles => content[entry] = "genuine"

(* "Atomic hard-link installation makes concurrent startup safe": a startup  *)
(* fails only by a failing system call or an emptied cache of its own, never *)
(* by what other processes do or what earlier ones left in the cache.        *)
UndisturbedStartSucceeds ==
  \A p \in Procs : pc[p] = "failed" => disturbed[p] \/ chosen[p] \in Explicit

(* No link can take a process to a genuine entry: there are none, or the     *)
(* entry earlier runs have left is damaged.                                  *)
CopyNeeded == ~linkable \/ (entry = Old /\ ~IsGenuine(Old))

(* A temporary file left in the cache is in the hands of a startup, is the   *)
(* private copy of a process, or is one that a dead run has left or that     *)
(* could not be removed; and a startup that nothing disturbs keeps a private *)
(* copy only where it has to.                                                *)
TempsAccountedFor ==
  /\ \A f \in temps :
       LET p == f[1]
       IN  \/ f # Own(p)
           \/ f \in unremoved
           \/ pc[p] \in {"write", "sync", "link", "checkLinked", "checkEntry", "checkOwn", "cleanup"}
           \/ ~viaEntry[p] /\ chosen[p] = f
  /\ \A p \in Procs :
       pc[p] \in {"verify", "load"} /\ ~viaEntry[p] /\ chosen[p] \in TempFiles =>
         disturbed[p] \/ CopyNeeded

(* "Without replacing a cache entry another process may already be loading": *)
(* no step of a startup changes which file is found at the path that a       *)
(* process has chosen.                                                       *)
PathsStayPut ==
  [][\A p \in Procs : Step(p) =>
       \A q \in Procs :
         pc[q] \in {"verify", "load", "ready"} /\ FileAtPath(q) # NoFile =>
           IF viaEntry[q] THEN entry' = entry ELSE chosen[q] \in temps' \union Explicit]_cacheVars
=============================================================================
