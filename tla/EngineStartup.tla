----------------------------- MODULE EngineStartup -----------------------------
(***************************************************************************)
(* The process-wide engine of ffi.go: the goroutines of every process call  *)
(* Init, InitWithRuntimePath or an API; the first to pass clientOnce runs   *)
(* the startup of EngineCache, the others wait for it.                      *)
(***************************************************************************)
EXTENDS EngineCache

CONSTANTS
  Callers,   \* the goroutines, each making one call per run of its process
  ProcOf,    \* the process of each
  Bundled,   \* the call is Init or an API: the embedded engine is wanted
  Unset

ASSUME EngineStartupAssumption ==
  /\ ProcOf \in [Callers -> Procs]
  /\ Bundled \notin Explicit
  /\ Unset \notin {"client", "error"}

VARIABLES
  wants,    \* Bundled, or the file given to InitWithRuntimePath
  at,       \* "idle", "calling", "running" or "returned"
  once,     \* of each process: "new", "running" or "done", the state of clientOnce
  shared,   \* sharedClient and sharedErr: Unset, "client" or "error"
  got       \* what the call returned

callerVars == <<wants, at, once, shared, got>>
vars == <<cacheVars, callerVars>>

Init ==
  /\ CacheInit
  /\ wants \in [Callers -> {Bundled} \union Explicit]
  /\ at = [c \in Callers |-> "idle"]
  /\ once = [p \in Procs |-> "new"]
  /\ shared = [p \in Procs |-> Unset]
  /\ got = [c \in Callers |-> Unset]

Call(c) ==
  /\ at[c] = "idle"
  /\ at' = [at EXCEPT ![c] = "calling"]
  /\ UNCHANGED <<cacheVars, wants, once, shared, got>>

(* clientOnce.Do: the function given to it runs if none has run before.      *)
Enter(c) ==
  /\ at[c] = "calling"
  /\ once[ProcOf[c]] = "new"
  /\ once' = [once EXCEPT ![ProcOf[c]] = "running"]
  /\ at' = [at EXCEPT ![c] = "running"]
  /\ IF wants[c] = Bundled THEN StartBundled(ProcOf[c]) ELSE StartExplicit(ProcOf[c], wants[c])
  /\ UNCHANGED <<wants, shared, got>>

(* Mutants of Finish: an error is not stored; every run counts as a success. *)
FinishDroppingError(c) ==
  /\ at[c] = "running"
  /\ pc[ProcOf[c]] \in Ended
  /\ shared' = [shared EXCEPT ![ProcOf[c]] = IF pc[ProcOf[c]] = "ready" THEN "client" ELSE @]
  /\ once' = [once EXCEPT ![ProcOf[c]] = "done"]
  /\ at' = [at EXCEPT ![c] = "calling"]
  /\ UNCHANGED <<cacheVars, wants, got>>

FinishGladly(c) ==
  /\ at[c] = "running"
  /\ pc[ProcOf[c]] \in Ended
  /\ shared' = [shared EXCEPT ![ProcOf[c]] = "client"]
  /\ once' = [once EXCEPT ![ProcOf[c]] = "done"]
  /\ at' = [at EXCEPT ![c] = "calling"]
  /\ UNCHANGED <<cacheVars, wants, got>>

(* The function stores its results and clientOnce is done.                   *)
Finish(c) ==
  /\ at[c] = "running"
  /\ pc[ProcOf[c]] \in Ended
  /\ shared' = [shared EXCEPT ![ProcOf[c]] = IF pc[ProcOf[c]] = "ready" THEN "client" ELSE "error"]
  /\ once' = [once EXCEPT ![ProcOf[c]] = "done"]
  /\ at' = [at EXCEPT ![c] = "calling"]
  /\ UNCHANGED <<cacheVars, wants, got>>

(* Mutant of Read: a call for another file than the one loaded is an error.  *)
ReadForWanted(c) ==
  /\ at[c] = "calling"
  /\ once[ProcOf[c]] = "done"
  /\ got' = [got EXCEPT ![c] = IF wants[c] \in {Bundled, chosen[ProcOf[c]]}
                                 THEN shared[ProcOf[c]] ELSE "error"]
  /\ at' = [at EXCEPT ![c] = "returned"]
  /\ UNCHANGED <<cacheVars, wants, once, shared>>

(* Past clientOnce.Do, which waits for the function that is running.         *)
Read(c) ==
  /\ at[c] = "calling"
  /\ once[ProcOf[c]] = "done"
  /\ got' = [got EXCEPT ![c] = shared[ProcOf[c]]]
  /\ at' = [at EXCEPT ![c] = "returned"]
  /\ UNCHANGED <<cacheVars, wants, once, shared>>

Startup == (\E p \in Procs : Step(p)) /\ UNCHANGED callerVars

(* The process-wide variables and the goroutines go with their process.      *)
ForgetCallers(ps) ==
  /\ at' = [c \in Callers |-> IF ProcOf[c] \in ps THEN "idle" ELSE at[c]]
  /\ once' = [p \in Procs |-> IF p \in ps THEN "new" ELSE once[p]]
  /\ shared' = [p \in Procs |-> IF p \in ps THEN Unset ELSE shared[p]]
  /\ got' = [c \in Callers |-> IF ProcOf[c] \in ps THEN Unset ELSE got[c]]
  /\ UNCHANGED wants

Environment ==
  \/ \E p \in Procs : Crash(p) /\ ForgetCallers({p})
  \/ PowerLoss /\ ForgetCallers(Procs)
  \/ CleanCache /\ UNCHANGED callerVars

AllReturned == (\A c \in Callers : at[c] = "returned") /\ UNCHANGED vars

Next ==
  \/ \E c \in Callers : Call(c) \/ Enter(c) \/ Finish(c) \/ Read(c)
  \/ Startup
  \/ Environment
  \/ AllReturned

Spec == Init /\ [][Next]_vars

(* The runtime schedules every goroutine that can run; whether a goroutine   *)
(* calls at all, and what the environment does, is left open.                *)
Fairness ==
  /\ \A p \in Procs : WF_vars(Step(p) /\ UNCHANGED callerVars)
  /\ \A c \in Callers : WF_vars(Enter(c) \/ Finish(c) \/ Read(c))

FairSpec == Spec /\ Fairness
-----------------------------------------------------------------------------
(* Properties *)

(* Types, and when the process-wide variables and the answers are set.       *)
TypeOK ==
  /\ CacheTypeOK
  /\ wants \in [Callers -> {Bundled} \union Explicit]
  /\ at \in [Callers -> {"idle", "calling", "running", "returned"}]
  /\ once \in [Procs -> {"new", "running", "done"}]
  /\ shared \in [Procs -> {Unset, "client", "error"}]
  /\ got \in [Callers -> {Unset, "client", "error"}]
  /\ \A p \in Procs : once[p] = "done" <=> shared[p] # Unset
  /\ \A c \in Callers : at[c] = "returned" <=> got[c] # Unset

(* A caller that is given a client can use it: the engine of its process has *)
(* been loaded, from the bytes that are pinned.                              *)
ClientIsUsable ==
  \A c \in Callers : got[c] = "client" =>
    pc[ProcOf[c]] = "ready" /\ content[chosen[ProcOf[c]]] = "genuine"

(* The calls of a process keep the promise of EngineOnce.                    *)
Once == INSTANCE EngineOnce WITH
  outcome <- [p \in Procs |-> IF once[p] = "done" THEN shared[p] ELSE Unset],
  told <- got,
  Outcomes <- {"client", "error"}

FirstCallWins == Once!Spec

(* A call returns, unless its process ends first, however the file system    *)
(* and the other processes behave.                                           *)
CallsReturn == \A c \in Callers : at[c] = "calling" ~> at[c] \in {"returned", "idle"}
=============================================================================
