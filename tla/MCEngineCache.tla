----------------------------- MODULE MCEngineCache -----------------------------
(***************************************************************************)
(* EngineCache as TLC checks it.                                            *)
(***************************************************************************)
EXTENDS EngineCache, TLC

(* Nothing distinguishes one process from another.                           *)
AlikeProcesses == Permutations(Procs)
=============================================================================
