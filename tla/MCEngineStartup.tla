---------------------------- MODULE MCEngineStartup ----------------------------
(***************************************************************************)
(* Processes and callers for TLC.                                           *)
(***************************************************************************)
EXTENDS EngineStartup, TLC

CONSTANTS p1, c1, c2

(* Two calls race in a process that may die and start again.                 *)
CallsOfOneProcess == c1 :> p1 @@ c2 :> p1
=============================================================================
