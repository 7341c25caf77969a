------------------------------ MODULE EngineOnce ------------------------------
(***************************************************************************)
(* What Init, InitWithRuntimePath and the lazily initialising APIs promise  *)
(* (ffi.go): initialisation is process-wide and first-call-wins, and every  *)
(* call of one run of a process is told the same result.                    *)
(***************************************************************************)
CONSTANTS Procs, Callers, ProcOf, Outcomes, Unset

VARIABLES
  outcome,   \* of each process, the result of its initialisation
  told       \* the result each caller was given

vars == <<outcome, told>>

Init ==
  /\ outcome = [p \in Procs |-> Unset]
  /\ told = [c \in Callers |-> Unset]

Settle(p) ==
  /\ outcome[p] = Unset
  /\ \E o \in Outcomes : outcome' = [outcome EXCEPT ![p] = o]
  /\ UNCHANGED told

Tell(c) ==
  /\ told[c] = Unset
  /\ outcome[ProcOf[c]] # Unset
  /\ told' = [told EXCEPT ![c] = outcome[ProcOf[c]]]
  /\ UNCHANGED outcome

(* Processes end, together when the machine goes down.                       *)
End(ps) ==
  /\ outcome' = [p \in Procs |-> IF p \in ps THEN Unset ELSE outcome[p]]
  /\ told' = [c \in Callers |-> IF ProcOf[c] \in ps THEN Unset ELSE told[c]]

Next ==
  \/ \E p \in Procs : Settle(p)
  \/ \E c \in Callers : Tell(c)
  \/ \E ps \in SUBSET Procs : End(ps)

Spec == Init /\ [][Next]_vars
=============================================================================
