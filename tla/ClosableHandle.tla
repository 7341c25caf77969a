----------------------------- MODULE ClosableHandle -----------------------------
(***************************************************************************)
(* What a Client of packages/go promises about Close: calls are served only *)
(* while the client is open, and Close waits for those being served.        *)
(***************************************************************************)
CONSTANT Threads

VARIABLES
  open,      \* the client has not been closed
  serving    \* the goroutines whose call has reached the native library

vars == <<open, serving>>

Init == open = TRUE /\ serving = {}

Serve(t) == open /\ t \notin serving /\ serving' = serving \union {t} /\ UNCHANGED open

Leave(t) == t \in serving /\ serving' = serving \ {t} /\ UNCHANGED open

Close == open /\ serving = {} /\ open' = FALSE /\ UNCHANGED serving

Next == Close \/ \E t \in Threads : Serve(t) \/ Leave(t)

Spec == Init /\ [][Next]_vars
=============================================================================
