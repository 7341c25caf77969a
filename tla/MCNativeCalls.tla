---------------------------- MODULE MCNativeCalls ----------------------------
(***************************************************************************)
(* Every kind of request, alone and next to the others.                     *)
(***************************************************************************)
EXTENDS NativeCalls, TLC

CONSTANTS t1, t2, t3

MCPrograms ==
  {t1 :> "filter" @@ t2 :> "unguarded" @@ t3 :> "oversized",
   t1 :> "malformed" @@ t2 :> "engineless" @@ t3 :> "guarded",
   t1 :> "unguarded" @@ t2 :> "malformed" @@ t3 :> "engineless"}

(* "unsupported" is over the limit of a response.                            *)
MCSizeOf ==
  "success" :> 1 @@ "panic" :> 2 @@ "invalid" :> 3 @@ "parse" :> 3 @@ "internal" :> 4 @@ "unsupported" :> 5
==============================================================================
