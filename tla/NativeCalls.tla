------------------------------ MODULE NativeCalls ------------------------------
(***************************************************************************)
(* The native library underneath the Go SDK: the adapter that the C         *)
(* functions enter (cmd/easysqlffi/main.go), the protocol that turns every  *)
(* outcome into an envelope (internal/nativeffi/execute.go), and what the   *)
(* SDK makes of the envelope (packages/go/operations.go).  The calls are    *)
(* those of SDKClient: each asks the library twice or more.                 *)
(*                                                                         *)
(* An execution is known by its verdict, the way it ended, and its envelope *)
(* by the status that the verdict is given.  What runs between two shared   *)
(* steps of the adapter touches nothing shared and is one step here.        *)
(***************************************************************************)
EXTENDS SDKClient

CONSTANTS
  Programs,   \* which request each goroutine makes, in all of its calls
  SizeOf      \* the size of the envelope with a status

Statuses == {"success", "invalid", "parse", "unsupported", "internal", "panic"}

(* What tells requests apart: refused for its length; refused by Execute, by *)
(* dispatch or for its options; applyRowFilter; for another operation that   *)
(* checks its client, for one that does not, and for one that has nothing to *)
(* do for the engine (BindCTEs without bindings, RewriteTableReferences      *)
(* without rewrites).                                                        *)
Requests == {"oversized", "malformed", "filter", "guarded", "unguarded", "engineless"}

(* How an execution ends: with data; refused by the adapter, by Execute, by  *)
(* dispatch or for its options; with runtimeErr; in a panic that the adapter *)
(* or Execute recovers; for want of a client; with an error that wraps one   *)
(* of easysql's three, or with one that wraps none of them.                  *)
Endings == {"ok", "refused", "runtimeErr", "recovered", "panic", "nil client",
            "ErrParse", "ErrUnsupported", "ErrInternal", "unwrapped"}

ASSUME NativeCallsAssumption ==
  /\ Programs \subseteq [Threads -> Requests]
  /\ SizeOf \in [Statuses -> Sizes]

VARIABLES
  request,       \* of each goroutine
  startup,       \* of the library: "new", "running", or what runtimeErr and sharedClient say
  initializer,   \* the goroutine inside runtimeOnce
  verdict        \* of the last execution for the call

native == <<request, startup, initializer, verdict>>
nativeVars == <<vars, native>>

Started == {"client", "error", "panicked"}

NativeInit ==
  /\ Init
  /\ request \in Programs
  /\ startup = "new"
  /\ initializer = NoThread
  /\ verdict = [t \in Threads |-> "none"]

-----------------------------------------------------------------------------
(* Mutant of StatusOf: ErrUnsupported is not told from a plain error.        *)
StatusOfTwo(v) ==
  CASE v = "ok" -> "success"
    [] v = "panic" -> "panic"
    [] v = "ErrParse" -> "parse"
    [] v \in {"ErrInternal", "runtimeErr", "recovered"} -> "internal"
    [] OTHER -> "invalid"

(* The status of an envelope; an operation's error has the status of what it *)
(* wraps, and the one of an invalid argument if it wraps nothing known.      *)
StatusOf(v) ==
  CASE v = "ok" -> "success"
    [] v = "panic" -> "panic"
    [] v = "ErrParse" -> "parse"
    [] v = "ErrUnsupported" -> "unsupported"
    [] v \in {"ErrInternal", "runtimeErr", "recovered"} -> "internal"
    [] OTHER -> "invalid"

(* What an operation may come to with an engine.                             *)
Working == {"ok", "ErrParse", "ErrUnsupported", "ErrInternal", "panic"}

(* Execute and dispatch.  When startup has panicked there is neither an      *)
(* engine nor an error.  compileWhere passes the decoder's error on as it is *)
(* and makes a plain one of the ErrInternal of subqueryTemplate.             *)
Verdicts(r) ==
  CASE r = "malformed" -> {"refused"}
    [] r = "engineless" -> {"ok"}
    [] r \in {"filter", "guarded"} /\ startup = "panicked" -> {"nil client"}
    [] r = "unguarded" /\ startup = "panicked" -> {"ErrParse", "ErrUnsupported", "panic"}
    [] r = "filter" /\ startup # "panicked" -> Working \union {"unwrapped"}
    [] OTHER -> Working

(* Mutant of Ends: runtimeErr is not looked at.                              *)
EndsRegardless(r) == IF r = "oversized" THEN {"refused"} ELSE Verdicts(r)

(* executeRequest, once runtimeOnce is done.                                 *)
Ends(r) ==
  CASE r = "oversized" -> {"refused"}
    [] r # "oversized" /\ startup = "error" -> {"runtimeErr"}
    [] OTHER -> Verdicts(r)

(* The library answers what readInto asked for.                              *)
Respond(t, v) ==
  /\ QuerySize(t) \/ Read(t)
  /\ runs'[t] = Append(runs[t], SizeOf[StatusOf(v)])
  /\ verdict' = [verdict EXCEPT ![t] = v]

(* Mutant of Execute: only the first request waits for Init.                 *)
ExecuteEarly(t) ==
  /\ pc[t] \in Calling
  /\ request[t] = "oversized" \/ startup \in Started \/ initializer \notin {t, NoThread}
  /\ \E v \in Ends(request[t]) : Respond(t, v)
  /\ UNCHANGED <<request, startup, initializer>>

Execute(t) ==
  /\ pc[t] \in Calling
  /\ request[t] = "oversized" \/ startup \in Started
  /\ \E v \in Ends(request[t]) : Respond(t, v)
  /\ UNCHANGED <<request, startup, initializer>>

-----------------------------------------------------------------------------
(* initializeRuntime: the first request in runs Init, the others wait.       *)
Initialize(t) ==
  /\ pc[t] \in Calling
  /\ request[t] # "oversized" /\ startup = "new"
  /\ startup' = "running"
  /\ initializer' = t
  /\ UNCHANGED <<vars, request, verdict>>

(* Init returns, and runtimeErr is set; the request goes on like the others. *)
Initialized(t) ==
  /\ startup = "running" /\ initializer = t
  /\ startup' \in {"client", "error"}
  /\ initializer' = NoThread
  /\ UNCHANGED <<vars, request, verdict>>

(* Init panics: executeRequest recovers.  Both sync.Once are done, with a    *)
(* nil client and no error.                                                  *)
InitializationPanics(t) ==
  /\ startup = "running" /\ initializer = t
  /\ startup' = "panicked"
  /\ initializer' = NoThread
  /\ Respond(t, "recovered")
  /\ UNCHANGED request

-----------------------------------------------------------------------------
(* What call returns to the user of the SDK: data, an *Error with the status *)
(* of the envelope, or what Execute of the client returned.                  *)
CallResult(t) ==
  CASE result[t] # "answer" -> result[t]
    [] result[t] = "answer" /\ verdict[t] = "ok" -> "data"
    [] OTHER -> StatusOf(verdict[t])

ClientStep(t) == RLock(t) \/ Drained(t) \/ Use(t) \/ Shut(t)

LibraryStep(t) == Execute(t) \/ Initialize(t) \/ Initialized(t) \/ InitializationPanics(t)

NativeStep(t) == (ClientStep(t) /\ UNCHANGED native) \/ LibraryStep(t)

NextCall(t) ==
  /\ GoOn(t)
  /\ verdict' = [verdict EXCEPT ![t] = "none"]
  /\ UNCHANGED <<request, startup, initializer>>

NativeNext ==
  \E t \in Threads :
    \/ (Call(t) \/ CallClose(t) \/ Lock(t)) /\ UNCHANGED native
    \/ NativeStep(t)
    \/ NextCall(t)

NativeSpec == NativeInit /\ [][NativeNext]_nativeVars

(* Goroutines that can run are run, the library answers, Init returns or      *)
(* panics, and sync.Mutex does not starve: after a millisecond it is handed  *)
(* over in order.  Nothing makes a goroutine begin a call.                   *)
FairNativeSpec ==
  /\ NativeSpec
  /\ \A t \in Threads : WF_nativeVars(NativeStep(t)) /\ SF_nativeVars(Lock(t) /\ UNCHANGED native)
-----------------------------------------------------------------------------
(* Properties *)

(* Types, who is inside runtimeOnce, and which envelope a run's size tells.  *)
NativeTypeOK ==
  /\ request \in [Threads -> Requests]
  /\ startup \in {"new", "running"} \union Started
  /\ startup = "running" => initializer \in Threads /\ pc[initializer] \in Calling
  /\ startup # "running" => initializer = NoThread
  /\ verdict \in [Threads -> Endings \union {"none"}]
  /\ \A t \in Threads :
       IF runs[t] = <<>> THEN verdict[t] = "none"
         ELSE verdict[t] # "none" /\ runs[t][Len(runs[t])] = SizeOf[StatusOf(verdict[t])]

(* The types of the client and of the library.                               *)
CallTypeOK == TypeOK /\ NativeTypeOK

(* A failed startup is told to every call: "4: Internal processing or        *)
(* runtime initialization error" (docs/native-library.md).                   *)
StartupErrorIsTold ==
  \A t \in Threads : startup = "error" /\ result[t] = "answer" =>
    CallResult(t) = IF request[t] = "oversized" THEN "invalid" ELSE "internal"

(* "1: Invalid request, option, or argument" (docs/native-library.md) is said *)
(* of a request that is none of these in two cases only: startup panicked,   *)
(* which leaves neither a client nor an error, and compileWhere, which gives *)
(* the failure to decode or to build what the engine was asked for a plain   *)
(* error.  Of every other failure that is not the request's it is not said.  *)
InvalidBlamesRequest ==
  \A t \in Threads : CallResult(t) = "invalid" =>
    \/ request[t] \in {"oversized", "malformed"}
    \/ request[t] \in {"filter", "guarded"} /\ startup = "panicked" /\ verdict[t] = "nil client"
    \/ request[t] = "filter" /\ startup = "client" /\ verdict[t] = "unwrapped"

(* Data is given only where an engine made it, or none was needed.           *)
DataComesFromEngine ==
  \A t \in Threads : CallResult(t) = "data" =>
    startup = "client" \/ (request[t] = "engineless" /\ startup = "panicked")
=============================================================================
