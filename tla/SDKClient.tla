------------------------------- MODULE SDKClient -------------------------------
(***************************************************************************)
(* A Client of the Go SDK (packages/go/client.go) shared by goroutines that *)
(* call it and close it, and the reads of native responses underneath       *)
(* (packages/go/internal/ffi/library.go, cmd/easysqlffi/main.go).           *)
(*                                                                         *)
(* A response is known by its size in bytes.  The library executes the      *)
(* request anew each time it is asked, and the responses may differ.        *)
(***************************************************************************)
EXTENDS Naturals, Sequences

CONSTANTS
  Threads,
  NoThread,
  Sizes,        \* the sizes of responses
  MaxResponse   \* maxResponseBytes

ASSUME SDKClientAssumption ==
  /\ NoThread \notin Threads
  /\ Sizes \subseteq Nat \ {0}
  /\ MaxResponse \in Nat

VARIABLES
  closed,    \* closed is set and runtime is nil
  writer,    \* the goroutine that holds or awaits the write lock of mu
  readers,   \* the goroutines that hold the read lock of mu
  pc,        \* where each goroutine stands
  runs,      \* the sizes of the responses made for the call so far, in order
  required,  \* the capacity the library asked for last
  buffer,    \* the size of the buffer given to the library, 0 before
  written,   \* how many bytes the library put into it, without the NUL
  result     \* what the call returned

lock == <<closed, writer, readers>>
read == <<runs, required, buffer, written>>
vars == <<lock, pc, read, result>>

Calling == {"size", "read"}
Holding == {"holding"} \union Calling
PCs == {"idle", "rlock", "parked", "lock", "drain", "closing", "returned"} \union Holding

Results == {"none", "answer", "ErrClosed", "tooLarge", "unstable", "closed"}

Init ==
  /\ closed = FALSE /\ writer = NoThread /\ readers = {}
  /\ pc = [t \in Threads |-> "idle"]
  /\ runs = [t \in Threads |-> <<>>]
  /\ required = [t \in Threads |-> 0]
  /\ buffer = [t \in Threads |-> 0]
  /\ written = [t \in Threads |-> 0]
  /\ result = [t \in Threads |-> "none"]

Goto(t, s) == pc' = [pc EXCEPT ![t] = s]

Return(t, r) == Goto(t, "returned") /\ result' = [result EXCEPT ![t] = r]

-----------------------------------------------------------------------------
(* client.mu, a sync.RWMutex: a goroutine that wants to write keeps new      *)
(* readers out and waits for those inside; its Unlock lets in every reader   *)
(* that was kept out.                                                        *)

(* Mutant of RLock: readers do not wait for a writer.                        *)
RLockBarging(t) ==
  /\ pc[t] = "rlock"
  /\ Goto(t, "holding") /\ readers' = readers \union {t}
  /\ UNCHANGED <<closed, writer, read, result>>

RLock(t) ==
  /\ pc[t] = "rlock"
  /\ \/ writer = NoThread /\ Goto(t, "holding") /\ readers' = readers \union {t}
     \/ writer # NoThread /\ Goto(t, "parked") /\ UNCHANGED readers
  /\ UNCHANGED <<closed, writer, read, result>>

Lock(t) ==
  /\ pc[t] = "lock" /\ writer = NoThread
  /\ writer' = t
  /\ Goto(t, "drain")
  /\ UNCHANGED <<closed, readers, read, result>>

Drained(t) ==
  /\ pc[t] = "drain" /\ readers = {}
  /\ Goto(t, "closing")
  /\ UNCHANGED <<lock, read, result>>

-----------------------------------------------------------------------------
(* Execute and RuntimeVersion: use(), then readInto under the read lock.     *)
Call(t) ==
  /\ pc[t] = "idle"
  /\ Goto(t, "rlock")
  /\ UNCHANGED <<lock, read, result>>

(* Mutants of Use: the lock is not released when the client is closed; it is *)
(* released before the runtime is used.                                      *)
UseKeepingLock(t) ==
  /\ pc[t] = "holding"
  /\ \/ closed /\ Return(t, "ErrClosed")
     \/ ~closed /\ Goto(t, "size") /\ UNCHANGED result
  /\ UNCHANGED <<lock, read>>

UseUnlocked(t) ==
  /\ pc[t] = "holding"
  /\ readers' = readers \ {t}
  /\ \/ closed /\ Return(t, "ErrClosed")
     \/ ~closed /\ Goto(t, "size") /\ UNCHANGED result
  /\ UNCHANGED <<closed, writer, read>>

Use(t) ==
  /\ pc[t] = "holding"
  /\ \/ closed /\ Return(t, "ErrClosed") /\ readers' = readers \ {t}
     \/ ~closed /\ Goto(t, "size") /\ UNCHANGED <<result, readers>>
  /\ UNCHANGED <<closed, writer, read>>

(* The call ends and the read lock is released.                              *)
Leave(t, r) == Return(t, r) /\ readers' = readers \ {t}

(* copyToNativeBuffer.                                                       *)
Required(size) == size + 1

(* Mutant of Writable: no byte is kept for the NUL when the size is met.     *)
WritableUnterminated(size, capacity) == IF capacity < size THEN capacity - 1 ELSE size

Writable(size, capacity) == IF capacity <= size THEN capacity - 1 ELSE size

(* Mutant of Fits: the NUL is not counted.                                   *)
FitsBarely(need, capacity) == need <= capacity + 1

Fits(need, capacity) == need <= capacity

(* The read of readInto begins, or the capacity asked for is refused.        *)
Allocate(t, need) ==
  IF need > MaxResponse
    THEN Leave(t, "tooLarge") /\ UNCHANGED buffer
    ELSE Goto(t, "read") /\ buffer' = [buffer EXCEPT ![t] = need] /\ UNCHANGED <<readers, result>>

QuerySize(t) ==
  /\ pc[t] = "size"
  /\ \E size \in Sizes :
       /\ runs' = [runs EXCEPT ![t] = Append(@, size)]
       /\ required' = [required EXCEPT ![t] = Required(size)]
       /\ Allocate(t, Required(size))
  /\ UNCHANGED <<closed, writer, written>>

Attempts == 3

(* Mutant of NextCapacity: the next buffer is as large as the last one.      *)
SameCapacity(need, capacity) == capacity

NextCapacity(need, capacity) == need

(* One turn of readInto's loop, and the allocation of the next.              *)
Read(t) ==
  /\ pc[t] = "read"
  /\ \E size \in Sizes :
       LET need == Required(size)
       IN  /\ runs' = [runs EXCEPT ![t] = Append(@, size)]
           /\ required' = [required EXCEPT ![t] = need]
           /\ written' = [written EXCEPT ![t] = Writable(size, buffer[t])]
           /\ \/ Fits(need, buffer[t]) /\ Leave(t, "answer") /\ UNCHANGED buffer
              \/ /\ ~Fits(need, buffer[t]) /\ Len(runs'[t]) <= Attempts
                 /\ Allocate(t, NextCapacity(need, buffer[t]))
              \/ /\ ~Fits(need, buffer[t]) /\ Len(runs'[t]) > Attempts
                 /\ Leave(t, "unstable") /\ UNCHANGED buffer
  /\ UNCHANGED <<closed, writer>>

-----------------------------------------------------------------------------
(* Close.                                                                    *)
CallClose(t) ==
  /\ pc[t] = "idle"
  /\ Goto(t, "lock")
  /\ UNCHANGED <<lock, read, result>>

Shut(t) ==
  /\ pc[t] = "closing"
  /\ closed' = TRUE
  /\ writer' = NoThread
  /\ readers' = {r \in Threads : pc[r] = "parked"}
  /\ pc' = [r \in Threads |-> CASE r = t -> "returned"
                                [] pc[r] = "parked" -> "holding"
                                [] OTHER -> pc[r]]
  /\ result' = [result EXCEPT ![t] = "closed"]
  /\ UNCHANGED read

(* The goroutine goes on, and may use the client again.                      *)
GoOn(t) ==
  /\ pc[t] = "returned"
  /\ Goto(t, "idle")
  /\ result' = [result EXCEPT ![t] = "none"]
  /\ runs' = [runs EXCEPT ![t] = <<>>]
  /\ required' = [required EXCEPT ![t] = 0]
  /\ buffer' = [buffer EXCEPT ![t] = 0]
  /\ written' = [written EXCEPT ![t] = 0]
  /\ UNCHANGED lock

Step(t) == RLock(t) \/ Drained(t) \/ Use(t) \/ QuerySize(t) \/ Read(t) \/ Shut(t)

Next == \E t \in Threads : Call(t) \/ CallClose(t) \/ Step(t) \/ Lock(t) \/ GoOn(t)

Spec == Init /\ [][Next]_vars

-----------------------------------------------------------------------------
(* Properties *)

(* Types, and who holds which side of the lock.                              *)
TypeOK ==
  /\ closed \in BOOLEAN
  /\ writer \in Threads \union {NoThread}
  /\ pc \in [Threads -> PCs]
  /\ runs \in [Threads -> Seq(Sizes)]
  /\ required \in [Threads -> Nat]
  /\ buffer \in [Threads -> 0 .. MaxResponse]
  /\ written \in [Threads -> Nat]
  /\ result \in [Threads -> Results]
  /\ readers = {t \in Threads : pc[t] \in Holding}
  /\ \A t \in Threads : pc[t] \in {"drain", "closing"} => writer = t
  /\ \A t \in Threads : pc[t] = "closing" => readers = {}
  /\ \A t \in Threads : pc[t] = "parked" => writer # NoThread

(* "Client.Close prevents further calls through that client", and does not   *)
(* cut off the calls that are running.                                       *)
Handle == INSTANCE ClosableHandle WITH
  open <- ~closed, serving <- {t \in Threads : pc[t] \in Calling}

ServedOnlyWhileOpen == Handle!Spec

(* Two executions of a request may answer differently; what a call returns   *)
(* is all of one of them, and no part of another.                            *)
AnswerIsOneRun ==
  \A t \in Threads : result[t] = "answer" =>
    /\ written[t] = runs[t][Len(runs[t])]
    /\ written[t] = required[t] - 1

(* The library never writes past the buffer, which has room for the NUL.     *)
ReadsStayInBuffer ==
  \A t \in Threads : buffer[t] > 0 => written[t] + 1 <= buffer[t]

(* "native response size changed repeatedly" is said only when each of the   *)
(* executions outgrew the one before it.                                     *)
GivesUpOnlyOnGrowth ==
  \A t \in Threads : result[t] = "unstable" =>
    /\ Len(runs[t]) = Attempts + 1
    /\ \A i \in 1 .. Attempts : runs[t][i] < runs[t][i + 1]

(* Calls and Close return, whoever else calls and closes: no reader is left  *)
(* parked, no writer waits for a reader that has gone.                       *)
EveryCallReturns ==
  \A t \in Threads : pc[t] \in {"rlock", "lock"} ~> pc[t] = "returned"
=============================================================================
