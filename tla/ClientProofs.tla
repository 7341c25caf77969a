----------------------------- MODULE ClientProofs ------------------------------
(***************************************************************************)
(* Theorems about SDKClient and about NativeCalls underneath, for any       *)
(* number of goroutines, any programs and any sizes of responses.           *)
(*                                                                         *)
(* The lock part of TypeOK is inductive by itself: a goroutine is a reader  *)
(* exactly between RLock and the end of its call, and a writer that closes  *)
(* has seen no reader and keeps new ones out.  The reads need the history   *)
(* of the sizes: before each turn of the loop the sizes seen so far grow,   *)
(* and the buffer has room for the last of them and the NUL.                *)
(*                                                                         *)
(* The library only narrows what SDKClient lets it answer, so every step is *)
(* a step of SDKClient or leaves its state alone: what is proved of         *)
(* SDKClient holds there.  What the envelopes say needs one fact more, that *)
(* an envelope a call holds is one that startup, as it ended, allows.       *)
(***************************************************************************)
EXTENDS NativeCalls, TLAPS

Grows(s) == \A i \in 1 .. Len(s) : i + 1 \in 1 .. Len(s) => s[i] < s[i + 1]

ReadOK(t) ==
  /\ pc[t] \notin {"read", "returned"} =>
       runs[t] = <<>> /\ buffer[t] = 0 /\ written[t] = 0
  /\ pc[t] = "read" =>
       /\ Len(runs[t]) \in 1 .. Attempts /\ Grows(runs[t])
       /\ buffer[t] = runs[t][Len(runs[t])] + 1
       /\ written[t] + 1 <= buffer[t]
  /\ pc[t] # "returned" => result[t] = "none"
  /\ pc[t] = "returned" =>
       /\ buffer[t] > 0 => written[t] + 1 <= buffer[t]
       /\ result[t] = "answer" =>
            /\ written[t] = runs[t][Len(runs[t])]
            /\ written[t] = required[t] - 1
       /\ result[t] = "unstable" => Len(runs[t]) = Attempts + 1 /\ Grows(runs[t])

Closed == \A t \in Threads : closed => pc[t] \notin Calling

Inv == TypeOK /\ Closed /\ \A t \in Threads : ReadOK(t)

LEMMA InitInv == Init => Inv
<1> SUFFICES ASSUME Init PROVE Inv
  OBVIOUS
<1>1. TypeOK
  <2>1. 0 \in 0 .. MaxResponse /\ 0 \in Nat /\ <<>> \in Seq(Sizes)
    BY SDKClientAssumption
  <2>2. /\ runs \in [Threads -> Seq(Sizes)] /\ required \in [Threads -> Nat]
        /\ buffer \in [Threads -> 0 .. MaxResponse] /\ written \in [Threads -> Nat]
    BY <2>1 DEF Init
  <2>3. pc \in [Threads -> PCs] /\ result \in [Threads -> Results]
    BY DEF Init, PCs, Results
  <2>4. \A t \in Threads : pc[t] = "idle"
    BY DEF Init
  <2>5. readers = {t \in Threads : pc[t] \in Holding}
    BY <2>4 DEF Init, Holding, Calling
  <2>6. QED
    BY <2>2, <2>3, <2>4, <2>5 DEF Init, TypeOK
<1>2. Closed /\ \A t \in Threads : ReadOK(t)
  BY DEF Init, Closed, ReadOK
<1>3. QED
  BY <1>1, <1>2 DEF Inv

(* What the other goroutines' reads are does not depend on t's step.         *)
LEMMA OthersReadOK ==
  ASSUME Inv, NEW t \in Threads, NEW u \in Threads,
         pc'[u] = pc[u] \/ (pc[u] = "parked" /\ pc'[u] = "holding"),
         runs'[u] = runs[u], required'[u] = required[u], buffer'[u] = buffer[u],
         written'[u] = written[u], result'[u] = result[u]
  PROVE  ReadOK(u)'
BY DEF Inv, ReadOK

(* The steps that take or pass the lock.                                     *)
LEMMA LockStepsKeepInv ==
  ASSUME Inv, NEW t \in Threads,
         RLock(t) \/ Lock(t) \/ Drained(t) \/ Call(t) \/ CallClose(t) \/ Use(t)
  PROVE  Inv'
<1> USE SDKClientAssumption
<1>1. /\ pc' \in [Threads -> PCs] /\ result' \in [Threads -> Results]
      /\ UNCHANGED read
      /\ \A u \in Threads \ {t} : pc'[u] = pc[u] /\ result'[u] = result[u]
      /\ pc[t] \notin {"read", "returned"}
  BY DEF Inv, TypeOK, RLock, Lock, Drained, Call, CallClose, Use, Goto, Return, PCs, Results,
     Holding, Calling
<1>2. TypeOK'
  <2>1. /\ runs' \in [Threads -> Seq(Sizes)] /\ required' \in [Threads -> Nat]
        /\ buffer' \in [Threads -> 0 .. MaxResponse] /\ written' \in [Threads -> Nat]
    BY <1>1 DEF Inv, TypeOK, read
  <2>2. /\ closed' \in BOOLEAN /\ writer' \in Threads \union {NoThread}
        /\ readers' = {u \in Threads : pc'[u] \in Holding}
        /\ \A u \in Threads : pc'[u] \in {"drain", "closing"} => writer' = u
        /\ \A u \in Threads : pc'[u] = "closing" => readers' = {}
        /\ \A u \in Threads : pc'[u] = "parked" => writer' # NoThread
    <3>1. CASE RLock(t)
      <4>1. CASE writer = NoThread
        <5>1. /\ \A u \in Threads : pc[u] \notin {"drain", "closing", "parked"}
              /\ readers' = readers \union {t} /\ pc' = [pc EXCEPT ![t] = "holding"]
              /\ UNCHANGED <<closed, writer>>
          BY <3>1, <4>1 DEF Inv, TypeOK, RLock, Goto
        <5>2. readers' = {u \in Threads : pc'[u] \in Holding}
          BY <5>1 DEF Inv, TypeOK, Holding
        <5>3. QED
          BY <5>1, <5>2 DEF Inv, TypeOK
      <4>2. CASE writer # NoThread
        BY <3>1, <4>2 DEF Inv, TypeOK, RLock, Goto, PCs, Holding, Calling
      <4>3. QED
        BY <4>1, <4>2
    <3>2. CASE Lock(t)
      BY <3>2 DEF Inv, TypeOK, Lock, Goto, PCs, Holding, Calling
    <3>3. CASE Drained(t)
      BY <3>3 DEF Inv, TypeOK, Drained, Goto, PCs, Holding, Calling, lock
    <3>4. CASE Call(t) \/ CallClose(t)
      BY <3>4 DEF Inv, TypeOK, Call, CallClose, Goto, PCs, Holding, Calling, lock
    <3>5. CASE Use(t)
      BY <3>5 DEF Inv, TypeOK, Use, Goto, Return, PCs, Holding, Calling
    <3>6. QED
      BY <3>1, <3>2, <3>3, <3>4, <3>5
  <2>3. QED
    BY <1>1, <2>1, <2>2 DEF TypeOK
<1>3. Closed'
  BY DEF Inv, TypeOK, Closed, RLock, Lock, Drained, Call, CallClose, Use, Goto, Return, Calling, lock
<1>4. ASSUME NEW u \in Threads
      PROVE  ReadOK(u)'
  <2>1. CASE u # t
    BY <2>1, <1>1, OthersReadOK DEF read
  <2>2. CASE u = t
    <3>1. runs[t] = <<>> /\ buffer[t] = 0 /\ written[t] = 0
      BY <1>1 DEF Inv, ReadOK
    <3>2. pc'[t] # "read" /\ result'[t] \notin {"answer", "unstable"}
          /\ (pc'[t] # "returned" => result'[t] = "none")
      BY <1>1 DEF Inv, TypeOK, ReadOK, RLock, Lock, Drained, Call, CallClose, Use, Goto, Return
    <3>3. QED
      BY <2>2, <1>1, <3>1, <3>2 DEF ReadOK, read
  <2>3. QED
    BY <2>1, <2>2
<1>5. QED
  BY <1>2, <1>3, <1>4 DEF Inv

LEMMA ShutKeepsInv ==
  ASSUME Inv, NEW t \in Threads, Shut(t)
  PROVE  Inv'
<1> USE SDKClientAssumption
<1>1. \A u \in Threads : pc[u] \notin Holding
  BY DEF Inv, TypeOK, Shut
<1>2. pc' \in [Threads -> PCs] /\ result' \in [Threads -> Results]
  BY DEF Inv, TypeOK, Shut, PCs, Results, Holding, Calling
<1>3. TypeOK'
  <2>1. /\ runs' \in [Threads -> Seq(Sizes)] /\ required' \in [Threads -> Nat]
        /\ buffer' \in [Threads -> 0 .. MaxResponse] /\ written' \in [Threads -> Nat]
    BY DEF Inv, TypeOK, Shut, read
  <2>2. readers' = {u \in Threads : pc'[u] \in Holding}
    BY <1>1 DEF Inv, TypeOK, Shut, Holding, Calling
  <2>3. \A u \in Threads : pc'[u] \notin {"drain", "closing", "parked"}
    BY DEF Inv, TypeOK, Shut
  <2>4. QED
    BY <1>2, <2>1, <2>2, <2>3 DEF TypeOK, Shut
<1>4. Closed'
  BY <1>1 DEF Inv, TypeOK, Closed, Shut, Calling, Holding
<1>5. ASSUME NEW u \in Threads
      PROVE  ReadOK(u)'
  <2>1. CASE u # t
    BY <2>1, OthersReadOK DEF Inv, TypeOK, Shut, read
  <2>2. CASE u = t
    <3>1. runs[t] = <<>> /\ buffer[t] = 0 /\ written[t] = 0
      BY DEF Inv, ReadOK, Shut
    <3>2. pc'[t] = "returned" /\ result'[t] = "closed"
      BY DEF Inv, TypeOK, Shut
    <3>3. QED
      BY <2>2, <3>1, <3>2 DEF ReadOK, Shut, read
  <2>3. QED
    BY <2>1, <2>2
<1>6. QED
  BY <1>3, <1>4, <1>5 DEF Inv

LEMMA GoOnKeepsInv ==
  ASSUME Inv, NEW t \in Threads, GoOn(t)
  PROVE  Inv'
<1>1. TypeOK'
  <2>1. pc' \in [Threads -> PCs] /\ \A u \in Threads \ {t} : pc'[u] = pc[u]
    BY DEF Inv, TypeOK, GoOn, Goto, PCs
  <2>2. pc[t] = "returned" /\ pc'[t] = "idle"
    BY DEF Inv, TypeOK, GoOn, Goto
  <2>3. runs' \in [Threads -> Seq(Sizes)]
    BY DEF Inv, TypeOK, GoOn
  <2>4. /\ required' \in [Threads -> Nat]
        /\ buffer' \in [Threads -> 0 .. MaxResponse] /\ written' \in [Threads -> Nat]
    BY SDKClientAssumption DEF Inv, TypeOK, GoOn
  <2>5. result' \in [Threads -> Results]
    BY DEF Inv, TypeOK, GoOn, Results
  <2>6. UNCHANGED <<closed, writer, readers>> /\ TypeOK
    BY DEF Inv, GoOn, lock
  <2>7. readers' = {u \in Threads : pc'[u] \in Holding}
    BY <2>1, <2>2, <2>6 DEF TypeOK, Holding, Calling
  <2>8. \A u \in Threads : pc'[u] \in {"drain", "closing", "parked"} => pc[u] = pc'[u]
    BY <2>1, <2>2
  <2>9. QED
    BY <2>1, <2>3, <2>4, <2>5, <2>6, <2>7, <2>8 DEF TypeOK
<1>2. Closed'
  BY DEF Inv, TypeOK, Closed, GoOn, Goto, Calling, lock
<1>3. ASSUME NEW u \in Threads
      PROVE  ReadOK(u)'
  <2>1. CASE u # t
    BY <2>1, OthersReadOK DEF Inv, TypeOK, GoOn, Goto
  <2>2. CASE u = t
    BY <2>2 DEF Inv, TypeOK, GoOn, Goto, ReadOK
  <2>3. QED
    BY <2>1, <2>2
<1>4. QED
  BY <1>1, <1>2, <1>3 DEF Inv

(* A size is added to the history.                                           *)
LEMMA Recorded ==
  ASSUME NEW s \in Seq(Sizes), NEW size \in Sizes
  PROVE  /\ Append(s, size) \in Seq(Sizes)
         /\ Len(Append(s, size)) = Len(s) + 1 /\ Len(s) \in Nat
         /\ Append(s, size)[Len(s) + 1] = size
         /\ Grows(s) /\ (Len(s) > 0 => s[Len(s)] < size) => Grows(Append(s, size))
<1> DEFINE a == Append(s, size)
<1>1. /\ a \in Seq(Sizes) /\ Len(a) = Len(s) + 1 /\ Len(s) \in Nat /\ a[Len(s) + 1] = size
      /\ \A i \in 1 .. Len(s) : a[i] = s[i]
  OBVIOUS
<1> HIDE DEF a
<1>2. ASSUME Grows(s), Len(s) > 0 => s[Len(s)] < size
      PROVE  Grows(a)
  <2> SUFFICES ASSUME NEW i \in 1 .. Len(a), i + 1 \in 1 .. Len(a) PROVE a[i] < a[i + 1]
    BY DEF Grows
  <2>1. CASE i + 1 \in 1 .. Len(s)
    BY <2>1, <1>1, <1>2 DEF Grows
  <2>2. CASE i = Len(s)
    BY <2>2, <1>1, <1>2
  <2>3. QED
    BY <2>1, <2>2, <1>1
<1>3. QED
  BY <1>1, <1>2 DEF a

(* The steps inside the library leave the lock's invariant to two cases: the *)
(* goroutine goes on reading, or it returns and is no reader any more.       *)
LEMMA ReadStepsKeepTypes ==
  ASSUME Inv, NEW t \in Threads, pc[t] \in Calling, UNCHANGED <<closed, writer>>,
         runs' \in [Threads -> Seq(Sizes)], required' \in [Threads -> Nat],
         buffer' \in [Threads -> 0 .. MaxResponse], written' \in [Threads -> Nat],
         \/ Goto(t, "read") /\ UNCHANGED <<readers, result>>
         \/ \E r \in Results : Leave(t, r)
  PROVE  TypeOK' /\ Closed'
<1>1. /\ pc' \in [Threads -> PCs] /\ result' \in [Threads -> Results]
      /\ \A u \in Threads \ {t} : pc'[u] = pc[u]
      /\ \/ pc'[t] = "read" /\ readers' = readers
         \/ pc'[t] = "returned" /\ readers' = readers \ {t}
  <2>1. pc \in [Threads -> PCs] /\ result \in [Threads -> Results]
    BY DEF Inv, TypeOK
  <2>2. CASE Goto(t, "read") /\ UNCHANGED <<readers, result>>
    <3>1. pc' = [pc EXCEPT ![t] = "read"] /\ "read" \in PCs
      BY <2>2 DEF Goto, PCs, Holding, Calling
    <3>2. QED
      BY <2>1, <2>2, <3>1
  <2>3. CASE \E r \in Results : Leave(t, r)
    <3>1. PICK r \in Results : Leave(t, r)
      BY <2>3
    <3>2. /\ pc' = [pc EXCEPT ![t] = "returned"] /\ "returned" \in PCs
          /\ result' = [result EXCEPT ![t] = r] /\ readers' = readers \ {t}
      BY <3>1 DEF Leave, Return, Goto, PCs
    <3>3. QED
      BY <2>1, <3>2
  <2>4. QED
    BY <2>2, <2>3
<1>2. readers' = {u \in Threads : pc'[u] \in Holding}
  BY <1>1 DEF Inv, TypeOK, Holding, Calling
<1>3. /\ \A u \in Threads : pc'[u] \in {"drain", "closing"} => writer' = u
      /\ \A u \in Threads : pc'[u] = "closing" => readers' = {}
      /\ \A u \in Threads : pc'[u] = "parked" => writer' # NoThread
  BY <1>1 DEF Inv, TypeOK
<1>4. Closed'
  BY <1>1 DEF Inv, Closed, Calling
<1>5. QED
  BY <1>1, <1>2, <1>3, <1>4 DEF Inv, TypeOK

LEMMA QuerySizeKeepsInv ==
  ASSUME Inv, NEW t \in Threads, QuerySize(t)
  PROVE  Inv'
<1>1. PICK size \in Sizes :
        /\ runs' = [runs EXCEPT ![t] = Append(@, size)]
        /\ required' = [required EXCEPT ![t] = Required(size)]
        /\ Allocate(t, Required(size))
  BY DEF QuerySize
<1>2. /\ size \in Nat \ {0} /\ Required(size) = size + 1 /\ MaxResponse \in Nat
      /\ runs \in [Threads -> Seq(Sizes)] /\ required \in [Threads -> Nat]
      /\ buffer \in [Threads -> 0 .. MaxResponse] /\ written \in [Threads -> Nat]
      /\ pc \in [Threads -> PCs] /\ result \in [Threads -> Results]
  BY SDKClientAssumption DEF Inv, TypeOK, Required
<1>3. runs[t] = <<>> /\ buffer[t] = 0 /\ written[t] = 0 /\ result[t] = "none" /\ pc[t] = "size"
  BY DEF Inv, ReadOK, QuerySize
<1>4. /\ runs'[t] \in Seq(Sizes) /\ Len(runs'[t]) = 1 /\ runs'[t][1] = size /\ Grows(runs'[t])
      /\ runs' \in [Threads -> Seq(Sizes)]
  <2>1. runs'[t] = Append(runs[t], size) /\ runs[t] \in Seq(Sizes) /\ Len(runs[t]) = 0
    BY <1>1, <1>2, <1>3
  <2>2. Grows(runs[t])
    BY <2>1 DEF Grows
  <2>3. /\ runs'[t] \in Seq(Sizes) /\ Len(runs'[t]) = 1 /\ runs'[t][1] = size /\ Grows(runs'[t])
    BY <2>1, <2>2, Recorded
  <2>4. QED
    BY <2>3, <1>1, <1>2
<1>5. /\ required' \in [Threads -> Nat] /\ written' = written
      /\ \A u \in Threads \ {t} : runs'[u] = runs[u] /\ required'[u] = required[u]
  BY <1>1, <1>2 DEF QuerySize
<1>6. \/ /\ Goto(t, "read") /\ UNCHANGED <<readers, result>>
         /\ buffer' = [buffer EXCEPT ![t] = size + 1] /\ size + 1 <= MaxResponse
      \/ Leave(t, "tooLarge") /\ UNCHANGED buffer
  BY <1>1, <1>2 DEF Allocate
<1>7. buffer' \in [Threads -> 0 .. MaxResponse] /\ \A u \in Threads \ {t} : buffer'[u] = buffer[u]
  <2>1. CASE UNCHANGED buffer
    BY <2>1, <1>2
  <2>2. CASE buffer' = [buffer EXCEPT ![t] = size + 1] /\ size + 1 <= MaxResponse
    <3>1. size + 1 \in 0 .. MaxResponse
      BY <2>2, <1>2
    <3>2. QED
      BY <2>2, <3>1, <1>2
  <2>3. QED
    BY <2>1, <2>2, <1>6
<1>8. TypeOK' /\ Closed'
  <2>1. UNCHANGED <<closed, writer>>
    BY DEF QuerySize
  <2>2. \/ Goto(t, "read") /\ UNCHANGED <<readers, result>>
        \/ \E r \in Results : Leave(t, r)
    BY <1>6 DEF Results
  <2>3. QED
    BY <1>2, <1>3, <1>4, <1>5, <1>7, <2>1, <2>2, ReadStepsKeepTypes DEF Calling
<1>9. ASSUME NEW u \in Threads
      PROVE  ReadOK(u)'
  <2>1. CASE u # t
    <3>1. pc'[u] = pc[u] /\ result'[u] = result[u]
      BY <2>1, <1>2, <1>6 DEF Goto, Leave, Return
    <3>2. QED
      BY <2>1, <3>1, <1>5, <1>7, OthersReadOK
  <2>2. CASE u = t /\ Goto(t, "read") /\ buffer' = [buffer EXCEPT ![t] = size + 1] /\ UNCHANGED result
    <3>1. pc'[t] = "read" /\ buffer'[t] = size + 1 /\ written'[t] = 0 /\ result'[t] = "none"
      BY <2>2, <1>2, <1>3, <1>5 DEF Goto
    <3>2. QED
      BY <2>2, <3>1, <1>2, <1>4 DEF ReadOK, Attempts
  <2>3. CASE u = t /\ Leave(t, "tooLarge") /\ UNCHANGED buffer
    <3>1. pc'[t] = "returned" /\ result'[t] = "tooLarge" /\ buffer'[t] = 0
      BY <2>3, <1>2, <1>3 DEF Leave, Return, Goto
    <3>2. QED
      BY <2>3, <3>1 DEF ReadOK
  <2>4. QED
    BY <2>1, <2>2, <2>3, <1>6
<1>10. QED
  BY <1>8, <1>9 DEF Inv

LEMMA ReadKeepsInv ==
  ASSUME Inv, NEW t \in Threads, Read(t)
  PROVE  Inv'
<1> DEFINE again(need) == ~Fits(need, buffer[t]) /\ Len(runs'[t]) <= Attempts
                          /\ Allocate(t, NextCapacity(need, buffer[t]))
           answers(need) == Fits(need, buffer[t]) /\ Leave(t, "answer") /\ UNCHANGED buffer
           givesUp(need) == ~Fits(need, buffer[t]) /\ Len(runs'[t]) > Attempts
                            /\ Leave(t, "unstable") /\ UNCHANGED buffer
<1>1. PICK size \in Sizes :
        /\ runs' = [runs EXCEPT ![t] = Append(@, size)]
        /\ required' = [required EXCEPT ![t] = Required(size)]
        /\ written' = [written EXCEPT ![t] = Writable(size, buffer[t])]
        /\ answers(Required(size)) \/ again(Required(size)) \/ givesUp(Required(size))
  BY DEF Read
<1>2. /\ size \in Nat \ {0} /\ Required(size) = size + 1 /\ MaxResponse \in Nat
      /\ runs \in [Threads -> Seq(Sizes)] /\ required \in [Threads -> Nat]
      /\ buffer \in [Threads -> 0 .. MaxResponse] /\ written \in [Threads -> Nat]
      /\ pc \in [Threads -> PCs] /\ result \in [Threads -> Results]
  BY SDKClientAssumption DEF Inv, TypeOK, Required
<1> DEFINE n == Len(runs[t])
           b == buffer[t]
<1>3. /\ pc[t] = "read" /\ result[t] = "none"
      /\ n \in 1 .. Attempts /\ Grows(runs[t]) /\ b = runs[t][n] + 1
      /\ runs[t][n] \in Nat \ {0}
  <2>1. pc[t] = "read"
    BY DEF Read
  <2>2. n \in 1 .. Attempts /\ Grows(runs[t]) /\ b = runs[t][n] + 1
    BY <2>1 DEF Inv, ReadOK
  <2>3. runs[t] \in Seq(Sizes)
    BY <1>2
  <2>4. runs[t][n] \in Sizes
    <3>1. n \in Nat \ {0}
      BY <2>2, SMTT(30) DEF Attempts
    <3>2. n \in 1 .. n
      BY <3>1
    <3>3. QED
      BY <2>3, <3>2
  <2>5. runs[t][n] \in Nat \ {0}
    BY <2>4, SDKClientAssumption
  <2>6. result[t] = "none"
    BY <2>1 DEF Inv, ReadOK
  <2>7. QED
    BY <2>1, <2>2, <2>5, <2>6
<1>4. /\ runs' \in [Threads -> Seq(Sizes)] /\ Len(runs'[t]) = n + 1 /\ runs'[t][n + 1] = size
      /\ size + 1 > b => Grows(runs'[t])
  <2>1. runs'[t] = Append(runs[t], size) /\ runs[t] \in Seq(Sizes)
    BY <1>1, <1>2
  <2>3. size + 1 > b => runs[t][n] < size
    BY <1>2, <1>3
  <2>4. /\ runs'[t] \in Seq(Sizes) /\ Len(runs'[t]) = n + 1 /\ runs'[t][n + 1] = size
        /\ size + 1 > b => Grows(runs'[t])
    BY <2>1, <2>3, <1>3, Recorded
  <2>5. QED
    BY <2>4, <1>1, <1>2
<1>5. /\ required' \in [Threads -> Nat] /\ required'[t] = size + 1
      /\ \A u \in Threads \ {t} : /\ runs'[u] = runs[u] /\ required'[u] = required[u]
                                  /\ written'[u] = written[u]
  BY <1>1, <1>2
<1>6. /\ written' \in [Threads -> Nat] /\ written'[t] \in Nat /\ written'[t] + 1 <= b
      /\ size + 1 <= b => written'[t] = size
  <2>1. Writable(size, b) \in Nat /\ Writable(size, b) + 1 <= b
        /\ (size + 1 <= b => Writable(size, b) = size)
    BY <1>2, <1>3 DEF Writable
  <2>2. written'[t] = Writable(size, b)
    BY <1>1, <1>2
  <2>3. QED
    BY <2>1, <2>2, <1>1, <1>2
<1>7. \/ /\ Goto(t, "read") /\ UNCHANGED <<readers, result>> /\ n + 1 <= Attempts
         /\ buffer' = [buffer EXCEPT ![t] = size + 1] /\ size + 1 <= MaxResponse /\ size + 1 > b
      \/ Leave(t, "tooLarge") /\ UNCHANGED buffer
      \/ Leave(t, "answer") /\ UNCHANGED buffer /\ size + 1 <= b
      \/ Leave(t, "unstable") /\ UNCHANGED buffer /\ size + 1 > b /\ n + 1 > Attempts
  BY <1>1, <1>2, <1>3, <1>4 DEF Allocate, Fits, NextCapacity
<1>8. buffer' \in [Threads -> 0 .. MaxResponse] /\ \A u \in Threads \ {t} : buffer'[u] = buffer[u]
  <2>1. CASE UNCHANGED buffer
    BY <2>1, <1>2
  <2>2. CASE buffer' = [buffer EXCEPT ![t] = size + 1] /\ size + 1 <= MaxResponse
    <3>1. size + 1 \in 0 .. MaxResponse
      BY <2>2, <1>2
    <3>2. QED
      BY <2>2, <3>1, <1>2
  <2>3. QED
    BY <2>1, <2>2, <1>7
<1>9. TypeOK' /\ Closed'
  <2>1. UNCHANGED <<closed, writer>>
    BY DEF Read
  <2>2. \/ Goto(t, "read") /\ UNCHANGED <<readers, result>>
        \/ \E r \in Results : Leave(t, r)
    BY <1>7 DEF Results
  <2>3. QED
    BY <1>2, <1>3, <1>4, <1>5, <1>6, <1>8, <2>1, <2>2, ReadStepsKeepTypes DEF Calling
<1> HIDE DEF n, b
<1>10. ASSUME NEW u \in Threads
       PROVE  ReadOK(u)'
  <2>1. CASE u # t
    <3>1. pc'[u] = pc[u] /\ result'[u] = result[u]
      BY <2>1, <1>2, <1>7 DEF Goto, Leave, Return
    <3>2. QED
      BY <2>1, <3>1, <1>5, <1>8, OthersReadOK
  <2>2. CASE u = t /\ Goto(t, "read")
    <3>1. pc'[t] = "read" /\ result'[t] = "none" /\ buffer'[t] = size + 1 /\ size + 1 > b
          /\ n + 1 <= Attempts
      BY <2>2, <1>2, <1>3, <1>7 DEF Goto, Leave, Return
    <3>2. Len(runs'[t]) \in 1 .. Attempts /\ runs'[t][Len(runs'[t])] = size
      BY <3>1, <1>3, <1>4 DEF Attempts
    <3>3. written'[t] + 1 <= buffer'[t]
      <4>1. b \in Nat
        BY <1>3
      <4>2. QED
        BY <3>1, <4>1, <1>2, <1>6
    <3>4. QED
      BY <2>2, <3>1, <3>2, <3>3, <1>4 DEF ReadOK
  <2>3. CASE u = t /\ \E r \in Results : Leave(t, r)
    <3>1. pc'[t] = "returned" /\ buffer'[t] = b
      BY <2>3, <1>2, <1>7 DEF Leave, Return, Goto, b
    <3>2. result'[t] = "answer" => size + 1 <= b
      BY <2>3, <1>2, <1>7 DEF Leave, Return, Goto
    <3>3. result'[t] = "unstable" => size + 1 > b /\ n + 1 > Attempts
      BY <2>3, <1>2, <1>7 DEF Leave, Return, Goto
    <3>4. result'[t] = "answer" => /\ written'[t] = runs'[t][Len(runs'[t])]
                                   /\ written'[t] = required'[t] - 1
      BY <3>2, <1>2, <1>4, <1>5, <1>6
    <3>5. result'[t] = "unstable" => Len(runs'[t]) = Attempts + 1 /\ Grows(runs'[t])
      BY <3>3, <1>3, <1>4 DEF Attempts
    <3>6. QED
      BY <2>3, <3>1, <3>4, <3>5, <1>6 DEF ReadOK
  <2>4. QED
    BY <2>1, <2>2, <2>3, <1>7 DEF Results
<1>11. QED
  BY <1>9, <1>10 DEF Inv

THEOREM ClientInvariant == Spec => []Inv
<1>1. Inv /\ [Next]_vars => Inv'
  <2> SUFFICES ASSUME Inv, [Next]_vars PROVE Inv'
    OBVIOUS
  <2>1. ASSUME NEW t \in Threads, Call(t) \/ CallClose(t) \/ Step(t) \/ Lock(t) \/ GoOn(t)
        PROVE  Inv'
    BY <2>1, LockStepsKeepInv, ShutKeepsInv, GoOnKeepsInv, QuerySizeKeepsInv, ReadKeepsInv DEF Step
  <2>2. ASSUME UNCHANGED vars
        PROVE  Inv'
    BY <2>2 DEF vars, lock, read, Inv, TypeOK, Closed, ReadOK
  <2>3. QED
    BY <2>1, <2>2 DEF Next
<1>2. QED
  BY InitInv, <1>1, PTL DEF Spec

(* The types, and who holds which side of the lock.                          *)
THEOREM ClientTypeCorrect == Spec => []TypeOK
<1>1. Inv => TypeOK
  BY DEF Inv
<1>2. QED
  BY <1>1, ClientInvariant, PTL

(* A returned response is all of one execution of the request.               *)
THEOREM AnswersAreOneRun == Spec => []AnswerIsOneRun
<1>1. Inv => AnswerIsOneRun
  BY DEF Inv, ReadOK, AnswerIsOneRun
<1>2. QED
  BY <1>1, ClientInvariant, PTL

(* The library never writes past the buffer it is given.                     *)
THEOREM ReadsStayInside == Spec => []ReadsStayInBuffer
<1>1. Inv => ReadsStayInBuffer
  BY DEF Inv, TypeOK, ReadOK, ReadsStayInBuffer
<1>2. QED
  BY <1>1, ClientInvariant, PTL

(* A call gives up only when every execution outgrew the one before it.      *)
THEOREM GivesUpOnGrowth == Spec => []GivesUpOnlyOnGrowth
<1>1. Inv => GivesUpOnlyOnGrowth
  <2> SUFFICES ASSUME Inv, NEW t \in Threads, result[t] = "unstable"
               PROVE  /\ Len(runs[t]) = Attempts + 1
                      /\ \A i \in 1 .. Attempts : runs[t][i] < runs[t][i + 1]
    BY DEF GivesUpOnlyOnGrowth
  <2>1. pc[t] = "returned" /\ Len(runs[t]) = Attempts + 1 /\ Grows(runs[t])
    BY DEF Inv, ReadOK
  <2>2. QED
    BY <2>1 DEF Grows, Attempts
<1>2. QED
  BY <1>1, ClientInvariant, PTL

(* The client implements ClosableHandle: calls are served only while it is   *)
(* open, and Close takes effect when none is.                                *)
THEOREM ClientKeepsPromise == Spec => ServedOnlyWhileOpen
<1> DEFINE serving == {t \in Threads : pc[t] \in Calling}
<1>1. Init => Handle!Init
  BY DEF Init, Handle!Init, Calling
<1>2. Inv /\ [Next]_vars => [Handle!Next]_(Handle!vars)
  <2> SUFFICES ASSUME Inv, [Next]_vars
               PROVE  [Handle!Next]_(Handle!vars)
    OBVIOUS
  <2>1. ASSUME NEW t \in Threads, Use(t)
        PROVE  Handle!Serve(t) \/ UNCHANGED Handle!vars
    <3>1. CASE closed
      BY <2>1, <3>1 DEF Inv, TypeOK, Use, Goto, Return, Calling, Handle!vars
    <3>2. CASE ~closed
      <4>1. pc[t] = "holding" /\ pc' = [pc EXCEPT ![t] = "size"] /\ UNCHANGED closed
        BY <2>1, <3>2 DEF Use, Goto
      <4>2. serving' = serving \union {t} /\ t \notin serving
        BY <4>1 DEF Inv, TypeOK, Calling
      <4>3. QED
        BY <4>1, <4>2, <3>2 DEF Handle!Serve
    <3>3. QED
      BY <3>1, <3>2
  <2>2. ASSUME NEW t \in Threads, QuerySize(t) \/ Read(t)
        PROVE  Handle!Leave(t) \/ UNCHANGED Handle!vars
    <3>1. pc[t] \in Calling /\ UNCHANGED closed
      BY <2>2 DEF QuerySize, Read, Calling
    <3>2. Goto(t, "read") \/ Goto(t, "returned")
      BY <2>2 DEF QuerySize, Read, Allocate, Leave, Return
    <3>3. serving' = serving \/ serving' = serving \ {t}
      BY <3>1, <3>2 DEF Inv, TypeOK, Goto, Calling
    <3>4. QED
      BY <3>1, <3>3 DEF Handle!Leave, Handle!vars
  <2>3. ASSUME NEW t \in Threads, Shut(t)
        PROVE  Handle!Close \/ UNCHANGED Handle!vars
    <3>1. serving = {} /\ serving' = {} /\ closed' = TRUE
      BY <2>3 DEF Inv, TypeOK, Shut, Calling, Holding
    <3>2. QED
      BY <3>1 DEF Inv, TypeOK, Handle!Close, Handle!vars
  <2>4. ASSUME NEW t \in Threads,
               RLock(t) \/ Lock(t) \/ Drained(t) \/ Call(t) \/ CallClose(t) \/ GoOn(t)
        PROVE  UNCHANGED Handle!vars
    BY <2>4 DEF Inv, TypeOK, RLock, Lock, Drained, Call, CallClose, GoOn, Goto, Calling, lock,
       Handle!vars
  <2>5. ASSUME UNCHANGED vars
        PROVE  UNCHANGED Handle!vars
    BY <2>5 DEF vars, lock, Handle!vars
  <2>6. QED
    BY <2>1, <2>2, <2>3, <2>4, <2>5 DEF Next, Step, Handle!Next
<1>3. QED
  BY <1>1, <1>2, ClientInvariant, PTL DEF Spec, ServedOnlyWhileOpen, Handle!Spec

-----------------------------------------------------------------------------
(* The library.                                                              *)

LEMMA NativeStepRefines ==
  ASSUME [NativeNext]_nativeVars
  PROVE  [Next]_vars
<1>1. ASSUME NEW t \in Threads, NEW s, Respond(t, s)
      PROVE  Next
  BY <1>1 DEF Respond, Next, Step
<1>2. ASSUME NEW t \in Threads, LibraryStep(t)
      PROVE  Next \/ UNCHANGED vars
  BY <1>1, <1>2 DEF LibraryStep, Execute, Initialize, Initialized, InitializationPanics
<1>3. ASSUME NEW t \in Threads, NativeStep(t)
      PROVE  Next \/ UNCHANGED vars
  BY <1>2, <1>3 DEF NativeStep, ClientStep, Next, Step
<1>4. ASSUME NEW t \in Threads, Call(t) \/ CallClose(t) \/ Lock(t) \/ NextCall(t)
      PROVE  Next
  BY <1>4 DEF NextCall, Next
<1>5. QED
  BY <1>3, <1>4 DEF NativeNext, nativeVars

(* The library underneath keeps to what SDKClient expects of one: copying    *)
(* whole envelopes, of a size it makes up anew each time it is asked.        *)
THEOREM NativeImplementsClient == NativeSpec => Spec
<1>1. NativeInit => Init
  BY DEF NativeInit
<1>2. [NativeNext]_nativeVars => [Next]_vars
  BY NativeStepRefines
<1>3. QED
  BY <1>1, <1>2, PTL DEF NativeSpec, Spec

-----------------------------------------------------------------------------
(* How the last execution for a call can have ended.                         *)
Allowed(t) ==
  IF request[t] = "oversized" THEN verdict[t] = "refused"
  ELSE /\ startup \in Started
       /\ verdict[t] \in Ends(request[t]) \/ (startup = "panicked" /\ verdict[t] = "recovered")

StatusInv ==
  /\ NativeTypeOK
  /\ startup = "running" => request[initializer] # "oversized"
  /\ \A t \in Threads : verdict[t] # "none" => Allowed(t)
  /\ \A t \in Threads : result[t] = "answer" => verdict[t] # "none"

LEMMA EndsAreEndings ==
  ASSUME NEW r \in Requests
  PROVE  Ends(r) \subseteq Endings
<1>1. Working \subseteq Endings
  BY DEF Working, Endings
<1>2. Verdicts(r) \subseteq Endings
  BY <1>1 DEF Verdicts, Endings
<1>3. QED
  BY <1>2 DEF Ends, Endings

LEMMA StatusesOfEndings ==
  ASSUME NEW v
  PROVE  StatusOf(v) \in Statuses /\ StatusOf(v) # "data"
BY DEF StatusOf, Statuses

(* A response is added to the runs of t's call, and t has not left.          *)
LEMMA RespondFacts ==
  ASSUME TypeOK, NEW t \in Threads, NEW v \in Endings, NativeTypeOK, Respond(t, v)
  PROVE  /\ verdict' = [verdict EXCEPT ![t] = v] /\ verdict'[t] = v
         /\ runs'[t] # <<>> /\ runs'[t][Len(runs'[t])] = SizeOf[StatusOf(v)]
         /\ \A u \in Threads \ {t} : /\ runs'[u] = runs[u] /\ result'[u] = result[u]
                                     /\ pc'[u] = pc[u] /\ verdict'[u] = verdict[u]
<1>1. runs[t] \in Seq(Sizes) /\ SizeOf[StatusOf(v)] \in Sizes
  BY NativeCallsAssumption, StatusesOfEndings DEF TypeOK
<1>2. runs'[t] = Append(runs[t], SizeOf[StatusOf(v)])
  BY DEF Respond
<1>3. runs'[t] # <<>> /\ runs'[t][Len(runs'[t])] = SizeOf[StatusOf(v)]
  BY <1>1, <1>2
<1>4. \A u \in Threads \ {t} : runs'[u] = runs[u] /\ result'[u] = result[u] /\ pc'[u] = pc[u]
  <2>1. CASE QuerySize(t)
    BY <2>1 DEF QuerySize, Allocate, Leave, Return, Goto, TypeOK
  <2>2. CASE Read(t)
    BY <2>2 DEF Read, Allocate, Leave, Return, Goto, TypeOK
  <2>3. QED
    BY <2>1, <2>2 DEF Respond
<1>5. QED
  BY <1>3, <1>4 DEF Respond, NativeTypeOK

LEMMA InitStatusInv == NativeInit => StatusInv
<1> SUFFICES ASSUME NativeInit PROVE StatusInv
  OBVIOUS
<1>1. /\ startup = "new" /\ initializer = NoThread /\ request \in [Threads -> Requests]
      /\ verdict \in [Threads -> Endings \union {"none"}]
      /\ \A t \in Threads : verdict[t] = "none" /\ runs[t] = <<>> /\ result[t] = "none"
  BY NativeCallsAssumption DEF NativeInit, Init
<1>2. QED
  BY <1>1 DEF StatusInv, NativeTypeOK

(* The steps of the client leave the runs, and so the verdicts, alone.       *)
LEMMA ClientStepsKeepStatusInv ==
  ASSUME Inv, StatusInv, NEW t \in Threads, UNCHANGED native,
         Call(t) \/ CallClose(t) \/ Lock(t) \/ ClientStep(t)
  PROVE  StatusInv'
<1>1. /\ runs' = runs
      /\ \A u \in Threads : result'[u] = "answer" => result[u] = "answer"
      /\ \A u \in Threads : pc[u] \in Calling => pc'[u] = pc[u]
  <2>1. CASE Call(t) \/ CallClose(t) \/ Lock(t) \/ Drained(t) \/ RLock(t)
    BY <2>1 DEF Inv, TypeOK, Call, CallClose, Lock, Drained, RLock, Goto, Calling, read
  <2>2. CASE Use(t)
    BY <2>2 DEF Inv, TypeOK, Use, Goto, Return, Calling, read
  <2>3. CASE Shut(t)
    BY <2>3 DEF Inv, TypeOK, Shut, Calling, read
  <2>4. QED
    BY <2>1, <2>2, <2>3 DEF ClientStep
<1>2. NativeTypeOK'
  BY <1>1 DEF StatusInv, NativeTypeOK, native
<1>3. \A u \in Threads : verdict'[u] # "none" => Allowed(u)'
  BY DEF StatusInv, native, Allowed, Ends, Verdicts
<1>4. QED
  BY <1>1, <1>2, <1>3 DEF StatusInv, native

(* A response leaves the other goroutines alone.                             *)
LEMMA RespondKeepsTypes ==
  ASSUME Inv, StatusInv, NEW t \in Threads, NEW v \in Endings, Respond(t, v),
         UNCHANGED request, startup' \in {"new", "running"} \union Started,
         startup' = "running" => startup = "running" /\ initializer' = initializer /\ initializer # t,
         startup' # "running" => initializer' = NoThread
  PROVE  NativeTypeOK'
<1>1. /\ verdict' = [verdict EXCEPT ![t] = v] /\ verdict'[t] = v
      /\ runs'[t] # <<>> /\ runs'[t][Len(runs'[t])] = SizeOf[StatusOf(v)]
      /\ \A u \in Threads \ {t} : runs'[u] = runs[u] /\ pc'[u] = pc[u] /\ verdict'[u] = verdict[u]
  BY RespondFacts DEF Inv, StatusInv
<1>2. verdict' \in [Threads -> Endings \union {"none"}] /\ v # "none"
  BY <1>1 DEF StatusInv, NativeTypeOK, Endings
<1>3. startup' = "running" => initializer' \in Threads /\ pc'[initializer'] \in Calling
  BY <1>1 DEF StatusInv, NativeTypeOK
<1>4. \A u \in Threads : IF runs'[u] = <<>> THEN verdict'[u] = "none"
                           ELSE /\ verdict'[u] # "none"
                                /\ runs'[u][Len(runs'[u])] = SizeOf[StatusOf(verdict'[u])]
  BY <1>1, <1>2 DEF StatusInv, NativeTypeOK
<1>5. request' \in [Threads -> Requests]
  BY DEF StatusInv, NativeTypeOK
<1>6. QED
  BY <1>2, <1>3, <1>4, <1>5 DEF NativeTypeOK

LEMMA ExecuteKeepsStatusInv ==
  ASSUME Inv, StatusInv, NEW t \in Threads, Execute(t)
  PROVE  StatusInv'
<1>1. PICK v \in Ends(request[t]) : Respond(t, v)
  BY DEF Execute
<1>2. v \in Endings /\ v # "none"
  BY EndsAreEndings DEF StatusInv, NativeTypeOK, Endings
<1>3. /\ verdict'[t] = v
      /\ \A u \in Threads \ {t} : result'[u] = result[u] /\ verdict'[u] = verdict[u]
  BY <1>1, <1>2, RespondFacts DEF Inv, StatusInv
<1>4. UNCHANGED <<request, startup, initializer>>
  BY DEF Execute
<1>5. startup = "running" => initializer # t
  BY DEF Execute, StatusInv, Started
<1>6. NativeTypeOK'
  BY <1>1, <1>2, <1>4, <1>5, RespondKeepsTypes DEF StatusInv, NativeTypeOK
<1>7. ASSUME NEW u \in Threads, verdict'[u] # "none"
      PROVE  Allowed(u)'
  <2>1. CASE u = t
    <3>1. request[t] = "oversized" => v = "refused"
      BY <1>1 DEF Ends
    <3>2. request[t] = "oversized" \/ startup \in Started
      BY DEF Execute
    <3>3. v \in Ends(request[t])'
      BY <1>1, <1>4 DEF Ends, Verdicts
    <3>4. QED
      BY <2>1, <1>3, <1>4, <3>1, <3>2, <3>3 DEF Allowed
  <2>2. CASE u # t
    <3>1. Allowed(u)
      BY <2>2, <1>3, <1>7 DEF StatusInv
    <3>2. verdict'[u] = verdict[u]
      BY <2>2, <1>3
    <3>3. QED
      BY <3>1, <3>2, <1>4 DEF Allowed, Ends, Verdicts
  <2>3. QED
    BY <2>1, <2>2
<1>8. \A u \in Threads : result'[u] = "answer" => verdict'[u] # "none"
  BY <1>2, <1>3 DEF StatusInv
<1>9. QED
  BY <1>4, <1>6, <1>7, <1>8 DEF StatusInv

(* Before startup has ended, only requests refused for their length have     *)
(* been answered.                                                            *)
LEMMA StartupStepsKeepStatusInv ==
  ASSUME Inv, StatusInv, NEW t \in Threads,
         Initialize(t) \/ Initialized(t) \/ InitializationPanics(t)
  PROVE  StatusInv'
<1>1. startup \in {"new", "running"} /\ startup \notin Started /\ request' = request
  BY DEF Initialize, Initialized, InitializationPanics, Started
<1>2. \A u \in Threads : verdict[u] # "none" => request[u] = "oversized" /\ verdict[u] = "refused"
  BY <1>1 DEF StatusInv, Allowed
<1>3. CASE Initialize(t)
  <2>1. NativeTypeOK'
    BY <1>3 DEF Initialize, StatusInv, NativeTypeOK, Started, vars, read, lock
  <2>2. \A u \in Threads : verdict'[u] # "none" => Allowed(u)'
    BY <1>1, <1>2, <1>3 DEF Initialize, Allowed
  <2>3. QED
    BY <1>3, <2>1, <2>2 DEF Initialize, StatusInv, vars
<1>4. CASE Initialized(t)
  <2>1. NativeTypeOK'
    BY <1>4 DEF Initialized, StatusInv, NativeTypeOK, Started, vars, read, lock
  <2>2. \A u \in Threads : verdict'[u] # "none" => Allowed(u)'
    BY <1>1, <1>2, <1>4 DEF Initialized, Allowed
  <2>3. QED
    BY <1>4, <2>1, <2>2 DEF Initialized, StatusInv, vars
<1>5. CASE InitializationPanics(t)
  <2>1. "recovered" \in Endings /\ "panicked" \in Started /\ "panicked" # "running"
    BY DEF Endings, Started
  <2>2. /\ startup' = "panicked" /\ initializer' = NoThread /\ Respond(t, "recovered")
        /\ request[t] # "oversized"
    BY <1>5 DEF InitializationPanics, StatusInv
  <2>3. /\ verdict'[t] = "recovered"
        /\ \A u \in Threads \ {t} : result'[u] = result[u] /\ verdict'[u] = verdict[u]
    BY <2>1, <2>2, RespondFacts DEF Inv, StatusInv
  <2>4. NativeTypeOK'
    BY <1>1, <2>1, <2>2, RespondKeepsTypes
  <2>5. \A u \in Threads : verdict'[u] # "none" => Allowed(u)'
    BY <1>1, <1>2, <2>1, <2>2, <2>3 DEF Allowed
  <2>6. \A u \in Threads : result'[u] = "answer" => verdict'[u] # "none"
    BY <2>3 DEF StatusInv
  <2>7. QED
    BY <2>2, <2>1, <2>4, <2>5, <2>6 DEF StatusInv
<1>6. QED
  BY <1>3, <1>4, <1>5

LEMMA NextCallKeepsStatusInv ==
  ASSUME Inv, StatusInv, NEW t \in Threads, NextCall(t)
  PROVE  StatusInv'
<1>1. /\ verdict' = [verdict EXCEPT ![t] = "none"] /\ runs' = [runs EXCEPT ![t] = <<>>]
      /\ result' = [result EXCEPT ![t] = "none"] /\ pc' = [pc EXCEPT ![t] = "idle"]
      /\ pc[t] = "returned" /\ UNCHANGED <<request, startup, initializer>>
  BY DEF NextCall, GoOn, Goto
<1>2. /\ runs \in [Threads -> Seq(Sizes)] /\ result \in [Threads -> Results]
      /\ pc \in [Threads -> PCs] /\ verdict \in [Threads -> Endings \union {"none"}]
  BY DEF Inv, TypeOK, StatusInv, NativeTypeOK
<1>3. /\ verdict'[t] = "none" /\ runs'[t] = <<>> /\ result'[t] = "none"
      /\ \A u \in Threads \ {t} : /\ verdict'[u] = verdict[u] /\ runs'[u] = runs[u]
                                  /\ result'[u] = result[u] /\ pc'[u] = pc[u]
  BY <1>1, <1>2
<1>4. NativeTypeOK'
  <2>1. startup = "running" => initializer # t
    BY <1>1 DEF StatusInv, NativeTypeOK, Calling
  <2>2. verdict' \in [Threads -> Endings \union {"none"}]
    BY <1>1, <1>2
  <2>3. QED
    BY <1>1, <1>3, <2>1, <2>2 DEF StatusInv, NativeTypeOK
<1>5. ASSUME NEW u \in Threads, verdict'[u] # "none"
      PROVE  Allowed(u)'
  <2>1. u # t /\ verdict'[u] = verdict[u]
    BY <1>3, <1>5
  <2>2. Allowed(u)
    BY <2>1, <1>5 DEF StatusInv
  <2>3. QED
    BY <2>1, <2>2, <1>1 DEF Allowed, Ends, Verdicts
<1>6. QED
  BY <1>1, <1>3, <1>4, <1>5 DEF StatusInv

LEMMA NextStatusInv ==
  ASSUME Inv, StatusInv, [NativeNext]_nativeVars
  PROVE  StatusInv'
<1>1. ASSUME NEW t \in Threads,
             (Call(t) \/ CallClose(t) \/ Lock(t) \/ ClientStep(t)) /\ UNCHANGED native
      PROVE  StatusInv'
  BY <1>1, ClientStepsKeepStatusInv
<1>2. ASSUME NEW t \in Threads, LibraryStep(t)
      PROVE  StatusInv'
  BY <1>2, ExecuteKeepsStatusInv, StartupStepsKeepStatusInv DEF LibraryStep
<1>3. ASSUME NEW t \in Threads, NextCall(t)
      PROVE  StatusInv'
  BY <1>3, NextCallKeepsStatusInv
<1>4. CASE UNCHANGED nativeVars
  BY <1>4 DEF nativeVars, native, vars, read, lock, StatusInv, NativeTypeOK, Allowed, Ends, Verdicts
<1>5. QED
  BY <1>1, <1>2, <1>3, <1>4 DEF NativeNext, NativeStep

LEMMA NativeInvariant == NativeSpec => [](Inv /\ StatusInv)
<1>1. NativeSpec => []Inv
  BY NativeImplementsClient, ClientInvariant, PTL
<1>2. NativeInit => StatusInv
  BY InitStatusInv
<1>3. Inv /\ StatusInv /\ [NativeNext]_nativeVars => StatusInv'
  BY NextStatusInv
<1>4. QED
  BY <1>1, <1>2, <1>3, PTL DEF NativeSpec

-----------------------------------------------------------------------------
(* Types, and that the goroutine inside runtimeOnce is one whose request is  *)
(* being executed.                                                           *)
THEOREM NativeTypeCorrect == NativeSpec => []CallTypeOK
<1>1. Inv /\ StatusInv => CallTypeOK
  BY DEF Inv, StatusInv, CallTypeOK
<1>2. QED
  BY <1>1, NativeInvariant, PTL

(* Once startup has failed, no call is answered with anything else.          *)
THEOREM FailureReachesEveryCall == NativeSpec => []StartupErrorIsTold
<1>1. StatusInv => StartupErrorIsTold
  BY DEF StatusInv, Allowed, Ends, StatusOf, StartupErrorIsTold, CallResult, Started
<1>2. QED
  BY <1>1, NativeInvariant, PTL

(* A request is blamed only when it is at fault, and in the two cases named. *)
THEOREM BlameIsDeserved == NativeSpec => []InvalidBlamesRequest
<1>1. ASSUME Inv, StatusInv, NEW t \in Threads, CallResult(t) = "invalid",
             request[t] \notin {"oversized", "malformed"}
      PROVE  \/ /\ request[t] \in {"filter", "guarded"} /\ startup = "panicked"
                /\ verdict[t] = "nil client"
             \/ request[t] = "filter" /\ startup = "client" /\ verdict[t] = "unwrapped"
  <2>1. result[t] = "answer" /\ StatusOf(verdict[t]) = "invalid"
    BY <1>1 DEF CallResult, Inv, TypeOK, Results
  <2>2. /\ verdict[t] \in {"none", "refused", "nil client", "unwrapped"}
        /\ verdict[t] # "none" /\ verdict[t] # "recovered"
    BY <1>1, <2>1 DEF StatusOf, StatusInv, NativeTypeOK, Endings
  <2>3. verdict[t] \in Ends(request[t]) /\ startup \in Started
    BY <1>1, <2>2 DEF StatusInv, Allowed
  <2>4. startup # "error" /\ verdict[t] \in Verdicts(request[t])
    BY <1>1, <2>2, <2>3 DEF Ends
  <2>5. CASE startup = "panicked"
    BY <1>1, <2>2, <2>4, <2>5 DEF Verdicts, Working
  <2>6. CASE startup = "client"
    BY <1>1, <2>2, <2>4, <2>6 DEF Verdicts, Working
  <2>7. QED
    BY <2>3, <2>4, <2>5, <2>6 DEF Started
<1>2. Inv /\ StatusInv => InvalidBlamesRequest
  BY <1>1 DEF InvalidBlamesRequest
<1>3. QED
  BY <1>2, NativeInvariant, PTL

(* No data is made up for want of an engine.                                 *)
THEOREM DataNeedsEngine == NativeSpec => []DataComesFromEngine
<1>1. ASSUME Inv, StatusInv, NEW t \in Threads, CallResult(t) = "data", startup # "client"
      PROVE  request[t] = "engineless" /\ startup = "panicked"
  <2>1. /\ result[t] \in Results /\ verdict[t] \in Endings \union {"none"}
        /\ request[t] \in Requests
    BY <1>1 DEF Inv, TypeOK, StatusInv, NativeTypeOK
  <2>2. result[t] = "answer" /\ verdict[t] = "ok"
    BY <1>1, <2>1, StatusesOfEndings DEF CallResult, Results
  <2>3. Allowed(t)
    BY <1>1, <2>2 DEF StatusInv
  <2>4. "ok" \in Ends(request[t]) /\ startup \in Started /\ request[t] # "oversized"
    BY <2>2, <2>3 DEF Allowed
  <2>5. startup = "panicked" /\ "ok" \in Verdicts(request[t])
    BY <1>1, <2>4 DEF Ends, Started
  <2>6. request[t] \notin {"malformed", "filter", "guarded", "unguarded"}
    BY <2>5 DEF Verdicts
  <2>7. QED
    BY <2>1, <2>4, <2>5, <2>6 DEF Requests
<1>2. Inv /\ StatusInv => DataComesFromEngine
  BY <1>1 DEF DataComesFromEngine
<1>3. QED
  BY <1>2, NativeInvariant, PTL
=============================================================================
