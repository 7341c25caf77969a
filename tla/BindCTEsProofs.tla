---------------------------- MODULE BindCTEsProofs ----------------------------
(***************************************************************************)
(* BindCTEs declares no name twice, a consumer's CTE in mixed case and      *)
(* quotes aside, whatever the names and queries.                            *)
(***************************************************************************)
EXTENDS BindCTEs, TreeRecursion, SequenceTheorems

(* The first n bindings have been looked at: their keys differ, and these    *)
(* are the keys taken.                                                       *)
Checked(n) ==
  /\ taken = {BindingKey(bindings[i].name) : i \in 1 .. n}
  /\ \A i \in 1 .. n : bindings[i].name \in Names
  /\ \A i, j \in 1 .. n : BindingKey(bindings[i].name) = BindingKey(bindings[j].name) => i = j

(* What is known at each step; it is inductive where NamesDistinct is not.   *)
Progress ==
  /\ call \in Call
  /\ next \in Nat \ {0}
  /\ pc \in {"start", "names", "consumer", "queries", "combine", "generate", "done"}
  /\ pc = "start" => next = 1 /\ taken = {} /\ result = "none"
  /\ pc \in {"names", "consumer", "queries"} => next <= Len(bindings)
  /\ pc = "names" => Checked(next - 1)
  /\ pc \in {"consumer", "queries", "combine", "generate"} => Checked(Len(bindings))
  /\ pc \in {"queries", "combine", "generate"} => ~Conflicts
  /\ pc = "generate" => with = Combined
  /\ pc # "done" => result = "none"
  /\ IsBound => Checked(Len(bindings)) /\ ~Conflicts /\ with = Combined

(* A binding is written in such a way that it denotes its name as it is.     *)
LEMMA AliasDenotesName ==
  ASSUME NEW name \in Names
  PROVE  Key(Alias(name)) = name
  BY BindAssumption DEF Key, Alias

(* What is looked at first is looked at.                                     *)
LEMMA CheckedNone == (taken = {}) => Checked(0)
<1>1. 1 .. 0 = {}
  OBVIOUS
<1>. QED
  BY <1>1 DEF Checked

(* A name whose key is free can be taken.                                    *)
LEMMA CheckedOneMore ==
  ASSUME NEW n \in Nat, Checked(n), bindings[n + 1].name \in Names,
         BindingKey(bindings[n + 1].name) \notin taken,
         taken' = taken \union {BindingKey(bindings[n + 1].name)}, call' = call
  PROVE  Checked(n + 1)'
<1>1. 1 .. n + 1 = (1 .. n) \union {n + 1}
  OBVIOUS
<1>2. bindings' = bindings
  BY DEF bindings
<1>3. taken' = {BindingKey(bindings[i].name) : i \in 1 .. n + 1}
  BY <1>1 DEF Checked
<1>4. \A i \in 1 .. n + 1 : bindings[i].name \in Names
  BY <1>1 DEF Checked
<1>5. \A i \in 1 .. n : BindingKey(bindings[i].name) # BindingKey(bindings[n + 1].name)
  BY DEF Checked
<1>6. \A i, j \in 1 .. n + 1 :
        BindingKey(bindings[i].name) = BindingKey(bindings[j].name) => i = j
  BY <1>1, <1>5 DEF Checked
<1>7. \A i : BindingKey(bindings[i].name)' = BindingKey(bindings[i].name)
  BY <1>2 DEF BindingKey, Key
<1>8. (taken = {BindingKey(bindings[i].name) : i \in 1 .. n + 1})'
  BY <1>3, <1>7
<1>. QED
  BY <1>2, <1>4, <1>6, <1>7, <1>8 DEF Checked

(* The steps that look at no name leave what was looked at as it was.        *)
LEMMA CheckedStays ==
  ASSUME NEW n, Checked(n), UNCHANGED <<call, taken>>
  PROVE  Checked(n)'
  BY DEF Checked, bindings, BindingKey, Key

LEMMA ProgressInit == ASSUME Init PROVE Progress
  BY CallsAssumption DEF Init, Progress, IsBound

LEMMA ProgressInductive ==
  ASSUME Progress, [Next]_vars
  PROVE  Progress'
<1>b. bindings \in Seq(Binding) /\ Len(bindings) \in Nat
  BY DEF Progress, Call, bindings
<1>1. CASE Start
  <2>1. Checked(0)' 
    <3>1. taken' = {}
      BY <1>1 DEF Start, Return, Progress
    <3>2. 1 .. 0 = {}
      OBVIOUS
    <3>. QED
      BY <3>1, <3>2 DEF Checked
  <2>2. CASE pc' = "done"
    <3>1. bindings = <<>> \/ result' # "sql"
      BY <1>1, <2>2 DEF Start, Return
    <3>. QED
      BY <1>1, <2>2, <3>1 DEF Start, Return, Progress, IsBound, bindings
  <2>3. CASE pc' = "names"
    <3>1. bindings # <<>> /\ next' = 1 /\ UNCHANGED <<call, result, with>>
      BY <1>1, <2>3 DEF Start, Return, Progress
    <3>2. 1 <= Len(bindings)
      BY <1>b, <3>1, EmptySeq
    <3>3. (next - 1)' = 0 /\ next' <= Len(bindings)
      BY <3>1, <3>2
    <3>4. Checked(next - 1)'
      BY <2>1, <3>3 DEF Checked
    <3>5. bindings' = bindings /\ result' = "none" /\ pc # "done"
      BY <1>1, <3>1 DEF bindings, Start, Progress
    <3>. QED
      BY <2>3, <3>1, <3>3, <3>4, <3>5 DEF Progress, IsBound
  <2>. QED
    BY <1>1, <2>2, <2>3 DEF Start, Return
<1>2. CASE CheckName
  <2>1. CASE pc' = "done"
    <3>1. result' # "sql"
      BY <1>2, <2>1 DEF CheckName, Return, GoOn
    <3>. QED
      BY <1>2, <2>1, <3>1 DEF CheckName, Return, GoOn, Progress, IsBound
  <2>2. CASE pc' # "done"
    <3>1. /\ UNCHANGED <<call, result, with>>
          /\ BindingKey(bindings[next].name) \notin taken
          /\ taken' = taken \union {BindingKey(bindings[next].name)}
          /\ bindings[next].name # NoName
          /\ \/ next < Len(bindings) /\ next' = next + 1 /\ pc' = "names"
             \/ ~(next < Len(bindings)) /\ next' = 1 /\ pc' = "consumer"
      BY <1>2, <2>2 DEF CheckName, Return, GoOn
    <3>2. pc = "names" /\ next \in Nat \ {0} /\ next <= Len(bindings) /\ Checked(next - 1)
          /\ result = "none"
      BY <1>2 DEF CheckName, Progress
    <3>3. bindings[next] \in Binding
      BY <1>b, <3>2, ElementOfSeq
    <3>4. bindings[next].name \in Names
      BY <3>1, <3>3 DEF Binding
    <3>5. PICK n \in Nat : n + 1 = next
      BY <3>2
    <3>6. Checked(n + 1)'
      <4>1. Checked(n)
        BY <3>2, <3>5
      <4>. QED
        BY <3>1, <3>4, <3>5, <4>1, CheckedOneMore
    <3>7. bindings' = bindings /\ call' \in Call
      BY <3>1 DEF bindings, Progress
    <3>8. CASE pc' = "names"
      <4>1. next' = n + 2 /\ next' <= Len(bindings)
        BY <1>b, <3>1, <3>5, <3>8
      <4>2. (next - 1)' = n + 1 /\ next' \in Nat \ {0}
        BY <4>1
      <4>3. Checked(next - 1)'
        BY <3>6, <4>2 DEF Checked
      <4>. QED
        BY <3>1, <3>2, <3>7, <3>8, <4>1, <4>2, <4>3 DEF Progress, IsBound
    <3>9. CASE pc' = "consumer"
      <4>1. Len(bindings)' = n + 1 /\ next' \in Nat \ {0} /\ next' <= n + 1
        BY <1>b, <3>1, <3>2, <3>5, <3>7, <3>9
      <4>2. Checked(Len(bindings))'
        BY <3>6, <4>1 DEF Checked
      <4>. QED
        BY <3>1, <3>2, <3>7, <3>9, <4>1, <4>2 DEF Progress, IsBound
    <3>. QED
      BY <3>1, <3>8, <3>9
  <2>. QED
    BY <2>1, <2>2
<1>3. CASE ParseConsumer
  <2>1. UNCHANGED <<call, next, taken, with>> /\ pc = "consumer" /\ bindings' = bindings
    BY <1>3 DEF ParseConsumer, Return, bindings
  <2>2. Checked(Len(bindings))'
    BY <2>1, CheckedStays DEF Progress, Checked
  <2>3. CASE pc' = "done"
    <3>1. result' # "sql"
      BY <1>3, <2>3 DEF ParseConsumer, Return, Progress, Call, Texts
    <3>. QED
      BY <2>1, <2>3, <3>1 DEF Progress, IsBound
  <2>4. CASE pc' # "done"
    <3>1. pc' = "queries" /\ UNCHANGED result /\ ~Conflicts
      BY <1>3, <2>4 DEF ParseConsumer, Return
    <3>. QED
      BY <2>1, <2>2, <3>1 DEF Progress, IsBound, Conflicts, Key
  <2>. QED
    BY <2>3, <2>4
<1>4. CASE ParseBinding
  <2>1. UNCHANGED <<call, taken, with>> /\ pc = "queries" /\ bindings' = bindings
    BY <1>4 DEF ParseBinding, Return, GoOn, bindings
  <2>2. Checked(Len(bindings))'
    BY <2>1, CheckedStays DEF Progress, Checked
  <2>3. next' \in Nat \ {0} /\ (pc' # "done" => next' <= Len(bindings))
    BY <1>4, <1>b DEF ParseBinding, Return, GoOn, Progress
  <2>4. CASE pc' = "done"
    <3>1. result' = bindings[next].text /\ bindings[next].text # "query"
      BY <1>4, <2>4 DEF ParseBinding, Return, GoOn
    <3>2. bindings[next] \in Binding
      BY <1>b, <2>1, ElementOfSeq DEF Progress
    <3>3. result' # "sql"
      BY <3>1, <3>2 DEF Binding, Texts
    <3>. QED
      BY <2>1, <2>3, <2>4, <3>3 DEF Progress, IsBound
  <2>5. CASE pc' # "done"
    <3>1. pc' \in {"queries", "combine"} /\ UNCHANGED result
      BY <1>4, <2>5 DEF ParseBinding, Return, GoOn
    <3>2. ~Conflicts'
      BY <2>1 DEF Progress, Conflicts, Key
    <3>. QED
      BY <2>1, <2>2, <2>3, <3>1, <3>2 DEF Progress, IsBound
  <2>. QED
    BY <2>4, <2>5
<1>5. CASE Combine
  <2>1. UNCHANGED <<call, next, taken>> /\ pc = "combine" /\ bindings' = bindings
    BY <1>5 DEF Combine, Return, bindings
  <2>2. CASE pc' = "done"
    <3>1. result' = "ErrInternal"
      BY <1>5, <2>2 DEF Combine, Return
    <3>. QED
      BY <2>1, <2>2, <3>1 DEF Progress, IsBound
  <2>3. CASE pc' # "done"
    <3>1. pc' = "generate" /\ with' = Combined /\ UNCHANGED result
      BY <1>5, <2>3 DEF Combine, Return
    <3>2. Checked(Len(bindings))'
      BY <2>1, CheckedStays DEF Progress, Checked
    <3>3. ~Conflicts' /\ with' = Combined'
      BY <2>1, <3>1 DEF Progress, Conflicts, Key, Combined, Bound, Alias
    <3>. QED
      BY <2>1, <3>1, <3>2, <3>3 DEF Progress, IsBound
  <2>. QED
    BY <2>2, <2>3
<1>6. CASE Generate
  <2>1. UNCHANGED <<call, next, taken, with>> /\ pc = "generate" /\ pc' = "done" /\ bindings' = bindings
    BY <1>6 DEF Generate, Return, bindings
  <2>2. Checked(Len(bindings))'
    BY <2>1, CheckedStays DEF Progress, Checked
  <2>3. ~Conflicts' /\ with' = Combined'
    BY <2>1 DEF Progress, Conflicts, Key, Combined, Bound, Alias
  <2>. QED
    BY <2>1, <2>2, <2>3 DEF Progress, IsBound
<1>7. CASE UNCHANGED vars
  <2>1. UNCHANGED <<call, next, taken, with, pc, result>> /\ bindings' = bindings
    BY <1>7 DEF vars, bindings
  <2>2. (Conflicts' <=> Conflicts) /\ Combined' = Combined /\ (IsBound' <=> IsBound)
    BY <2>1 DEF Conflicts, Key, Combined, Bound, Alias, IsBound
  <2>3. (Checked(Len(bindings))' <=> Checked(Len(bindings))) /\ (Checked(next - 1)' <=> Checked(next - 1))
    BY <2>1 DEF Checked, BindingKey, Key
  <2>. QED
    BY <2>1, <2>2, <2>3 DEF Progress
<1>. QED
  BY <1>1, <1>2, <1>3, <1>4, <1>5, <1>6, <1>7 DEF Next, Done

LEMMA ProgressAlways == Spec => []Progress
<1>1. Init => Progress
  BY ProgressInit
<1>2. Progress /\ [Next]_vars => Progress'
  BY ProgressInductive
<1>. QED
  BY <1>1, <1>2, PTL DEF Spec

(* The bindings come first in the combined WITH clause, the consumer's CTEs  *)
(* behind them.                                                              *)
LEMMA CombinedElements ==
  ASSUME call \in Call
  PROVE  /\ Len(bindings) \in Nat /\ Len(call.ctes) \in Nat
         /\ DOMAIN call.ctes = 1 .. Len(call.ctes)
         /\ DOMAIN Combined = 1 .. Len(bindings) + Len(call.ctes)
         /\ \A i \in 1 .. Len(bindings) : Combined[i].alias = Alias(bindings[i].name)
         /\ \A i \in 1 .. Len(bindings) + Len(call.ctes) :
              i > Len(bindings) => Combined[i] = call.ctes[i - Len(bindings)]
<1>1. bindings \in Seq(Binding) /\ call.ctes \in Seq(Cte)
  BY DEF Call, bindings
<1>2. /\ Len(bindings) \in Nat /\ DOMAIN bindings = 1 .. Len(bindings)
      /\ Len(call.ctes) \in Nat /\ DOMAIN call.ctes = 1 .. Len(call.ctes)
  BY <1>1, LenProperties
<1>3. PICK m \in Nat : m = Len(bindings)
  BY <1>2
<1>4. PICK n \in Nat : n = Len(call.ctes)
  BY <1>2
<1>. DEFINE E == {Bound[i] : i \in 1 .. m} \union Cte
<1>5. Bound \in [1 .. m -> E]
  BY <1>2, <1>3 DEF Bound
<1>6. call.ctes \in Seq(E)
  BY <1>1
<1>. HIDE DEF E
<1>7. Bound \in Seq(E) /\ Len(Bound) = m
  BY <1>5, LenProperties, SeqDef
<1>8. Combined \in Seq(E) /\ Len(Combined) = m + n
  BY <1>4, <1>6, <1>7, ConcatProperties DEF Combined
<1>9. \A i \in 1 .. m + n : Combined[i] = IF i <= m THEN Bound[i] ELSE call.ctes[i - m]
  BY <1>4, <1>6, <1>7, ConcatProperties DEF Combined
<1>10. DOMAIN Combined = 1 .. m + n
  BY <1>8, LenProperties
<1>11. \A i \in 1 .. m : Bound[i].alias = Alias(bindings[i].name)
  BY <1>2, <1>3 DEF Bound
<1>12. \A i \in 1 .. m : i \in 1 .. m + n /\ i <= m
  OBVIOUS
<1>13. \A i \in 1 .. m : Combined[i].alias = Alias(bindings[i].name)
  BY <1>9, <1>11, <1>12
<1>14. \A i \in 1 .. m + n : i > m => Combined[i] = call.ctes[i - m]
  BY <1>9
<1>. QED
  BY <1>2, <1>3, <1>4, <1>10, <1>13, <1>14

(* What is established at the end of a call keeps the names apart.           *)
LEMMA ProgressSuffices == ASSUME Progress PROVE NamesDistinct
<1>. SUFFICES ASSUME IsBound, NEW i \in 1 .. Len(bindings), NEW j \in DOMAIN with \ {i}, SameName(i, j)
              PROVE  Unnoticed(i) /\ j > Len(bindings)
  BY DEF NamesDistinct
<1>1. Checked(Len(bindings)) /\ ~Conflicts /\ with = Combined /\ call \in Call
  BY DEF Progress
<1>2. bindings[i].name \in Names /\ Len(bindings) \in Nat
  BY <1>1 DEF Checked, Call, bindings
<1>3. PICK m \in Nat : m = Len(bindings)
  BY <1>2
<1>4. PICK n \in Nat : n = Len(call.ctes) /\ DOMAIN call.ctes = 1 .. n
  BY <1>1, CombinedElements
<1>5. Key(with[i].alias) = bindings[i].name
  BY <1>1, <1>2, CombinedElements, AliasDenotesName
<1>6. j \in 1 .. m + n
  BY <1>1, <1>3, <1>4, CombinedElements
<1>7. CASE j <= m
  <2>1. j \in 1 .. Len(bindings)
    BY <1>3, <1>6, <1>7
  <2>2. Key(with[j].alias) = bindings[j].name
    BY <1>1, <2>1, CombinedElements, AliasDenotesName DEF Checked
  <2>3. BindingKey(bindings[i].name) = BindingKey(bindings[j].name)
    BY <1>5, <2>2 DEF SameName
  <2>. QED
    BY <1>1, <2>1, <2>3 DEF Checked
<1>8. CASE j > m
  <2>1. j - m \in DOMAIN call.ctes
    BY <1>4, <1>6, <1>8
  <2>2. with[j] = call.ctes[j - m]
    BY <1>1, <1>3, <1>4, <1>6, <1>8, CombinedElements
  <2>3. bindings[i].name \notin taken
    BY <1>1, <1>5, <2>1, <2>2 DEF SameName, Conflicts
  <2>4. BindingKey(bindings[i].name) # bindings[i].name
    BY <1>1, <2>3 DEF Checked
  <2>5. i <= Len(bindings) /\ j > Len(bindings)
    BY <1>3, <1>8
  <2>. QED
    BY <2>4, <2>5 DEF Unnoticed
<1>. QED
  BY <1>6, <1>7, <1>8

(* BindCTEs returns no WITH clause that declares a name twice, unless a      *)
(* binding in mixed case meets a consumer's CTE quoted alike.                *)
THEOREM BindingsStayDistinct == Spec => []NamesDistinct
<1>1. Progress => NamesDistinct
  BY ProgressSuffices
<1>. QED
  BY <1>1, ProgressAlways, PTL

-----------------------------------------------------------------------------
(* The sizes of the texts, summed up.                                        *)

(* g holds the sums of the first texts of the call c, up to the k-th.        *)
Sums(c, g, k) ==
  /\ DOMAIN g = 0 .. k
  /\ \A n \in 0 .. k : g[n] = IF n = 0 THEN c.size ELSE g[n - 1] + c.bindings[n].size

LEMMA SumsExist ==
  ASSUME NEW c \in Call, NEW N \in Nat
  PROVE  \E g : Sums(c, g, N)
<1>. DEFINE Without == {k \in Nat : ~ \E g : Sums(c, g, k)}
<1>1. SUFFICES ASSUME Without # {} PROVE FALSE
  OBVIOUS
<1>2. PICK k \in Without : \A m \in Without : k <= m
  BY <1>1, LeastNumber
<1>3. k \in Nat /\ ~ \E g : Sums(c, g, k)
  OBVIOUS
<1>4. CASE k = 0
  <2>. DEFINE g == [n \in 0 .. 0 |-> c.size]
  <2>1. Sums(c, g, 0)
    BY DEF Sums
  <2>. QED
    BY <1>3, <1>4, <2>1
<1>5. CASE k # 0
  <2>1. k - 1 \in Nat /\ k - 1 < k
    BY <1>3, <1>5
  <2>2. k - 1 \notin Without
    BY <1>2, <1>3, <2>1
  <2>3. PICK g : Sums(c, g, k - 1)
    BY <2>1, <2>2
  <2>. DEFINE h == [n \in 0 .. k |-> IF n = k THEN g[k - 1] + c.bindings[k].size ELSE g[n]]
  <2>4. ASSUME NEW n \in 0 .. k
        PROVE  h[n] = IF n = 0 THEN c.size ELSE h[n - 1] + c.bindings[n].size
    <3>1. CASE n = k
      BY <1>3, <1>5, <2>1, <3>1
    <3>2. CASE n # k
      <4>1. n \in 0 .. (k - 1) /\ h[n] = g[n]
        BY <1>3, <3>2
      <4>2. n # 0 => h[n - 1] = g[n - 1]
        BY <1>3, <3>2
      <4>. QED
        BY <2>3, <4>1, <4>2 DEF Sums
    <3>. QED
      BY <3>1, <3>2
  <2>5. Sums(c, h, k)
    BY <2>4 DEF Sums
  <2>. QED
    BY <1>3, <2>5
<1>. QED
  BY <1>4, <1>5

(* SizesOf is what its definition says.                                      *)
LEMMA SizesOfCall ==
  ASSUME NEW c \in Call
  PROVE  /\ SizesOf(c)[0] = c.size
         /\ \A n \in Nat : n + 1 <= Len(c.bindings) =>
              SizesOf(c)[n + 1] = SizesOf(c)[n] + c.bindings[n + 1].size
<1>. DEFINE N == Len(c.bindings)
            Body(g) == [n \in 0 .. N |-> IF n = 0 THEN c.size ELSE g[n - 1] + c.bindings[n].size]
<1>1. N \in Nat
  BY DEF Call
<1>2. PICK g : Sums(c, g, N)
  BY <1>1, SumsExist
<1>3. \E h : h = Body(h)
  <2>. DEFINE h == [n \in 0 .. N |-> g[n]]
  <2>1. \A n \in 0 .. N : n # 0 => n - 1 \in 0 .. N
    BY <1>1
  <2>2. h = Body(h)
    BY <1>2, <2>1 DEF Sums
  <2>. QED
    BY <2>2
<1>4. SizesOf(c) = Body(SizesOf(c))
  BY <1>3 DEF SizesOf
<1>. DEFINE f == SizesOf(c)
<1>. HIDE DEF f
<1>5. \A n \in 0 .. N : f[n] = IF n = 0 THEN c.size ELSE f[n - 1] + c.bindings[n].size
  BY <1>4 DEF f
<1>6. ASSUME NEW n \in Nat, n + 1 <= N
      PROVE  f[n + 1] = f[n] + c.bindings[n + 1].size
  <2>1. n + 1 \in 0 .. N /\ n + 1 # 0 /\ (n + 1) - 1 = n
    BY <1>1, <1>6
  <2>. QED
    BY <1>5, <2>1
<1>7. f[0] = c.size
  BY <1>1, <1>5
<1>. QED
  BY <1>6, <1>7 DEF f

-----------------------------------------------------------------------------
(* Types and sizes: total is the size of all that has been looked at, and    *)
(* within the limit.                                                         *)

Accounted ==
  /\ total \in Nat /\ taken \subseteq Names /\ with \in Seq(Cte)
  /\ pc = "done" => result # "none"
  /\ pc = "names" => total <= MaxInputBytes /\ total = SizesOf(call)[next - 1]
  /\ pc \in {"consumer", "queries", "combine", "generate"} =>
       total <= MaxInputBytes /\ total = SizesOf(call)[Len(bindings)]

LEMMA KeyIsName ==
  ASSUME NEW name \in Names
  PROVE  BindingKey(name) \in Names
BY BindAssumption DEF BindingKey, Key

LEMMA CombinedIsWith ==
  ASSUME call \in Call, Checked(Len(bindings))
  PROVE  Combined \in Seq(Cte)
<1>1. bindings \in Seq(Binding) /\ call.ctes \in Seq(Cte)
  BY DEF Call, bindings
<1>2. DOMAIN bindings = 1 .. Len(bindings) /\ Len(bindings) \in Nat
  BY <1>1, LenProperties
<1>3. ASSUME NEW i \in 1 .. Len(bindings)
      PROVE  Bound[i] \in Cte
  <2>1. bindings[i] \in Binding
    BY <1>1, <1>2, ElementOfSeq
  <2>2. bindings[i].name \in Names
    BY DEF Checked
  <2>3. Alias(bindings[i].name) \in Ident
    BY <2>2 DEF Alias, Ident
  <2>4. bindings[i].reads \in SUBSET Ident
    BY <2>1 DEF Binding
  <2>5. Bound[i] = [alias |-> Alias(bindings[i].name), reads |-> bindings[i].reads]
    BY <1>2 DEF Bound
  <2>. QED
    BY <2>3, <2>4, <2>5 DEF Cte
<1>4. Bound \in [1 .. Len(bindings) -> Cte]
  BY <1>2, <1>3 DEF Bound
<1>5. Bound \in Seq(Cte)
  BY <1>2, <1>4, SeqDef
<1>. QED
  BY <1>1, <1>5, ConcatProperties DEF Combined

LEMMA AccountedInit == ASSUME Init PROVE Accounted
<1>1. call \in Call
  BY CallsAssumption DEF Init
<1>. QED
  BY <1>1 DEF Init, Accounted, Call

LEMMA AccountedInductive ==
  ASSUME Progress, Accounted, [Next]_vars
  PROVE  Accounted'
<1>b. /\ bindings \in Seq(Binding) /\ Len(bindings) \in Nat /\ MaxInputBytes \in Nat
      /\ call \in Call /\ call.size \in Nat /\ next \in Nat \ {0}
  BY BindAssumption DEF Progress, Call, bindings
<1>1. CASE Start
  <2>1. CASE pc' = "done"
    BY <1>1, <2>1 DEF Start, Return, Accounted
  <2>2. CASE pc' # "done"
    <3>1. /\ pc' = "names" /\ total' = call.size /\ call.size <= MaxInputBytes
          /\ UNCHANGED <<call, taken, with, result>> /\ next' = 1
      BY <1>1, <2>2 DEF Start, Return, Progress
    <3>2. SizesOf(call)'[0] = call.size
      BY <1>b, <3>1, SizesOfCall
    <3>3. total' = SizesOf(call)'[next' - 1]
      BY <3>1, <3>2
    <3>. QED
      BY <1>b, <3>1, <3>3 DEF Accounted
  <2>. QED
    BY <2>1, <2>2
<1>2. CASE CheckName
  <2>1. CASE pc' = "done"
    BY <1>2, <2>1 DEF CheckName, Return, GoOn, Accounted
  <2>2. CASE pc' # "done"
    <3>1. /\ UNCHANGED <<call, result, with>>
          /\ bindings[next].name # NoName /\ FitsBeside(bindings[next].size, total)
          /\ taken' = taken \union {BindingKey(bindings[next].name)}
          /\ total' = total + bindings[next].size
          /\ \/ next < Len(bindings) /\ next' = next + 1 /\ pc' = "names"
             \/ ~(next < Len(bindings)) /\ next' = 1 /\ pc' = "consumer"
      BY <1>2, <2>2 DEF CheckName, Return, GoOn
    <3>2. pc = "names" /\ next <= Len(bindings) /\ total <= MaxInputBytes /\ total \in Nat
          /\ total = SizesOf(call)[next - 1]
      BY <1>2 DEF CheckName, Progress, Accounted
    <3>3. bindings[next] \in Binding
      BY <1>b, <3>2, ElementOfSeq
    <3>4. bindings[next].name \in Names /\ bindings[next].size \in Nat
      BY <3>1, <3>3 DEF Binding
    <3>5. total' <= MaxInputBytes /\ total' \in Nat
      BY <1>b, <3>1, <3>2, <3>4 DEF FitsBeside
    <3>6. taken' \subseteq Names
      BY <3>1, <3>4, KeyIsName DEF Accounted
    <3>7. total' = SizesOf(call)[next]
      <4>1. PICK n \in Nat : next = n + 1
        BY <1>b
      <4>2. SizesOf(call)[n + 1] = SizesOf(call)[n] + call.bindings[n + 1].size
        BY <1>b, <3>2, <4>1, SizesOfCall DEF bindings
      <4>. QED
        BY <3>1, <3>2, <4>1, <4>2 DEF bindings
    <3>8. bindings' = bindings /\ SizesOf(call)' = SizesOf(call)
      BY <3>1 DEF bindings
    <3>9. CASE pc' = "names"
      <4>1. next' - 1 = next
        BY <1>b, <3>1, <3>9
      <4>. QED
        BY <3>1, <3>5, <3>6, <3>7, <3>8, <3>9, <4>1 DEF Accounted
    <3>10. CASE pc' = "consumer"
      <4>1. Len(bindings) = next
        BY <1>b, <3>1, <3>2, <3>10
      <4>. QED
        BY <3>1, <3>5, <3>6, <3>7, <3>8, <3>10, <4>1 DEF Accounted
    <3>. QED
      BY <3>1, <3>9, <3>10
  <2>. QED
    BY <2>1, <2>2
<1>3. ASSUME UNCHANGED <<call, total, taken>>, with' \in Seq(Cte),
             pc' = "done" => result' # "none",
             pc' # "names",
             pc' \in {"consumer", "queries", "combine", "generate"} =>
               pc \in {"consumer", "queries", "combine", "generate"}
      PROVE  Accounted'
  <2>1. bindings' = bindings /\ SizesOf(call)' = SizesOf(call)
    BY <1>3 DEF bindings
  <2>. QED
    BY <1>3, <2>1 DEF Accounted
<1>4. CASE ParseConsumer
  BY <1>3, <1>4 DEF ParseConsumer, Return, Accounted, Progress, Call, Texts
<1>5. CASE ParseBinding
  <2>1. pc' = "done" => result' # "none"
    <3>1. bindings[next] \in Binding
      BY <1>5, <1>b, ElementOfSeq DEF ParseBinding, Progress
    <3>. QED
      BY <1>5, <3>1 DEF ParseBinding, Return, GoOn, Binding, Texts
  <2>. QED
    BY <1>3, <1>5, <2>1 DEF ParseBinding, Return, GoOn, Accounted
<1>6. CASE Combine
  <2>1. pc = "combine" /\ Checked(Len(bindings))
    BY <1>6 DEF Combine, Progress
  <2>2. with' \in Seq(Cte)
    BY <1>b, <1>6, <2>1, CombinedIsWith DEF Combine, Return, Accounted
  <2>. QED
    BY <1>3, <1>6, <2>2 DEF Combine, Return, Accounted
<1>7. CASE Generate
  BY <1>3, <1>7 DEF Generate, Return, Accounted
<1>8. CASE UNCHANGED vars
  <2>1. bindings' = bindings /\ SizesOf(call)' = SizesOf(call)
    BY <1>8 DEF bindings, vars
  <2>. QED
    BY <1>8, <2>1 DEF Accounted, vars
<1>. QED
  BY <1>1, <1>2, <1>4, <1>5, <1>6, <1>7, <1>8 DEF Next, Done

LEMMA AccountedAlways == Spec => []Accounted
<1>1. Init => Accounted
  BY AccountedInit
<1>2. Progress /\ Accounted /\ [Next]_vars => Accounted'
  BY AccountedInductive
<1>. QED
  BY <1>1, <1>2, ProgressAlways, PTL DEF Spec

(* Types; the keys taken are those of the bindings looked at, and a call has *)
(* a result exactly when it has returned.                                    *)
THEOREM BindTypeCorrect == Spec => []TypeOK
<1>1. Progress /\ Accounted => TypeOK
  <2>. SUFFICES ASSUME Progress, Accounted PROVE TypeOK
    OBVIOUS
  <2>1. pc = "names" =>
          \A key \in taken : \E i \in 1 .. next - 1 : BindingKey(bindings[i].name) = key
    BY DEF Progress, Checked
  <2>2. pc \in {"names", "queries"} => next <= Len(bindings)
    BY DEF Progress
  <2>. QED
    BY <2>1, <2>2 DEF Progress, Accounted, TypeOK
<1>. QED
  BY <1>1, ProgressAlways, AccountedAlways, PTL

(* No text is parsed before all of them together are known to be within the  *)
(* limit.                                                                    *)
THEOREM InputStaysBounded == Spec => []InputBounded
<1>1. Accounted => InputBounded
  BY DEF Accounted, InputBounded
<1>. QED
  BY <1>1, AccountedAlways, PTL

-----------------------------------------------------------------------------
(* What the names in the result denote.                                      *)

(* The bindings a name can denote, wherever it stands.                       *)
Bindable(id) == {i \in 1 .. Len(bindings) : Alias(bindings[i].name).name = Key(id)}

LEMMA BindingsOfWith ==
  ASSUME Progress, IsBound
  PROVE  /\ call \in Call /\ Len(bindings) \in Nat /\ Len(call.ctes) \in Nat
         /\ DOMAIN call.ctes = 1 .. Len(call.ctes)
         /\ DOMAIN with = 1 .. Len(bindings) + Len(call.ctes)
         /\ \A i \in 1 .. Len(bindings) : Key(with[i].alias) = Alias(bindings[i].name).name
         /\ \A i \in 1 .. Len(bindings) + Len(call.ctes) :
              i > Len(bindings) => with[i] = call.ctes[i - Len(bindings)]
<1>1. call \in Call /\ with = Combined /\ Checked(Len(bindings))
  BY DEF Progress
<1>2. ASSUME NEW i \in 1 .. Len(bindings)
      PROVE  Key(with[i].alias) = Alias(bindings[i].name).name
  <2>1. bindings[i].name \in Names
    BY <1>1 DEF Checked
  <2>2. with[i].alias = Alias(bindings[i].name)
    BY <1>1, CombinedElements
  <2>3. Alias(bindings[i].name).name = bindings[i].name
    BY DEF Alias
  <2>. QED
    BY <2>1, <2>2, <2>3, AliasDenotesName
<1>. QED
  BY <1>1, <1>2, CombinedElements

(* A binding's names denote earlier bindings or tables, unless the consumer  *)
(* makes the WITH clause recursive.                                          *)
THEOREM BindingsReadBack == Spec => []BindingsReadEarlierOnes
<1>1. Progress => BindingsReadEarlierOnes
  <2>. SUFFICES ASSUME Progress, IsBound,
                       NEW i \in 1 .. Len(bindings), NEW id, ~SeesBehind(i, id)
                PROVE  Denoted(with, i, id) =
                         {j \in 1 .. i - 1 : Alias(bindings[j].name).name = Key(id)}
    BY DEF BindingsReadEarlierOnes
  <2>. DEFINE m == Len(bindings)
              n == Len(call.ctes)
  <2>1. /\ m \in Nat /\ n \in Nat /\ DOMAIN with = 1 .. m + n
        /\ \A j \in 1 .. m : Key(with[j].alias) = Alias(bindings[j].name).name
    BY BindingsOfWith
  <2>2. ASSUME NEW j \in DOMAIN with, Key(with[j].alias) = Key(id), j < i \/ call.recursive
        PROVE  j \in 1 .. i - 1
    <3>1. j \in Nat /\ i \in Nat
      BY <2>1
    <3>2. j >= i => ~call.recursive
      BY <2>2 DEF SeesBehind
    <3>3. ~(j >= i)
      BY <2>2, <3>1, <3>2
    <3>. QED
      BY <2>1, <3>3
  <2>3. \A j \in 1 .. i - 1 : j \in 1 .. m /\ j \in DOMAIN with /\ j < i
    BY <2>1
  <2>. QED
    BY <2>1, <2>2, <2>3 DEF Denoted
<1>. QED
  BY <1>1, ProgressAlways, PTL

(* Where a part of the consumer stands, a name denotes the bindings it can   *)
(* denote and what it denoted in the consumer's own WITH clause.             *)
LEMMA ConsumerSees ==
  ASSUME Progress, IsBound, NEW at \in Nat \ {0}, NEW id
  PROVE  Denoted(with, at + Len(bindings), id) =
           Bindable(id) \union {i + Len(bindings) : i \in Denoted(call.ctes, at, id)}
<1>. DEFINE m == Len(bindings)
            n == Len(call.ctes)
            own == {i + m : i \in Denoted(call.ctes, at, id)}
<1>1. /\ m \in Nat /\ n \in Nat /\ DOMAIN with = 1 .. m + n /\ DOMAIN call.ctes = 1 .. n
      /\ \A j \in 1 .. m : Key(with[j].alias) = Alias(bindings[j].name).name
      /\ \A j \in 1 .. m + n : j > m => with[j] = call.ctes[j - m]
  BY BindingsOfWith
<1>2. ASSUME NEW j \in Denoted(with, at + m, id)
      PROVE  j \in Bindable(id) \union own
  <2>1. j \in 1 .. m + n /\ Key(with[j].alias) = Key(id) /\ (j < at + m \/ call.recursive)
    BY <1>1 DEF Denoted
  <2>2. CASE j <= m
    <3>1. j \in 1 .. m
      BY <1>1, <2>1, <2>2
    <3>. QED
      BY <1>1, <2>1, <3>1 DEF Bindable
  <2>3. CASE ~(j <= m)
    <3>1. j - m \in 1 .. n /\ (j - m) + m = j /\ (j < at + m => j - m < at)
      BY <1>1, <2>1, <2>3
    <3>2. with[j] = call.ctes[j - m]
      <4>1. j > m
        BY <1>1, <2>1, <2>3
      <4>. QED
        BY <1>1, <2>1, <4>1
    <3>3. j - m \in Denoted(call.ctes, at, id)
      BY <1>1, <2>1, <3>1, <3>2 DEF Denoted
    <3>. QED
      BY <3>1, <3>3
  <2>. QED
    BY <2>2, <2>3
<1>3. ASSUME NEW j \in Bindable(id)
      PROVE  j \in Denoted(with, at + m, id)
  <2>1. j \in 1 .. m /\ j \in DOMAIN with /\ j < at + m
    BY <1>1 DEF Bindable
  <2>. QED
    BY <1>1, <2>1 DEF Bindable, Denoted
<1>4. ASSUME NEW k \in Denoted(call.ctes, at, id)
      PROVE  k + m \in Denoted(with, at + m, id)
  <2>1. k \in 1 .. n /\ Key(call.ctes[k].alias) = Key(id) /\ (k < at \/ call.recursive)
    BY <1>1 DEF Denoted
  <2>2. k + m \in 1 .. m + n /\ k + m > m /\ (k + m) - m = k /\ (k < at => k + m < at + m)
    BY <1>1, <2>1
  <2>3. with[k + m] = call.ctes[k]
    BY <1>1, <2>2
  <2>. QED
    BY <1>1, <2>1, <2>2, <2>3 DEF Denoted
<1>. QED
  BY <1>2, <1>3, <1>4

LEMMA ConsumerReadsKept ==
  ASSUME Progress, IsBound, NEW at \in Nat \ {0}, NEW reads
  PROVE  ConsumerReads(at, reads)
<1>. SUFFICES ASSUME NEW id \in reads
              PROVE  LET own == {i + Len(bindings) : i \in Denoted(call.ctes, at, id)}
                     IN  Denoted(with, at + Len(bindings), id) =
                           IF own = {} THEN Bindable(id)
                                       ELSE own \union {i \in Bindable(id) : Unnoticed(i)}
  BY DEF ConsumerReads, Bindable
<1>. DEFINE own == {i + Len(bindings) : i \in Denoted(call.ctes, at, id)}
<1>1. Denoted(with, at + Len(bindings), id) = Bindable(id) \union own
  BY ConsumerSees
<1>2. ASSUME own # {}, NEW i \in Bindable(id)
      PROVE  Unnoticed(i)
  <2>1. PICK k \in DOMAIN call.ctes : Key(call.ctes[k].alias) = Key(id)
    BY <1>2 DEF Denoted
  <2>2. i \in 1 .. Len(bindings) /\ bindings[i].name = Key(id)
    BY DEF Bindable, Alias
  <2>3. taken = {BindingKey(bindings[j].name) : j \in 1 .. Len(bindings)} /\ ~Conflicts
    BY DEF Progress, Checked
  <2>4. Key(id) \notin taken
    BY <2>1, <2>3 DEF Conflicts
  <2>5. BindingKey(bindings[i].name) # bindings[i].name
    BY <2>2, <2>3, <2>4
  <2>6. i <= Len(bindings)
    BY <2>2, BindingsOfWith
  <2>. QED
    BY <2>5, <2>6 DEF Unnoticed
<1>. HIDE DEF own
<1>3. Bindable(id) \union own = IF own = {} THEN Bindable(id)
                                 ELSE own \union {i \in Bindable(id) : Unnoticed(i)}
  BY <1>2
<1>. QED
  BY <1>1, <1>3 DEF own

(* The consumer's names denote what they denoted, and bindings where they    *)
(* denoted no CTE of the consumer.                                           *)
THEOREM ConsumerNamesKept == Spec => []ConsumerKeepsItsNames
<1>1. Progress => ConsumerKeepsItsNames
  <2>. SUFFICES ASSUME Progress, IsBound
                PROVE  /\ ConsumerReads(Len(call.ctes) + 1, call.reads)
                       /\ \A i \in DOMAIN call.ctes : ConsumerReads(i, call.ctes[i].reads)
    BY DEF ConsumerKeepsItsNames
  <2>1. Len(call.ctes) \in Nat /\ DOMAIN call.ctes = 1 .. Len(call.ctes)
    BY BindingsOfWith
  <2>2. Len(call.ctes) + 1 \in Nat \ {0} /\ \A i \in DOMAIN call.ctes : i \in Nat \ {0}
    BY <2>1
  <2>. QED
    BY <2>2, ConsumerReadsKept
<1>. QED
  BY <1>1, ProgressAlways, PTL
===============================================================================
