-------------------------- MODULE ExactColumnsProofs ---------------------------
(***************************************************************************)
(* With metadata for every table, ReferencedColumns records the columns     *)
(* that the references read in SQL, and LineageSourceColumns returns those  *)
(* whose values flow, for statements of any size and depth.                 *)
(*                                                                         *)
(* Every query that is resolved has the output its columns make in SQL, and *)
(* its references are recorded as what they mean (Exact).  When a query is  *)
(* resolved, all that it sees is resolved, but for CTEs that are being      *)
(* resolved around it: this is what Nested says of the stack.  The lineage  *)
(* needs, beside the outputs in flow mode, that the tables credited so far  *)
(* are those of the roots that flow (Flowing, Arrived).                     *)
(***************************************************************************)
EXTENDS ReferencedColumnsProofs

-----------------------------------------------------------------------------
(* Numbers and sequences.                                                    *)

(* InOrder lists the members of a set.                                       *)
LEMMA InOrderFacts ==
  ASSUME NEW S \in SUBSET Nat, IsFiniteSet(S)
  PROVE  /\ Cardinality(S) \in Nat /\ DOMAIN InOrder(S) = 1 .. Cardinality(S)
         /\ \A i \in 1 .. Cardinality(S) : /\ InOrder(S)[i] \in S
                                           /\ Cardinality({m \in S : m <= InOrder(S)[i]}) = i
         /\ \A n \in S : \E i \in 1 .. Cardinality(S) : InOrder(S)[i] = n
<1>. DEFINE C == Cardinality(S)
            below(n) == {m \in S : m <= n}
            rank == [n \in S |-> Cardinality(below(n))]
<1>1. C \in Nat
  BY FS_CardinalityType
<1>2. \A n \in S : /\ IsFiniteSet(below(n)) /\ Cardinality(below(n)) \in Nat
                   /\ Cardinality(below(n)) <= C /\ n \in below(n)
  <2>1. ASSUME NEW n \in S
        PROVE  IsFiniteSet(below(n)) /\ Cardinality(below(n)) <= C /\ n \in below(n)
    <3>1. below(n) \in SUBSET S /\ n \in below(n)
      OBVIOUS
    <3>. QED
      BY <3>1, FS_Subset
  <2>. QED
    BY <2>1, FS_CardinalityType
<1>3. \A n \in S : Cardinality(below(n)) # 0
  BY <1>2, FS_EmptySet
<1>4. rank \in [S -> 1 .. C]
  BY <1>1, <1>2, <1>3
<1>5. ASSUME NEW m \in S, NEW n \in S, m < n
      PROVE  rank[m] # rank[n]
  <2>1. below(m) \in SUBSET below(n) /\ n \in below(n) /\ n \notin below(m)
    <3>1. \A x \in S : x \in Nat /\ (x <= m => x <= n)
      BY <1>5
    <3>2. n <= n /\ ~(n <= m)
      BY <1>5
    <3>. QED
      BY <3>1, <3>2
  <2>2. Cardinality(below(m)) # Cardinality(below(n))
    BY <1>2, <2>1, FS_Subset
  <2>. QED
    BY <2>2
<1>6. \A m, n \in S : rank[m] = rank[n] => m = n
  <2>1. \A m, n \in S : m # n => m < n \/ n < m
    OBVIOUS
  <2>. QED
    BY <1>5, <2>1
<1>. HIDE DEF rank
<1>7. rank \in Injection(S, 1 .. C)
  BY <1>4, <1>6 DEF Injection, IsInjective
<1>8. IsFiniteSet(1 .. C) /\ Cardinality(1 .. C) = C
  BY <1>1, FS_Interval
<1>9. rank \in Surjection(S, 1 .. C)
  BY <1>7, <1>8, FS_Injection
<1>10. \A i \in 1 .. C : \E n \in S : rank[n] = i
  BY <1>9 DEF Surjection
<1>11. \A n \in S : rank[n] = Cardinality({m \in S : m <= n})
  BY DEF rank
<1>12. DOMAIN InOrder(S) = 1 .. C /\ \A i \in 1 .. C : InOrder(S)[i] \in S /\ rank[InOrder(S)[i]] = i
  <2>1. ASSUME NEW i \in 1 .. C
        PROVE  InOrder(S)[i] \in S /\ rank[InOrder(S)[i]] = i
    <3>. DEFINE Is(n) == n \in S /\ Cardinality({m \in S : m <= n}) = i
    <3>1. InOrder(S)[i] = CHOOSE n : Is(n)
      BY DEF InOrder
    <3>2. \E n : Is(n)
      BY <1>10, <1>11
    <3>. HIDE DEF Is
    <3>3. Is(InOrder(S)[i])
      BY <3>1, <3>2
    <3>. QED
      BY <1>11, <3>3 DEF Is
  <2>2. DOMAIN InOrder(S) = 1 .. C
    BY DEF InOrder
  <2>. QED
    BY <2>1, <2>2
<1>13. \A n \in S : rank[n] \in 1 .. C /\ InOrder(S)[rank[n]] = n
  BY <1>4, <1>6, <1>12
<1>. QED
  BY <1>1, <1>11, <1>12, <1>13

(* All of a sequence, in order, is the sequence.                             *)
LEMMA InOrderAll ==
  ASSUME NEW k \in Nat
  PROVE  InOrder(1 .. k) = [i \in 1 .. k |-> i]
<1>1. IsFiniteSet(1 .. k) /\ Cardinality(1 .. k) = k /\ 1 .. k \in SUBSET Nat
  BY FS_Interval
<1>. DEFINE list == InOrder(1 .. k)
<1>2. /\ DOMAIN list = 1 .. k
      /\ \A i \in 1 .. k : list[i] \in 1 .. k /\ Cardinality({m \in 1 .. k : m <= list[i]}) = i
  BY <1>1, InOrderFacts
<1>3. \A n \in 1 .. k : {m \in 1 .. k : m <= n} = 1 .. n /\ Cardinality(1 .. n) = n
  BY FS_Interval
<1>4. \A i \in 1 .. k : list[i] = i
  <2>. HIDE DEF list
  <2>. QED
    BY <1>2, <1>3
<1>. DEFINE pick(i) == CHOOSE n \in 1 .. k : Cardinality({m \in 1 .. k : m <= n}) = i
<1>5. list = [i \in 1 .. Cardinality(1 .. k) |-> pick(i)]
  BY DEF InOrder
<1>. HIDE DEF list, pick
<1>6. list = [i \in 1 .. k |-> i]
  BY <1>1, <1>4, <1>5
<1>. QED
  BY <1>6 DEF list

LEMMA InOrderOne ==
  ASSUME NEW n \in Nat
  PROVE  Cardinality({n}) = 1 /\ InOrder({n})[1] = n
<1>1. IsFiniteSet({n}) /\ Cardinality({n}) = 1
  BY FS_Singleton
<1>. QED
  BY <1>1, InOrderFacts

(* Sequences put together are a sequence of the same.                        *)
LEMMA FlattenFacts ==
  ASSUME NEW S, NEW k \in Nat, NEW seqs \in [1 .. k -> Seq(S)]
  PROVE  /\ FlattenSeq(seqs) \in Seq(S)
         /\ k = 1 => FlattenSeq(seqs) = seqs[1]
<1>0. seqs \in Seq(Seq(S)) /\ Len(seqs) = k /\ DOMAIN seqs = 1 .. k
  OBVIOUS
<1>1. CASE k = 0
  <2>1. seqs = <<>>
    BY <1>0, <1>1, EmptySeq
  <2>. QED
    BY <1>0, <1>1, <2>1 DEF FlattenSeq
<1>2. CASE k # 0
  <2>. DEFINE D == 1 .. k
              Stop == {1}
              next == [i \in D |-> i - 1]
              step == [i \in D |-> [v \in Seq(S) |-> v \o seqs[i]]]
              Body(f) == [i \in 1 .. Len(seqs) |-> IF i = 1 THEN seqs[i] ELSE f[i - 1] \o seqs[i]]
  <2>1. D \in SUBSET Nat /\ (\A i \in D : i <= k) /\ \A i \in D : i \in Stop => seqs[i] \in Seq(S)
    OBVIOUS
  <2>2. \A i \in D : i \notin Stop => next[i] \in D /\ next[i] < i
    OBVIOUS
  <2>3. \A i \in D : step[i] \in [Seq(S) -> Seq(S)]
    OBVIOUS
  <2>4. PICK f : Solves(f, D, Seq(S), Stop, seqs, next, step)
    <3>. HIDE DEF D, Stop, next, step
    <3>. QED
      BY <2>1, <2>2, <2>3, ChainRecursion
  <2>5. f \in [D -> Seq(S)] /\ \A i \in D : f[i] = IF i = 1 THEN seqs[i] ELSE f[i - 1] \o seqs[i]
    <3>1. \A i \in D : i # 1 => i - 1 \in D
      OBVIOUS
    <3>. QED
      BY <2>4, <3>1 DEF Solves
  <2>6. f = Body(f)
    <3>1. \A i \in D : f[i] = Body(f)[i]
      BY <1>0, <2>5
    <3>. QED
      BY <1>0, <2>5, <3>1
  <2>. DEFINE g == CHOOSE h : h = Body(h)
  <2>7. g = Body(g)
    BY <2>6
  <2>8. FlattenSeq(seqs) = g[k]
    BY <1>0, <1>2 DEF FlattenSeq
  <2>. HIDE DEF g
  <2>9. \A i \in D : g[i] = IF i = 1 THEN seqs[i] ELSE g[i - 1] \o seqs[i]
    BY <1>0, <2>7
  <2>10. D \subseteq {i \in D : g[i] \in Seq(S)}
    <3>. DEFINE Fine == {i \in D : g[i] \in Seq(S)}
    <3>1. ASSUME NEW i \in D, \A j \in D : j < i => j \in Fine
          PROVE  i \in Fine
      <4>1. i # 1 => i - 1 \in D /\ i - 1 < i
        OBVIOUS
      <4>2. i # 1 => g[i - 1] \in Seq(S)
        BY <3>1, <4>1
      <4>3. seqs[i] \in Seq(S)
        OBVIOUS
      <4>4. i # 1 => g[i - 1] \o seqs[i] \in Seq(S)
        BY <4>2, <4>3, ConcatProperties
      <4>. QED
        BY <2>9, <4>3, <4>4
    <3>. HIDE DEF Fine
    <3>2. D \subseteq Fine
      BY <2>1, <3>1, SmallerFirst
    <3>. QED
      BY <3>2 DEF Fine
  <2>11. k \in D /\ 1 \in D
    BY <1>2
  <2>. QED
    BY <2>8, <2>9, <2>10, <2>11
<1>. QED
  BY <1>1, <1>2

(* The last name of one that ends in a qualifier of one name.                *)
LEMMA SuffixFacts ==
  ASSUME NEW S, NEW s \in Seq(S), NEW t \in Seq(S), IsSuffix(s, t), Len(s) # 0
  PROVE  /\ Len(t) # 0 /\ Len(s) <= Len(t)
         /\ Len(s) = 1 => s[1] = t[Len(t)]
         /\ Len(t) = 1 => s = t
<1>. DEFINE rs == Reverse(s)
            rt == Reverse(t)
<1>1. /\ Len(s) \in Nat /\ Len(t) \in Nat /\ 1 <= Len(s)
      /\ rs \in Seq(S) /\ Len(rs) = Len(s) /\ \A i \in 1 .. Len(s) : rs[i] = s[(Len(s) - i) + 1]
      /\ rt \in Seq(S) /\ Len(rt) = Len(t) /\ \A i \in 1 .. Len(t) : rt[i] = t[(Len(t) - i) + 1]
  <2>1. \A u \in Seq(S) : \A i \in 1 .. Len(u) : (Len(u) - i) + 1 \in 1 .. Len(u)
    OBVIOUS
  <2>2. \A u \in Seq(S) : Reverse(u) \in Seq(S) /\ Len(Reverse(u)) = Len(u)
                           /\ \A i \in 1 .. Len(u) : Reverse(u)[i] = u[(Len(u) - i) + 1]
    BY <2>1 DEF Reverse
  <2>. QED
    BY <2>2
<1>2. Len(s) <= Len(t) /\ SubSeq(rs, 1, Len(s)) = SubSeq(rt, 1, Len(s))
  BY <1>1 DEF IsSuffix, IsPrefix
<1>. HIDE DEF rs, rt
<1>3. rs[1] = rt[1]
  <2>1. 1 \in 1 .. Len(s) /\ SubSeq(rs, 1, Len(s))[1] = rs[1]
    BY <1>1
  <2>2. SubSeq(rt, 1, Len(s))[1] = rt[1]
    BY <1>1, <1>2
  <2>. QED
    BY <1>2, <2>1, <2>2
<1>4. s[Len(s)] = t[Len(t)]
  <2>1. 1 \in 1 .. Len(s) /\ 1 \in 1 .. Len(t) /\ (Len(s) - 1) + 1 = Len(s) /\ (Len(t) - 1) + 1 = Len(t)
    BY <1>1, <1>2
  <2>. QED
    BY <1>1, <1>3, <2>1
<1>5. Len(t) = 1 => s = t
  <2>. SUFFICES ASSUME Len(t) = 1 PROVE s = t
    OBVIOUS
  <2>1. Len(s) = 1
    BY <1>1, <1>2
  <2>. QED
    BY <1>4, <2>1
<1>6. Len(t) # 0 /\ Len(s) <= Len(t)
  BY <1>1, <1>2
<1>7. Len(s) = 1 => s[1] = t[Len(t)]
  BY <1>4
<1>. QED
  BY <1>5, <1>6, <1>7

-----------------------------------------------------------------------------
(* The scopes around a query.                                                *)

LEMMA AboveAgain ==
  ASSUME q \in Statements
  PROVE  \A b \in Nodes : /\ b \in Above[b] /\ \A a \in Above[b] : Above[a] \subseteq Above[b]
                          /\ \A a \in Above[b] : a # Root => q[a].up \in Above[b]
                          /\ \A a \in Above[b] : a # b => a \in QueryNodes
<1>. DEFINE Closed(b) == /\ b \in Above[b] /\ \A a \in Above[b] : Above[a] \subseteq Above[b]
                         /\ \A a \in Above[b] : a # Root => q[a].up \in Above[b]
                         /\ \A a \in Above[b] : a # b => a \in QueryNodes
            Fine == {b \in Nodes : Closed(b)}
<1>1. ASSUME NEW b \in Nodes, \A m \in Nodes : m < b => m \in Fine
      PROVE  b \in Fine
  <2>1. Above[b] = {b} \union IF b = Root THEN {} ELSE Above[q[b].up]
    BY AboveFacts
  <2>2. CASE b = Root
    BY <2>1, <2>2
  <2>3. CASE b # Root
    <3>1. q[b].up \in QueryNodes /\ q[b].up \in Nodes /\ q[b].up < b
      BY <2>3, StatementFacts DEF QueryNodes
    <3>2. Closed(q[b].up)
      BY <1>1, <3>1
    <3>. QED
      BY <2>1, <2>3, <3>1, <3>2
  <2>. QED
    BY <2>2, <2>3
<1>2. Nodes \in SUBSET Nat
  BY StatementFacts
<1>. HIDE DEF Fine
<1>3. Nodes \subseteq Fine
  BY <1>1, <1>2, SmallerFirst
<1>. QED
  BY <1>3 DEF Fine

ScopeLists == Seq(SUBSET Nodes) \ {<<>>}

LEMMA ScopeListFacts ==
  ASSUME NEW v \in ScopeLists, NEW w \in Seq(SUBSET Nodes), NEW S \in SUBSET Nodes
  PROVE  /\ Len(v) \in Nat /\ Len(v) # 0 /\ DOMAIN v = 1 .. Len(v) /\ v[1] \in SUBSET Nodes
         /\ Tail(v) \in Seq(SUBSET Nodes) /\ Len(Tail(v)) = Len(v) - 1
         /\ \A i \in 1 .. Len(v) - 1 : Tail(v)[i] = v[i + 1]
         /\ <<S>> \o w \in ScopeLists /\ Len(<<S>> \o w) = Len(w) + 1
         /\ (<<S>> \o w)[1] = S /\ \A i \in 2 .. Len(w) + 1 : (<<S>> \o w)[i] = w[i - 1]
<1>1. v \in Seq(SUBSET Nodes) /\ v # <<>>
  BY DEF ScopeLists
<1>2. Len(v) \in Nat /\ Len(v) # 0 /\ DOMAIN v = 1 .. Len(v) /\ v[1] \in SUBSET Nodes
  <2>1. Len(v) \in Nat /\ Len(v) # 0 /\ DOMAIN v = 1 .. Len(v)
    BY <1>1, EmptySeq
  <2>. QED
    BY <1>1, <2>1
<1>3. /\ Tail(v) \in Seq(SUBSET Nodes) /\ Len(Tail(v)) = Len(v) - 1
      /\ \A i \in 1 .. Len(v) - 1 : Tail(v)[i] = v[i + 1]
  BY <1>1, <1>2, HeadTailProperties
<1>4. /\ <<S>> \o w \in Seq(SUBSET Nodes) /\ Len(<<S>> \o w) = Len(w) + 1
      /\ (<<S>> \o w)[1] = S /\ \A i \in 2 .. Len(w) + 1 : (<<S>> \o w)[i] = w[i - 1]
  <2>1. <<S>> \in Seq(SUBSET Nodes) /\ Len(<<S>>) = 1 /\ Len(w) \in Nat
    OBVIOUS
  <2>2. /\ <<S>> \o w \in Seq(SUBSET Nodes) /\ Len(<<S>> \o w) = 1 + Len(w)
        /\ \A i \in 1 .. 1 + Len(w) : (<<S>> \o w)[i] = IF i <= 1 THEN <<S>>[i] ELSE w[i - 1]
    BY <2>1, ConcatProperties
  <2>. QED
    BY <2>1, <2>2
<1>5. <<S>> \o w # <<>>
  <2>1. Len(w) \in Nat /\ Len(<<S>> \o w) # 0
    BY <1>4
  <2>. QED
    BY <2>1
<1>. QED
  BY <1>2, <1>3, <1>4, <1>5 DEF ScopeLists

(* The scopes that a query has beside its own, from those of the one around. *)
Outer(b, v) ==
  CASE q[b].place = "cte"  -> Tail(v)
    [] q[b].place = "from" -> <<{n \in v[1] : n < b}>> \o Tail(v)
    [] OTHER               -> v

SqlOuter(b, v) ==
  CASE q[b].place = "cte"  -> Tail(v)
    [] q[b].place = "from" -> <<{}>> \o Tail(v)
    [] OTHER               -> v

LEMMA OuterFacts ==
  ASSUME NEW b, NEW v \in ScopeLists
  PROVE  Outer(b, v) \in Seq(SUBSET Nodes) /\ SqlOuter(b, v) \in Seq(SUBSET Nodes)
<1>1. v \in Seq(SUBSET Nodes) /\ v[1] \in SUBSET Nodes /\ Tail(v) \in Seq(SUBSET Nodes)
  <2>1. <<>> \in Seq(SUBSET Nodes)
    OBVIOUS
  <2>. QED
    BY <2>1, ScopeListFacts DEF ScopeLists
<1>2. \A S \in SUBSET Nodes : <<S>> \o Tail(v) \in Seq(SUBSET Nodes)
  BY <1>1, ScopeListFacts DEF ScopeLists
<1>3. {n \in v[1] : n < b} \in SUBSET Nodes /\ {} \in SUBSET Nodes
  BY <1>1
<1>. QED
  BY <1>1, <1>2, <1>3 DEF Outer, SqlOuter

LEMMA ChainEquations ==
  ASSUME q \in Statements
  PROVE  \A b \in QueryNodes :
           /\ Chain[b] \in ScopeLists
           /\ Chain[b] = <<Sources(b)>> \o IF b = Root THEN <<>> ELSE Outer(b, Chain[q[b].up])
           /\ SqlChain[b] \in ScopeLists
           /\ SqlChain[b] = <<Sources(b)>> \o IF b = Root THEN <<>> ELSE SqlOuter(b, SqlChain[q[b].up])
<1>1. /\ QueryNodes \in SUBSET Nat /\ Len(q) \in Nat /\ \A b \in QueryNodes : b <= Len(q)
      /\ \A b \in QueryNodes \ {Root} : q[b].up \in QueryNodes /\ q[b].up < b
  BY StatementFacts DEF QueryNodes
<1>2. \A b : Sources(b) \in SUBSET Nodes
  BY DEF Sources, Kids
<1>3. <<>> \in Seq(SUBSET Nodes) /\ \A S \in SUBSET Nodes, w \in Seq(SUBSET Nodes) : <<S>> \o w \in ScopeLists
  <2>1. <<{}>> \in ScopeLists
    BY DEF ScopeLists
  <2>. QED
    BY <2>1, ScopeListFacts
<1>4. \A S : <<S>> \o <<>> = <<S>>
  OBVIOUS
<1>. DEFINE Stop == {Root}
            base == [b \in QueryNodes |-> <<Sources(b)>>]
            next == [b \in QueryNodes |-> q[b].up]
<1>5. \A b \in QueryNodes : b \in Stop => base[b] \in ScopeLists
  <2>1. \A b : <<Sources(b)>> \in ScopeLists
    BY <1>2, <1>3, <1>4
  <2>. QED
    BY <2>1
<1>6. \A b \in QueryNodes : b \notin Stop => next[b] \in QueryNodes /\ next[b] < b
  BY <1>1
<1>7. \A b \in QueryNodes :
        /\ Chain[b] \in ScopeLists
        /\ Chain[b] = <<Sources(b)>> \o IF b = Root THEN <<>> ELSE Outer(b, Chain[q[b].up])
  <2>. DEFINE step == [b \in QueryNodes |-> [v \in ScopeLists |-> <<Sources(b)>> \o Outer(b, v)]]
              Body(f) == [b \in QueryNodes |->
                            IF b = Root THEN <<Sources(b)>>
                            ELSE LET outer == f[q[b].up]
                                 IN  <<Sources(b)>>
                                       \o CASE q[b].place = "cte"  -> Tail(outer)
                                            [] q[b].place = "from" -> <<{n \in outer[1] : n < b}>> \o Tail(outer)
                                            [] OTHER               -> outer]
  <2>1. ASSUME NEW b \in QueryNodes PROVE step[b] \in [ScopeLists -> ScopeLists]
    <3>1. \A v \in ScopeLists : <<Sources(b)>> \o Outer(b, v) \in ScopeLists
      BY <1>2, <1>3, OuterFacts
    <3>. QED
      BY <3>1
  <2>2. PICK f : Solves(f, QueryNodes, ScopeLists, Stop, base, next, step)
    <3>. HIDE DEF Stop, base, next, step
    <3>. QED
      BY <1>1, <1>5, <1>6, <2>1, ChainRecursion
  <2>3. \A b \in QueryNodes : f[b] = IF b = Root THEN <<Sources(b)>> ELSE <<Sources(b)>> \o Outer(b, f[q[b].up])
    BY <1>1, <2>2 DEF Solves
  <2>4. \A g, b : b \in QueryNodes =>
          Body(g)[b] = IF b = Root THEN <<Sources(b)>> ELSE <<Sources(b)>> \o Outer(b, g[q[b].up])
    BY DEF Outer
  <2>5. f = Body(f)
    <3>1. \A b \in QueryNodes : f[b] = Body(f)[b]
      BY <2>3, <2>4
    <3>2. DOMAIN f = QueryNodes /\ f = [b \in QueryNodes |-> f[b]]
      BY <2>2 DEF Solves
    <3>. QED
      BY <3>1, <3>2
  <2>. DEFINE g == Chain
  <2>6. g = Body(g)
    BY <2>5 DEF Chain
  <2>. HIDE DEF g
  <2>7. \A b \in QueryNodes : g[b] = IF b = Root THEN <<Sources(b)>> ELSE <<Sources(b)>> \o Outer(b, g[q[b].up])
    <3>1. \A b : Body(g)[b] = g[b]
      BY <2>6
    <3>. HIDE DEF Body
    <3>. QED
      BY <2>4, <3>1
  <2>8. QueryNodes \subseteq {b \in QueryNodes : g[b] \in ScopeLists}
    <3>. DEFINE Fine == {b \in QueryNodes : g[b] \in ScopeLists}
    <3>1. ASSUME NEW b \in QueryNodes, \A m \in QueryNodes : m < b => m \in Fine
          PROVE  b \in Fine
      <4>1. b # Root => Outer(b, g[q[b].up]) \in Seq(SUBSET Nodes)
        BY <1>1, <3>1, OuterFacts
      <4>. QED
        BY <1>2, <1>3, <1>4, <2>7, <4>1
    <3>. HIDE DEF Fine
    <3>2. QueryNodes \subseteq Fine
      BY <1>1, <3>1, SmallerFirst
    <3>. QED
      BY <3>2 DEF Fine
  <2>. QED
    BY <1>4, <2>7, <2>8 DEF g
<1>8. \A b \in QueryNodes :
        /\ SqlChain[b] \in ScopeLists
        /\ SqlChain[b] = <<Sources(b)>> \o IF b = Root THEN <<>> ELSE SqlOuter(b, SqlChain[q[b].up])
  <2>. DEFINE step == [b \in QueryNodes |-> [v \in ScopeLists |-> <<Sources(b)>> \o SqlOuter(b, v)]]
              Body(f) == [b \in QueryNodes |->
                            <<Sources(b)>>
                              \o IF b = Root THEN <<>>
                                 ELSE CASE q[b].place = "cte"  -> Tail(f[q[b].up])
                                        [] q[b].place = "from" -> <<{}>> \o Tail(f[q[b].up])
                                        [] OTHER               -> f[q[b].up]]
  <2>1. ASSUME NEW b \in QueryNodes PROVE step[b] \in [ScopeLists -> ScopeLists]
    <3>1. \A v \in ScopeLists : <<Sources(b)>> \o SqlOuter(b, v) \in ScopeLists
      BY <1>2, <1>3, OuterFacts
    <3>. QED
      BY <3>1
  <2>2. PICK f : Solves(f, QueryNodes, ScopeLists, Stop, base, next, step)
    <3>. HIDE DEF Stop, base, next, step
    <3>. QED
      BY <1>1, <1>5, <1>6, <2>1, ChainRecursion
  <2>3. \A b \in QueryNodes : f[b] = IF b = Root THEN <<Sources(b)>> ELSE <<Sources(b)>> \o SqlOuter(b, f[q[b].up])
    BY <1>1, <2>2 DEF Solves
  <2>4. \A g, b : b \in QueryNodes =>
          Body(g)[b] = <<Sources(b)>> \o IF b = Root THEN <<>> ELSE SqlOuter(b, g[q[b].up])
    BY DEF SqlOuter
  <2>5. f = Body(f)
    <3>1. \A b \in QueryNodes : f[b] = Body(f)[b]
      BY <1>4, <2>3, <2>4, ZenonT(30)
    <3>2. DOMAIN f = QueryNodes /\ f = [b \in QueryNodes |-> f[b]]
      BY <2>2 DEF Solves
    <3>. QED
      BY <3>1, <3>2
  <2>. DEFINE g == SqlChain
  <2>6. g = Body(g)
    BY <2>5 DEF SqlChain
  <2>. HIDE DEF g
  <2>7. \A b \in QueryNodes : g[b] = <<Sources(b)>> \o IF b = Root THEN <<>> ELSE SqlOuter(b, g[q[b].up])
    <3>1. \A b : Body(g)[b] = g[b]
      BY <2>6
    <3>. HIDE DEF Body
    <3>. QED
      BY <2>4, <3>1
  <2>8. QueryNodes \subseteq {b \in QueryNodes : g[b] \in ScopeLists}
    <3>. DEFINE Fine == {b \in QueryNodes : g[b] \in ScopeLists}
    <3>1. ASSUME NEW b \in QueryNodes, \A m \in QueryNodes : m < b => m \in Fine
          PROVE  b \in Fine
      <4>1. b # Root => SqlOuter(b, g[q[b].up]) \in Seq(SUBSET Nodes)
        BY <1>1, <3>1, OuterFacts
      <4>. QED
        BY <1>2, <1>3, <2>7, <4>1
    <3>. HIDE DEF Fine
    <3>2. QueryNodes \subseteq Fine
      BY <1>1, <3>1, SmallerFirst
    <3>. QED
      BY <3>2 DEF Fine
  <2>. QED
    BY <2>7, <2>8 DEF g
<1>. QED
  BY <1>7, <1>8

(* Beyond its own sources, a query sees those before the one it is in, or    *)
(* all of a query that it is a part of.                                      *)
Visible(n, b) ==
  \E v \in Above[b] \ {Root} :
    /\ q[v].place # "cte" /\ n \in Sources(q[v].up)
    /\ q[v].place = "from" => n < v

LEMMA ChainFacts ==
  ASSUME q \in Statements
  PROVE  \A b \in QueryNodes :
           /\ DOMAIN SqlChain[b] = DOMAIN Chain[b] /\ DOMAIN Chain[b] \in SUBSET Nat /\ 1 \in DOMAIN Chain[b]
           /\ DOMAIN Chain[b] = 1 .. Len(Chain[b]) /\ Len(Chain[b]) \in Nat
           /\ Chain[b][1] = Sources(b) /\ SqlChain[b][1] = Sources(b)
           /\ \A i \in DOMAIN Chain[b] : SqlChain[b][i] \in {Chain[b][i], {}} /\ Chain[b][i] \subseteq Nodes
           /\ \A i \in DOMAIN Chain[b] : \A n \in Chain[b][i] : i = 1 \/ Visible(n, b)
<1>. DEFINE Like(v, w) ==
              /\ Len(w) = Len(v)
              /\ \A i \in 1 .. Len(v) : w[i] \in {v[i], {}}
            Seen(v, b) == \A i \in 2 .. Len(v) : \A n \in v[i] : Visible(n, b)
            Good(b) == /\ Chain[b][1] = Sources(b) /\ SqlChain[b][1] = Sources(b)
                       /\ Like(Chain[b], SqlChain[b]) /\ Seen(Chain[b], b)
            Fine == {b \in QueryNodes : Good(b)}
<1>1. /\ QueryNodes \in SUBSET Nat /\ QueryNodes \subseteq Nodes
      /\ \A b \in QueryNodes \ {Root} : q[b].up \in QueryNodes /\ q[b].up < b
  BY StatementFacts DEF QueryNodes
<1>2. \A b : Sources(b) \in SUBSET Nodes
  BY DEF Sources, Kids
<1>3. ASSUME NEW b \in QueryNodes, \A m \in QueryNodes : m < b => m \in Fine
      PROVE  b \in Fine
  <2>. DEFINE S == Sources(b)
  <2>1. CASE b = Root
    <3>1. Chain[b] = <<S>> \o <<>> /\ SqlChain[b] = <<S>> \o <<>>
      BY <2>1, ChainEquations
    <3>2. Chain[b] = <<S>> /\ SqlChain[b] = <<S>>
      BY <3>1
    <3>. HIDE DEF S
    <3>3. Good(b)
      <4>1. Len(<<S>>) = 1 /\ <<S>>[1] = S
        OBVIOUS
      <4>2. \A i \in 1 .. 1 : i = 1
        OBVIOUS
      <4>3. 2 .. 1 = {}
        OBVIOUS
      <4>. QED
        BY <3>2, <4>1, <4>2, <4>3 DEF S
    <3>. QED
      BY <3>3
  <2>2. CASE b # Root
    <3>. DEFINE u == q[b].up
                v == Chain[u]
                w == SqlChain[u]
                o == Outer(b, v)
                p == SqlOuter(b, w)
    <3>1. u \in QueryNodes /\ u \in Nodes /\ u < b /\ b \in Nodes
      BY <1>1, <2>2
    <3>2. v \in ScopeLists /\ w \in ScopeLists /\ Chain[b] = <<S>> \o o /\ SqlChain[b] = <<S>> \o p
      BY <2>2, <3>1, ChainEquations
    <3>3. Good(u)
      BY <1>3, <3>1
    <3>4. Above[u] \subseteq Above[b] /\ b \in Above[b]
      BY <2>2, <3>1, AboveFacts
    <3>5. \A n : Visible(n, u) => Visible(n, b)
      BY <3>4 DEF Visible
    <3>6. \A n \in Sources(u) : q[b].place # "cte" /\ (q[b].place = "from" => n < b) => Visible(n, b)
      BY <2>2, <3>4 DEF Visible
    <3>. HIDE DEF u, v, w
    <3>7. /\ Len(v) \in Nat /\ Len(v) # 0 /\ Len(w) = Len(v)
          /\ Tail(v) \in Seq(SUBSET Nodes) /\ Len(Tail(v)) = Len(v) - 1
          /\ \A i \in 1 .. Len(v) - 1 : Tail(v)[i] = v[i + 1]
          /\ Tail(w) \in Seq(SUBSET Nodes) /\ Len(Tail(w)) = Len(v) - 1
          /\ \A i \in 1 .. Len(v) - 1 : Tail(w)[i] = w[i + 1]
          /\ v[1] \in SUBSET Nodes
      <4>1. <<>> \in Seq(SUBSET Nodes) /\ {} \in SUBSET Nodes
        OBVIOUS
      <4>2. Len(w) = Len(v)
        BY <3>3 DEF v, w, u
      <4>. QED
        BY <3>2, <4>1, <4>2, ScopeListFacts
    <3>8. /\ o \in Seq(SUBSET Nodes) /\ p \in Seq(SUBSET Nodes) /\ Like(o, p)
          /\ \A i \in 1 .. Len(o) : \A n \in o[i] : Visible(n, b)
      <4>1. o \in Seq(SUBSET Nodes) /\ p \in Seq(SUBSET Nodes)
        BY <3>2, OuterFacts
      <4>2. Like(v, w) /\ Seen(v, b) /\ v[1] = Sources(u)
        BY <3>3, <3>5 DEF v, w, u
      <4>3. CASE q[b].place = "cte"
        <5>1. o = Tail(v) /\ p = Tail(w)
          BY <4>3 DEF Outer, SqlOuter
        <5>2. \A i \in 1 .. Len(v) - 1 : i + 1 \in 2 .. Len(v) /\ i + 1 \in 1 .. Len(v)
          BY <3>7
        <5>. QED
          BY <3>7, <4>1, <4>2, <5>1, <5>2
      <4>4. CASE q[b].place = "from"
        <5>. DEFINE near == {n \in v[1] : n < b}
        <5>1. o = <<near>> \o Tail(v) /\ p = <<{}>> \o Tail(w)
          BY <4>4 DEF Outer, SqlOuter
        <5>2. near \in SUBSET Nodes /\ {} \in SUBSET Nodes
          BY <3>7
        <5>3. \A n \in near : Visible(n, b)
          BY <3>6, <4>2, <4>4
        <5>. HIDE DEF near, o, p
        <5>4. /\ Len(o) = Len(v) /\ o[1] = near /\ \A i \in 2 .. Len(v) : o[i] = Tail(v)[i - 1]
              /\ Len(p) = Len(v) /\ p[1] = {} /\ \A i \in 2 .. Len(v) : p[i] = Tail(w)[i - 1]
          <6>1. /\ Len(o) = Len(Tail(v)) + 1 /\ o[1] = near
                /\ \A i \in 2 .. Len(Tail(v)) + 1 : o[i] = Tail(v)[i - 1]
            BY <3>2, <3>7, <5>1, <5>2, ScopeListFacts
          <6>2. /\ Len(p) = Len(Tail(w)) + 1 /\ p[1] = {}
                /\ \A i \in 2 .. Len(Tail(w)) + 1 : p[i] = Tail(w)[i - 1]
            BY <3>2, <3>7, <5>1, <5>2, ScopeListFacts
          <6>3. (Len(v) - 1) + 1 = Len(v)
            BY <3>7
          <6>. QED
            BY <3>7, <6>1, <6>2, <6>3
        <5>5. \A i \in 2 .. Len(v) : o[i] = v[i] /\ p[i] = w[i]
          <6>1. \A i \in 2 .. Len(v) : i - 1 \in 1 .. Len(v) - 1 /\ (i - 1) + 1 = i
            BY <3>7
          <6>. QED
            BY <3>7, <5>4, <6>1
        <5>6. \A i \in 1 .. Len(v) : i = 1 \/ i \in 2 .. Len(v)
          BY <3>7
        <5>. QED
          BY <4>1, <4>2, <5>3, <5>4, <5>5, <5>6 DEF o, p
      <4>5. CASE q[b].place \notin {"cte", "from"}
        <5>1. o = v /\ p = w
          BY <4>5 DEF Outer, SqlOuter
        <5>2. \A n \in v[1] : Visible(n, b)
          BY <3>6, <4>2, <4>5
        <5>3. \A i \in 1 .. Len(v) : i = 1 \/ i \in 2 .. Len(v)
          BY <3>7
        <5>. QED
          BY <4>1, <4>2, <5>1, <5>2, <5>3
      <4>. QED
        BY <4>3, <4>4, <4>5
    <3>. HIDE DEF o, p
    <3>9. /\ Len(<<S>> \o o) = Len(o) + 1 /\ (<<S>> \o o)[1] = S
          /\ \A i \in 2 .. Len(o) + 1 : (<<S>> \o o)[i] = o[i - 1]
          /\ Len(<<S>> \o p) = Len(o) + 1 /\ (<<S>> \o p)[1] = S
          /\ \A i \in 2 .. Len(o) + 1 : (<<S>> \o p)[i] = p[i - 1]
      <4>1. S \in SUBSET Nodes /\ Len(p) = Len(o)
        BY <1>2, <3>8
      <4>. QED
        BY <3>2, <3>8, <4>1, ScopeListFacts
    <3>10. Len(o) \in Nat /\ \A i \in 2 .. Len(o) + 1 : i - 1 \in 1 .. Len(o)
      <4>1. Len(o) \in Nat
        BY <3>8
      <4>. QED
        BY <4>1
    <3>11. \A i \in 1 .. Len(o) + 1 : i = 1 \/ i \in 2 .. Len(o) + 1
      BY <3>10
    <3>. DEFINE c == <<S>> \o o
                d == <<S>> \o p
    <3>. HIDE DEF c, d
    <3>12. Like(c, d)
      <4>1. Len(d) = Len(c) /\ Len(c) = Len(o) + 1
        BY <3>9 DEF c, d
      <4>2. ASSUME NEW i \in 1 .. Len(o) + 1 PROVE d[i] \in {c[i], {}}
        <5>1. CASE i = 1
          BY <3>9, <5>1 DEF c, d
        <5>2. CASE i \in 2 .. Len(o) + 1
          <6>1. c[i] = o[i - 1] /\ d[i] = p[i - 1] /\ i - 1 \in 1 .. Len(o)
            BY <3>9, <3>10, <5>2 DEF c, d
          <6>. QED
            BY <3>8, <6>1
        <5>. QED
          BY <3>11, <5>1, <5>2
      <4>. QED
        BY <4>1, <4>2
    <3>13. Seen(c, b)
      <4>1. \A i \in 2 .. Len(o) + 1 : c[i] = o[i - 1]
        BY <3>9 DEF c
      <4>2. Len(c) = Len(o) + 1
        BY <3>9 DEF c
      <4>. QED
        BY <3>8, <3>10, <4>1, <4>2
    <3>14. c[1] = S /\ d[1] = S
      BY <3>9 DEF c, d
    <3>15. Chain[b] = c /\ SqlChain[b] = d
      BY <3>2 DEF c, d
    <3>. HIDE DEF Like, Seen
    <3>16. Good(b)
      BY <3>12, <3>13, <3>14, <3>15
    <3>. QED
      BY <3>16
  <2>. QED
    BY <2>1, <2>2
<1>. HIDE DEF Good
<1>4. QueryNodes \subseteq Fine
  <2>. HIDE DEF Fine
  <2>. QED
    BY <1>1, <1>3, SmallerFirst
<1>5. ASSUME NEW b \in QueryNodes
      PROVE  /\ DOMAIN SqlChain[b] = 1 .. Len(Chain[b]) /\ DOMAIN Chain[b] = 1 .. Len(Chain[b])
             /\ Len(Chain[b]) \in Nat /\ 1 \in DOMAIN Chain[b] /\ DOMAIN Chain[b] \in SUBSET Nat
             /\ \A i \in DOMAIN Chain[b] : Chain[b][i] \subseteq Nodes
             /\ \A i \in DOMAIN Chain[b] : i = 1 \/ i \in 2 .. Len(Chain[b])
  <2>1. Chain[b] \in ScopeLists /\ SqlChain[b] \in ScopeLists
    BY ChainEquations
  <2>2. Len(SqlChain[b]) = Len(Chain[b])
    BY <1>4 DEF Good
  <2>. DEFINE v == Chain[b]
              w == SqlChain[b]
  <2>. HIDE DEF v, w
  <2>3. v \in Seq(SUBSET Nodes) /\ v # <<>> /\ w \in Seq(SUBSET Nodes) /\ Len(w) = Len(v)
    BY <2>1, <2>2 DEF ScopeLists, v, w
  <2>4. Len(v) \in Nat /\ Len(v) # 0 /\ DOMAIN v = 1 .. Len(v) /\ DOMAIN w = 1 .. Len(v)
    BY <2>3, EmptySeq
  <2>5. \A i \in DOMAIN v : v[i] \subseteq Nodes
    BY <2>3
  <2>. QED
    BY <2>4, <2>5 DEF v, w
<1>. QED
  BY <1>4, <1>5 DEF Good

-----------------------------------------------------------------------------
(* What SQL makes of a statement stays as it is.                             *)

LEMMA ScopesStay ==
  ASSUME q' = q
  PROVE  /\ Above' = Above /\ Chain' = Chain /\ SqlChain' = SqlChain
         /\ \A n, qualifier : Bears(n, qualifier)' = Bears(n, qualifier)
         /\ \A scope, qualifier : WithAlias(scope, qualifier)' = WithAlias(scope, qualifier)
         /\ \A scope, qualifier : Matching(scope, qualifier)' = Matching(scope, qualifier)
         /\ \A b, n : Visible(n, b)' = Visible(n, b) /\ Within(n, b)' = Within(n, b)
         /\ \A c : Reached(c)' = Reached(c)
         /\ MutuallyRecursive' = MutuallyRecursive
<1>1. /\ Nodes' = Nodes /\ QueryNodes' = QueryNodes
      /\ \A b : Sources(b)' = Sources(b)
      /\ \A n : CteOf(n)' = CteOf(n) /\ IsPhysical(n)' = IsPhysical(n)
  BY StatementStays
<1>2. Above' = Above
  BY <1>1 DEF Above
<1>3. Chain' = Chain
  BY <1>1, ZenonT(30) DEF Chain
<1>4. SqlChain' = SqlChain
  BY <1>1, ZenonT(30) DEF SqlChain
<1>5. \A n : Alias(n)' = Alias(n)
  BY DEF Alias, BaseName
<1>6. \A n, qualifier : Bears(n, qualifier)' = Bears(n, qualifier)
  BY <1>5 DEF Bears
<1>7. \A scope, qualifier : WithAlias(scope, qualifier)' = WithAlias(scope, qualifier)
  BY <1>5 DEF WithAlias
<1>8. \A scope, qualifier : Matching(scope, qualifier)' = Matching(scope, qualifier)
  BY <1>1 DEF Matching
<1>9. \A b, n : Visible(n, b)' = Visible(n, b) /\ Within(n, b)' = Within(n, b)
  BY <1>1, <1>2 DEF Visible, Within
<1>10. \A c : Reached(c)' = Reached(c)
  BY <1>1, <1>2 DEF Reached
<1>11. MutuallyRecursive' = MutuallyRecursive
  BY <1>1, <1>2, <1>10 DEF MutuallyRecursive
<1>. QED
  BY <1>2, <1>3, <1>4, <1>6, <1>7, <1>8, <1>9, <1>10, <1>11

(* The items of a list, a table and a set operation as columns.              *)
ItemCols(n, cols) ==
  [i \in DOMAIN q[n].items |->
     IF q[n].items[i].column = Star
       THEN StarIn(n, q[n].items[i].qualifier, cols)
       ELSE <<Col(q[n].items[i].name, ItemRoots(n, q[n].items[i], cols))>>]

TableCols(n) ==
  [i \in DOMAIN Actual[q[n].name] |-> Col(Actual[q[n].name][i], {Ref(q[n].name, Actual[q[n].name][i])})]

Branches(n, cols) == [i \in 1 .. 2 |-> cols[InOrder(Kids(n, "branch"))[i]]]

UnionCols(branch, right) ==
  [i \in DOMAIN branch[1] |->
     Col(branch[1][i].name, branch[1][i].roots \union IF i \in DOMAIN branch[2] /\ right THEN branch[2][i].roots ELSE {})]

NextCols(before, both) == [n \in Nodes |-> Renamed(Selected(n, before, both), q[n].cols)]

SelectedCases(n, cols, both) ==
  /\ IsTable(n) => Selected(n, cols, both) = TableCols(n)
  /\ q[n].kind = "table" /\ ~IsTable(n) => Selected(n, cols, both) = cols[CHOOSE c \in DenotedCte(n) : TRUE]
  /\ q[n].kind = "select" \/ IsDML(n) => Selected(n, cols, both) = FlattenSeq(ItemCols(n, cols))
  /\ q[n].kind = "setop" => Selected(n, cols, both) = UnionCols(Branches(n, cols), both \/ q[n].union)

LEMMA SelectedFacts == \A n, cols, both : SelectedCases(n, cols, both)
<1>. SUFFICES ASSUME NEW n, NEW cols, NEW both PROVE SelectedCases(n, cols, both)
  OBVIOUS
<1>1. ASSUME IsTable(n) PROVE Selected(n, cols, both) = TableCols(n)
  <2>1. q[n].kind = "table" /\ ~IsDML(n)
    BY <1>1 DEF IsTable, IsDML, DMLKinds
  <2>. QED
    BY <1>1, <2>1 DEF Selected, TableCols
<1>2. ASSUME q[n].kind = "table", ~IsTable(n)
      PROVE  Selected(n, cols, both) = cols[CHOOSE c \in DenotedCte(n) : TRUE]
  <2>1. ~IsDML(n)
    BY <1>2 DEF IsDML, DMLKinds
  <2>. QED
    BY <1>2, <2>1 DEF Selected
<1>3. ASSUME q[n].kind = "select" \/ IsDML(n)
      PROVE  Selected(n, cols, both) = FlattenSeq(ItemCols(n, cols))
  <2>1. q[n].kind \notin {"table", "setop"} /\ ~IsTable(n)
    BY <1>3 DEF IsTable, IsDML, DMLKinds
  <2>. QED
    BY <1>3, <2>1 DEF Selected, ItemCols
<1>4. ASSUME q[n].kind = "setop"
      PROVE  Selected(n, cols, both) = UnionCols(Branches(n, cols), both \/ q[n].union)
  <2>1. ~IsTable(n) /\ ~IsDML(n)
    BY <1>4 DEF IsTable, IsDML, DMLKinds
  <2>. QED
    BY <1>4, <2>1 DEF Selected, UnionCols, Branches
<1>. QED
  BY <1>1, <1>2, <1>3, <1>4 DEF SelectedCases

-----------------------------------------------------------------------------
(* Columns that rest on the tables of some nodes.                            *)

RootsOver(R) == [table : {q[m].name : m \in {n \in R : IsTable(n)}}, column : STRING \ {Star, NoName}]

ColumnsOver(R) == [name : STRING \ {Star}, roots : SUBSET RootsOver(R)]

(* What the columns of nodes of R depend on is in R.                         *)
ClosedUnder(R) ==
  /\ R \in SUBSET Nodes
  /\ \A n \in R : q[n].kind = "table" /\ ~IsTable(n) => (CHOOSE c \in DenotedCte(n) : TRUE) \in R
  /\ \A b \in R : Kids(b, "branch") \union Kids(b, "list") \subseteq R
  /\ \A b \in R \intersect QueryNodes : \A i \in DOMAIN SqlChain[b] : SqlChain[b][i] \subseteq R

LEMMA ListFacts ==
  ASSUME q \in Statements, NEW n \in Nodes
  PROVE  /\ Len(q[n].items) \in Nat /\ DOMAIN q[n].items = 1 .. Len(q[n].items)
         /\ \A i \in DOMAIN q[n].items :
              /\ q[n].items[i].qualifier \in Seq(STRING) /\ q[n].items[i].column \in STRING
              /\ q[n].items[i].name \in STRING \ {Star} /\ NoName \notin ToSet(q[n].items[i].qualifier)
              /\ q[n].items[i] \in ToSet(q[n].items)
              /\ q[n].items[i].column = Star => Len(q[n].items[i].qualifier) <= 1
         /\ \A item \in ToSet(q[n].items) : \E i \in DOMAIN q[n].items : item = q[n].items[i]
         /\ q[n].cols \in Seq(STRING \ {Star, NoName}) /\ q[n].union \in BOOLEAN
<1>1. q[n] \in ParsedNodes
  <2>1. q \in Seq(ParsedNodes)
    BY StatementsAssumption
  <2>. QED
    BY <2>1 DEF Nodes
<1>. DEFINE items == q[n].items
            parsed == [qualifier : Seq(STRING), column : STRING, name : STRING]
<1>2. items \in Seq(parsed) /\ q[n].cols \in Seq(STRING) /\ q[n].union \in BOOLEAN
  BY <1>1 DEF ParsedNodes
<1>3. ToSet(items) = {items[i] : i \in DOMAIN items}
  BY DEF ToSet
<1>4. NamedWell(q, n)
  BY StatementFacts
<1>5. \A item \in ToSet(items) : /\ item.name # Star /\ NoName \notin ToSet(item.qualifier)
                                 /\ item.column = Star => Len(item.qualifier) <= 1
  BY <1>4 DEF NamedWell
<1>6. Len(items) \in Nat /\ DOMAIN items = 1 .. Len(items) /\ \A i \in DOMAIN items : items[i] \in parsed /\ items[i] \in ToSet(items)
  <2>. HIDE DEF items, parsed
  <2>1. Len(items) \in Nat /\ DOMAIN items = 1 .. Len(items) /\ \A i \in 1 .. Len(items) : items[i] \in parsed
    BY <1>2
  <2>. QED
    BY <1>3, <2>1
<1>7. q[n].cols \in Seq(STRING \ {Star, NoName})
  <2>. DEFINE names == q[n].cols
  <2>1. {Star, NoName} \intersect ToSet(names) = {} /\ names \in Seq(STRING)
    BY <1>2, <1>4 DEF NamedWell
  <2>2. \A i \in 1 .. Len(names) : names[i] \in ToSet(names) /\ names[i] \in STRING
    BY <2>1 DEF ToSet
  <2>. HIDE DEF names
  <2>3. \A i \in 1 .. Len(names) : names[i] \in STRING \ {Star, NoName}
    BY <2>1, <2>2
  <2>4. Len(names) \in Nat /\ names = [i \in 1 .. Len(names) |-> names[i]]
    BY <2>1
  <2>5. names \in Seq(STRING \ {Star, NoName})
    BY <2>3, <2>4
  <2>. QED
    BY <2>5 DEF names
<1>8. \A i \in DOMAIN items : items[i].qualifier \in Seq(STRING) /\ items[i].column \in STRING /\ items[i].name \in STRING
  BY <1>6
<1>. QED
  BY <1>2, <1>3, <1>5, <1>6, <1>7, <1>8

LEMMA TableColsTyped ==
  ASSUME NEW R, NEW n \in R, IsTable(n), q[n].name \in DOMAIN Actual
  PROVE  TableCols(n) \in Seq(ColumnsOver(R))
<1>. DEFINE actual == Actual[q[n].name]
            name == q[n].name
<1>1. actual \in Seq(STRING \ {Star, NoName}) /\ name \in {q[m].name : m \in {m \in R : IsTable(m)}}
  BY NamesAssumption
<1>2. TableCols(n) = [i \in DOMAIN actual |-> Col(actual[i], {Ref(name, actual[i])})]
  BY DEF TableCols
<1>3. Len(actual) \in Nat /\ DOMAIN actual = 1 .. Len(actual) /\ \A i \in DOMAIN actual : actual[i] \in STRING \ {Star, NoName}
  BY <1>1
<1>. HIDE DEF actual, name
<1>4. \A i \in DOMAIN actual : Ref(name, actual[i]) \in RootsOver(R)
  BY <1>1, <1>3 DEF Ref, RootsOver
<1>5. \A i \in DOMAIN actual : Col(actual[i], {Ref(name, actual[i])}) \in ColumnsOver(R)
  BY <1>3, <1>4 DEF Col, ColumnsOver
<1>. DEFINE c(i) == Col(actual[i], {Ref(name, actual[i])})
<1>6. [i \in 1 .. Len(actual) |-> c(i)] \in Seq(ColumnsOver(R))
  <2>1. \A i \in 1 .. Len(actual) : c(i) \in ColumnsOver(R)
    BY <1>3, <1>5
  <2>. HIDE DEF c
  <2>. QED
    BY <1>3, <2>1
<1>. QED
  BY <1>2, <1>3, <1>6

(* The scope at a place is the innermost that some of what is picked is in.  *)
NearestAt(chain, picked, at) ==
  /\ at \in DOMAIN chain /\ chain[at] \intersect picked # {}
  /\ \A i \in DOMAIN chain : i < at => chain[i] \intersect picked = {}
  /\ at = Min({i \in DOMAIN chain : chain[i] \intersect picked # {}})
  /\ Nearest(chain, picked) = chain[at] \intersect picked

LEMMA NearestFacts ==
  ASSUME NEW chain, DOMAIN chain \in SUBSET Nat, NEW picked
  PROVE  IF \A i \in DOMAIN chain : chain[i] \intersect picked = {}
           THEN Nearest(chain, picked) = {} ELSE \E at : NearestAt(chain, picked, at)
<1>. DEFINE hits == {i \in DOMAIN chain : chain[i] \intersect picked # {}}
<1>1. Nearest(chain, picked) = IF hits = {} THEN {} ELSE chain[Min(hits)] \intersect picked
  BY DEF Nearest
<1>2. CASE hits = {}
  BY <1>1, <1>2
<1>3. CASE hits # {}
  <2>1. hits \in SUBSET Nat
    OBVIOUS
  <2>. HIDE DEF hits
  <2>2. Min(hits) \in hits /\ \A i \in hits : Min(hits) <= i
    BY <1>3, <2>1, MinFacts
  <2>3. \A i \in DOMAIN chain : i < Min(hits) => chain[i] \intersect picked = {}
    BY <2>1, <2>2 DEF hits
  <2>. QED
    BY <1>1, <1>3, <2>2, <2>3 DEF hits, NearestAt
<1>. QED
  BY <1>2, <1>3

(* The place that a reference means is one of a column of a relation that b  *)
(* sees.                                                                     *)
LEMMA MeantFacts ==
  ASSUME q \in Statements, NEW b \in QueryNodes, NEW ref, NEW cols, NEW m \in Meant(b, ref, cols)
  PROVE  /\ \E i \in DOMAIN SqlChain[b] : m[1] \in SqlChain[b][i]
         /\ m[1] \in Nodes /\ m[2] \in Named(cols[m[1]], ref.column) /\ m[2] \in DOMAIN cols[m[1]]
         /\ m[1] \in Only(Nearest(SqlChain[b], Bearers(ref, cols))) /\ Nearest(SqlChain[b], Bearers(ref, cols)) = {m[1]}
<1>1. PICK n \in Only(Nearest(SqlChain[b], Bearers(ref, cols))) : m \in {n} \X Named(cols[n], ref.column)
  BY DEF Meant
<1>2. m[1] = n /\ m[2] \in Named(cols[n], ref.column)
  BY <1>1
<1>3. Nearest(SqlChain[b], Bearers(ref, cols)) = {n}
  BY DEF Only, Single
<1>4. \E i \in DOMAIN SqlChain[b] : n \in SqlChain[b][i]
  <2>1. DOMAIN SqlChain[b] \in SUBSET Nat
    BY ChainFacts
  <2>2. n \in Nearest(SqlChain[b], Bearers(ref, cols))
    BY <1>3
  <2>. DEFINE chain == SqlChain[b]
              picked == Bearers(ref, cols)
  <2>. HIDE DEF chain, picked
  <2>3. n \in Nearest(chain, picked) /\ DOMAIN chain \in SUBSET Nat
    BY <2>1, <2>2 DEF chain, picked
  <2>4. \E i \in DOMAIN chain : n \in chain[i]
    <3>1. IF \A i \in DOMAIN chain : chain[i] \intersect picked = {}
            THEN Nearest(chain, picked) = {} ELSE \E at : NearestAt(chain, picked, at)
      BY <2>3, NearestFacts
    <3>2. PICK at : NearestAt(chain, picked, at)
      BY <2>3, <3>1
    <3>. QED
      BY <2>3, <3>2 DEF NearestAt
  <2>. QED
    BY <2>4 DEF chain
<1>5. n \in Nodes
  BY <1>4, ChainFacts
<1>. QED
  BY <1>1, <1>2, <1>3, <1>4, <1>5 DEF Named

LEMMA FiniteNodes ==
  ASSUME q \in Statements, NEW S \in SUBSET Nodes
  PROVE  IsFiniteSet(S) /\ S \in SUBSET Nat
<1>1. IsFiniteSet(Nodes) /\ Nodes \in SUBSET Nat
  BY StatementFacts, FS_Interval
<1>. QED
  BY <1>1, FS_Subset

LEMMA StarredFacts ==
  ASSUME q \in Statements, NEW b \in QueryNodes, NEW qualifier
  PROVE  /\ \A n \in Starred(b, qualifier) : \E i \in DOMAIN SqlChain[b] : n \in SqlChain[b][i]
         /\ Starred(b, qualifier) \in SUBSET Nodes
<1>1. /\ DOMAIN SqlChain[b] \in SUBSET Nat /\ 1 \in DOMAIN SqlChain[b] /\ SqlChain[b][1] = Sources(b)
      /\ \A i \in DOMAIN SqlChain[b] : SqlChain[b][i] \subseteq Nodes
  BY ChainFacts
<1>2. ASSUME NEW n \in Starred(b, qualifier)
      PROVE  \E i \in DOMAIN SqlChain[b] : n \in SqlChain[b][i]
  <2>1. CASE qualifier = <<>>
    BY <1>1, <2>1 DEF Starred
  <2>2. CASE qualifier # <<>>
    <3>. DEFINE chain == SqlChain[b]
                picked == {m \in Nodes : Bears(m, qualifier)}
    <3>1. n \in Nearest(chain, picked)
      BY <2>2 DEF Starred
    <3>. HIDE DEF chain, picked
    <3>2. DOMAIN chain \in SUBSET Nat
      BY <1>1 DEF chain
    <3>3. IF \A i \in DOMAIN chain : chain[i] \intersect picked = {}
            THEN Nearest(chain, picked) = {} ELSE \E at : NearestAt(chain, picked, at)
      BY <3>2, NearestFacts
    <3>4. PICK at : NearestAt(chain, picked, at)
      BY <3>1, <3>3
    <3>. QED
      BY <3>1, <3>4 DEF NearestAt, chain
  <2>. QED
    BY <2>1, <2>2
<1>. QED
  BY <1>1, <1>2

(* All columns of nodes of R are over R.                                     *)
Over(cols, R) == \A n \in R : cols[n] \in Seq(ColumnsOver(R))

LEMMA ColumnFacts ==
  ASSUME NEW R, NEW cs \in Seq(ColumnsOver(R))
  PROVE  /\ Len(cs) \in Nat /\ DOMAIN cs = 1 .. Len(cs)
         /\ \A i \in DOMAIN cs : /\ cs[i] \in ColumnsOver(R) /\ cs[i].roots \in SUBSET RootsOver(R)
                                 /\ cs[i].name \in STRING \ {Star}
                                 /\ cs[i] = Col(cs[i].name, cs[i].roots)
<1>1. Len(cs) \in Nat /\ DOMAIN cs = 1 .. Len(cs) /\ \A i \in DOMAIN cs : cs[i] \in ColumnsOver(R)
  OBVIOUS
<1>2. \A c \in ColumnsOver(R) : c.roots \in SUBSET RootsOver(R) /\ c.name \in STRING \ {Star} /\ c = Col(c.name, c.roots)
  BY DEF ColumnsOver, Col
<1>. QED
  BY <1>1, <1>2

LEMMA RootsTyped ==
  ASSUME q \in Statements, NEW R, ClosedUnder(R), NEW cols, Over(cols, R),
         NEW b \in R \intersect QueryNodes, NEW ref
  PROVE  Roots(b, ref, cols) \in SUBSET RootsOver(R)
<1>1. ASSUME NEW m \in Meant(b, ref, cols)
      PROVE  cols[m[1]][m[2]].roots \in SUBSET RootsOver(R)
  <2>1. (\E i \in DOMAIN SqlChain[b] : m[1] \in SqlChain[b][i]) /\ m[2] \in DOMAIN cols[m[1]]
    BY <1>1, MeantFacts
  <2>2. m[1] \in R
    BY <2>1 DEF ClosedUnder
  <2>. DEFINE cs == cols[m[1]]
  <2>3. cs \in Seq(ColumnsOver(R)) /\ m[2] \in DOMAIN cs
    BY <2>1, <2>2 DEF Over
  <2>. HIDE DEF cs
  <2>4. cs[m[2]].roots \in SUBSET RootsOver(R)
    BY <2>3, ColumnFacts
  <2>. QED
    BY <2>4 DEF cs
<1>2. \A m \in Only(Meant(b, ref, cols)) : m \in Meant(b, ref, cols)
  BY DEF Only
<1>. QED
  BY <1>1, <1>2 DEF Roots

LEMMA StarTyped ==
  ASSUME q \in Statements, NEW R, ClosedUnder(R), NEW cols, Over(cols, R),
         NEW b \in R \intersect QueryNodes, NEW qualifier
  PROVE  StarIn(b, qualifier, cols) \in Seq(ColumnsOver(R))
<1>. DEFINE found == Starred(b, qualifier)
            k == Cardinality(found)
            pick(i) == cols[InOrder(found)[i]]
            seqs == [i \in 1 .. k |-> pick(i)]
<1>1. found \in SUBSET R /\ found \in SUBSET Nodes
  BY StarredFacts DEF ClosedUnder
<1>. HIDE DEF found
<1>2. IsFiniteSet(found) /\ found \in SUBSET Nat
  BY <1>1, FiniteNodes
<1>3. k \in Nat /\ \A i \in 1 .. k : InOrder(found)[i] \in found
  BY <1>2, InOrderFacts
<1>4. \A i \in 1 .. k : pick(i) \in Seq(ColumnsOver(R))
  BY <1>1, <1>3 DEF Over
<1>5. StarIn(b, qualifier, cols) = FlattenSeq(seqs)
  BY DEF StarIn, found
<1>. HIDE DEF pick, k
<1>6. seqs \in [1 .. k -> Seq(ColumnsOver(R))]
  BY <1>4
<1>. HIDE DEF seqs
<1>. QED
  BY <1>3, <1>5, <1>6, FlattenFacts

LEMMA ItemColsTyped ==
  ASSUME q \in Statements, NEW R, ClosedUnder(R), NEW cols, Over(cols, R), NEW b \in R \intersect QueryNodes
  PROVE  /\ ItemCols(b, cols) \in [1 .. Len(q[b].items) -> Seq(ColumnsOver(R))]
         /\ Len(q[b].items) \in Nat
<1>. DEFINE item(i) == q[b].items[i]
            val(i) == IF item(i).column = Star THEN StarIn(b, item(i).qualifier, cols)
                                               ELSE <<Col(item(i).name, ItemRoots(b, item(i), cols))>>
<1>0. b \in Nodes
  BY DEF QueryNodes
<1>1. /\ Len(q[b].items) \in Nat /\ DOMAIN q[b].items = 1 .. Len(q[b].items)
      /\ \A i \in DOMAIN q[b].items : q[b].items[i].name \in STRING \ {Star}
  BY <1>0, ListFacts
<1>2. ASSUME NEW i \in DOMAIN q[b].items
      PROVE  val(i) \in Seq(ColumnsOver(R))
  <2>1. StarIn(b, item(i).qualifier, cols) \in Seq(ColumnsOver(R))
    BY StarTyped
  <2>2. ItemRoots(b, item(i), cols) \in SUBSET RootsOver(R)
    <3>1. Roots(b, item(i), cols) \in SUBSET RootsOver(R)
      BY RootsTyped
    <3>2. ASSUME NEW k \in Kids(b, "list"), NEW c \in ToSet(cols[k])
          PROVE  c.roots \in SUBSET RootsOver(R)
      <4>1. cols[k] \in Seq(ColumnsOver(R))
        BY DEF ClosedUnder, Over
      <4>. DEFINE cs == cols[k]
      <4>. HIDE DEF cs
      <4>2. PICK j \in DOMAIN cs : c = cs[j]
        BY <3>2 DEF ToSet, cs
      <4>. QED
        BY <4>1, <4>2, ColumnFacts DEF cs
    <3>. QED
      BY <3>1, <3>2 DEF ItemRoots
  <2>3. item(i).name \in STRING \ {Star}
    BY <1>1
  <2>. HIDE DEF item
  <2>4. Col(item(i).name, ItemRoots(b, item(i), cols)) \in ColumnsOver(R)
    BY <2>2, <2>3 DEF Col, ColumnsOver
  <2>. QED
    BY <2>1, <2>4
<1>3. ItemCols(b, cols) = [i \in DOMAIN q[b].items |-> val(i)]
  BY DEF ItemCols
<1>. HIDE DEF val
<1>. QED
  BY <1>1, <1>2, <1>3

LEMMA BranchFacts ==
  ASSUME q \in Statements, NEW b \in Nodes, q[b].kind = "setop"
  PROVE  /\ InOrder(Kids(b, "branch"))[1] \in Kids(b, "branch")
         /\ InOrder(Kids(b, "branch"))[2] \in Kids(b, "branch")
<1>1. Kids(b, "branch") \in SUBSET Nodes /\ Cardinality(Kids(b, "branch")) = 2
  BY StatementFacts DEF Kids
<1>. DEFINE kids == Kids(b, "branch")
<1>. HIDE DEF kids
<1>2. IsFiniteSet(kids) /\ kids \in SUBSET Nat /\ Cardinality(kids) = 2
  BY <1>1, FiniteNodes DEF kids
<1>3. \A i \in 1 .. Cardinality(kids) : InOrder(kids)[i] \in kids
  BY <1>2, InOrderFacts
<1>4. 1 \in 1 .. Cardinality(kids) /\ 2 \in 1 .. Cardinality(kids)
  BY <1>2
<1>5. InOrder(kids)[1] \in kids /\ InOrder(kids)[2] \in kids
  BY <1>3, <1>4
<1>. QED
  BY <1>5 DEF kids

LEMMA UnionColsTyped ==
  ASSUME NEW R, NEW branch, branch[1] \in Seq(ColumnsOver(R)), branch[2] \in Seq(ColumnsOver(R)), NEW right
  PROVE  UnionCols(branch, right) \in Seq(ColumnsOver(R))
<1>. DEFINE left == branch[1]
            other == branch[2]
            more(i) == IF i \in DOMAIN other /\ right THEN other[i].roots ELSE {}
            val(i) == Col(left[i].name, left[i].roots \union more(i))
<1>1. /\ Len(left) \in Nat /\ DOMAIN left = 1 .. Len(left)
      /\ \A i \in DOMAIN left : left[i].roots \in SUBSET RootsOver(R) /\ left[i].name \in STRING \ {Star}
      /\ \A i \in DOMAIN other : other[i].roots \in SUBSET RootsOver(R)
  <2>. HIDE DEF left, other
  <2>1. left \in Seq(ColumnsOver(R)) /\ other \in Seq(ColumnsOver(R))
    BY DEF left, other
  <2>. QED
    BY <2>1, ColumnFacts
<1>2. UnionCols(branch, right) = [i \in 1 .. Len(left) |-> val(i)]
  BY <1>1 DEF UnionCols
<1>. HIDE DEF left, other
<1>3. \A i \in 1 .. Len(left) : more(i) \in SUBSET RootsOver(R)
  BY <1>1
<1>. HIDE DEF more
<1>4. \A i \in 1 .. Len(left) : val(i) \in ColumnsOver(R)
  <2>1. \A i \in 1 .. Len(left) : left[i].roots \union more(i) \in SUBSET RootsOver(R) /\ left[i].name \in STRING \ {Star}
    BY <1>1, <1>3
  <2>. QED
    BY <2>1 DEF Col, ColumnsOver
<1>. HIDE DEF val
<1>5. [i \in 1 .. Len(left) |-> val(i)] \in Seq(ColumnsOver(R))
  BY <1>1, <1>4
<1>. QED
  BY <1>2, <1>5

LEMMA SelectedTyped ==
  ASSUME q \in Statements, TablesExist, NEW R, ClosedUnder(R), NEW cols, Over(cols, R), NEW n \in R, NEW both
  PROVE  Selected(n, cols, both) \in Seq(ColumnsOver(R))
<1>0. n \in Nodes /\ SelectedCases(n, cols, both)
  BY SelectedFacts DEF ClosedUnder
<1>1. CASE IsTable(n)
  <2>1. q[n].name \in DOMAIN Actual
    BY <1>0, <1>1 DEF TablesExist
  <2>. QED
    BY <1>0, <1>1, <2>1, TableColsTyped DEF SelectedCases
<1>2. CASE q[n].kind = "table" /\ ~IsTable(n)
  <2>1. (CHOOSE c \in DenotedCte(n) : TRUE) \in R
    BY <1>2 DEF ClosedUnder
  <2>. QED
    BY <1>0, <1>2, <2>1 DEF SelectedCases, Over
<1>3. CASE q[n].kind = "select" \/ IsDML(n)
  <2>1. n \in QueryNodes
    BY <1>0, <1>3 DEF QueryNodes, IsDML, DMLKinds
  <2>. DEFINE k == Len(q[n].items)
              seqs == ItemCols(n, cols)
  <2>2. k \in Nat /\ seqs \in [1 .. k -> Seq(ColumnsOver(R))]
    BY <2>1, ItemColsTyped
  <2>. HIDE DEF k, seqs
  <2>3. FlattenSeq(seqs) \in Seq(ColumnsOver(R))
    BY <2>2, FlattenFacts
  <2>. QED
    BY <1>0, <1>3, <2>3 DEF SelectedCases, seqs
<1>4. CASE q[n].kind = "setop"
  <2>. DEFINE branch == Branches(n, cols)
  <2>1. branch[1] \in Seq(ColumnsOver(R)) /\ branch[2] \in Seq(ColumnsOver(R))
    <3>1. /\ branch[1] = cols[InOrder(Kids(n, "branch"))[1]]
          /\ branch[2] = cols[InOrder(Kids(n, "branch"))[2]]
      <4>1. 1 \in 1 .. 2 /\ 2 \in 1 .. 2
        OBVIOUS
      <4>. QED
        BY <4>1 DEF Branches
    <3>2. InOrder(Kids(n, "branch"))[1] \in R /\ InOrder(Kids(n, "branch"))[2] \in R
      BY <1>0, <1>4, BranchFacts DEF ClosedUnder
    <3>. QED
      BY <3>1, <3>2 DEF Over
  <2>. HIDE DEF branch
  <2>2. UnionCols(branch, both \/ q[n].union) \in Seq(ColumnsOver(R))
    BY <2>1, UnionColsTyped
  <2>. QED
    BY <1>0, <1>4, <2>2 DEF SelectedCases, branch
<1>5. q[n].kind \in {"table", "select", "setop"} \union DMLKinds
  BY <1>0, StatementFacts
<1>. QED
  BY <1>1, <1>2, <1>3, <1>4, <1>5 DEF IsDML

LEMMA RenamedTyped ==
  ASSUME NEW R, NEW cs \in Seq(ColumnsOver(R)), NEW names \in Seq(STRING \ {Star, NoName})
  PROVE  /\ Renamed(cs, names) \in Seq(ColumnsOver(R))
         /\ DOMAIN Renamed(cs, names) = DOMAIN cs
         /\ \A i \in DOMAIN cs : Renamed(cs, names)[i].roots = cs[i].roots
         /\ names = <<>> => Renamed(cs, names) = cs
<1>. DEFINE name(i) == IF i \in DOMAIN names THEN names[i] ELSE cs[i].name
            val(i) == Col(name(i), cs[i].roots)
<1>1. /\ Len(cs) \in Nat /\ DOMAIN cs = 1 .. Len(cs)
      /\ \A i \in DOMAIN cs : /\ cs[i] \in ColumnsOver(R) /\ cs[i].roots \in SUBSET RootsOver(R)
                              /\ cs[i].name \in STRING \ {Star}
                              /\ cs[i] = Col(cs[i].name, cs[i].roots)
  BY ColumnFacts
<1>2. Renamed(cs, names) = [i \in 1 .. Len(cs) |-> val(i)]
  BY <1>1 DEF Renamed
<1>3. \A i \in 1 .. Len(cs) : name(i) \in STRING \ {Star}
  <2>1. \A i \in DOMAIN names : names[i] \in STRING \ {Star}
    OBVIOUS
  <2>. QED
    BY <1>1, <2>1
<1>4. \A i \in 1 .. Len(cs) : val(i) \in ColumnsOver(R) /\ val(i).roots = cs[i].roots
  <2>. HIDE DEF name
  <2>. QED
    BY <1>1, <1>3 DEF Col, ColumnsOver
<1>5. names = <<>> => \A i \in 1 .. Len(cs) : val(i) = cs[i]
  <2>. SUFFICES ASSUME names = <<>>, NEW i \in 1 .. Len(cs) PROVE val(i) = cs[i]
    OBVIOUS
  <2>1. name(i) = cs[i].name
    OBVIOUS
  <2>. QED
    BY <1>1, <2>1
<1>. HIDE DEF val
<1>6. [i \in 1 .. Len(cs) |-> val(i)] \in Seq(ColumnsOver(R))
  BY <1>1, <1>4
<1>7. names = <<>> => Renamed(cs, names) = cs
  <2>1. cs = [i \in 1 .. Len(cs) |-> cs[i]]
    BY <1>1
  <2>. QED
    BY <1>2, <1>5, <2>1
<1>. QED
  BY <1>1, <1>2, <1>4, <1>6, <1>7

LEMMA NodesClosed ==
  ASSUME q \in Statements
  PROVE  ClosedUnder(Nodes)
<1>1. ASSUME NEW n \in Nodes, q[n].kind = "table", ~IsTable(n)
      PROVE  (CHOOSE c \in DenotedCte(n) : TRUE) \in Nodes
  <2>1. DenotedCte(n) # {}
    BY <1>1 DEF IsTable
  <2>2. (CHOOSE c \in DenotedCte(n) : TRUE) \in DenotedCte(n)
    BY <2>1
  <2>3. \A c \in DenotedCte(n) : c \in Declared(n)
    BY DEF DenotedCte, NamedLike
  <2>4. \A c \in Declared(n) : c \in Nodes
    BY DeclaredFacts DEF Kids
  <2>. QED
    BY <2>2, <2>3, <2>4
<1>2. \A b \in Nodes : Kids(b, "branch") \union Kids(b, "list") \subseteq Nodes
  BY DEF Kids
<1>3. \A b \in QueryNodes : \A i \in DOMAIN SqlChain[b] : SqlChain[b][i] \subseteq Nodes
  BY ChainFacts
<1>. QED
  BY <1>1, <1>2, <1>3 DEF ClosedUnder

NextTyped(R, both) ==
  \A cols : Over(cols, R) =>
    \A n \in R : Renamed(Selected(n, cols, both), q[n].cols) \in Seq(ColumnsOver(R))

LEMMA NextColsTyped ==
  ASSUME q \in Statements, TablesExist, NEW R, ClosedUnder(R), NEW both
  PROVE  /\ NextTyped(R, both)
         /\ \A cols : Over(cols, R) => Over(NextCols(cols, both), R)
<1>1. ASSUME NEW cols, Over(cols, R), NEW n \in R
      PROVE  Renamed(Selected(n, cols, both), q[n].cols) \in Seq(ColumnsOver(R))
  <2>1. Selected(n, cols, both) \in Seq(ColumnsOver(R))
    BY <1>1, SelectedTyped
  <2>2. q[n].cols \in Seq(STRING \ {Star, NoName})
    BY ListFacts DEF ClosedUnder
  <2>. QED
    BY <2>1, <2>2, RenamedTyped
<1>2. \A cols : \A n \in R : NextCols(cols, both)[n] = Renamed(Selected(n, cols, both), q[n].cols)
  BY DEF NextCols, ClosedUnder
<1>. QED
  BY <1>1, <1>2 DEF NextTyped, Over

IsRounds(f, both) ==
  /\ f[0] = [n \in Nodes |-> <<>>]
  /\ \A k \in 1 .. Len(q) : f[k] = NextCols(f[k - 1], both)

LEMMA RoundsOver ==
  ASSUME q \in Statements, TablesExist, NEW R, ClosedUnder(R), NEW both, NEW f, IsRounds(f, both)
  PROVE  \A k \in 0 .. Len(q) : Over(f[k], R)
<1>. DEFINE Fine == {k \in 0 .. Len(q) : Over(f[k], R)}
<1>0. Len(q) \in Nat /\ 0 .. Len(q) \in SUBSET Nat
  BY StatementFacts
<1>1. ASSUME NEW k \in 0 .. Len(q), \A j \in 0 .. Len(q) : j < k => j \in Fine
      PROVE  k \in Fine
  <2>1. CASE k = 0
    <3>1. \A n \in R : f[0][n] = <<>>
      BY DEF IsRounds, ClosedUnder
    <3>2. <<>> \in Seq(ColumnsOver(R))
      OBVIOUS
    <3>3. Over(f[0], R)
      BY <3>1, <3>2 DEF Over
    <3>. QED
      BY <2>1, <3>3
  <2>2. CASE k # 0
    <3>1. k \in 1 .. Len(q) /\ k - 1 \in 0 .. Len(q) /\ k - 1 < k
      BY <1>0, <2>2
    <3>2. f[k] = NextCols(f[k - 1], both) /\ Over(f[k - 1], R)
      BY <1>1, <3>1 DEF IsRounds
    <3>. QED
      BY <3>2, NextColsTyped
  <2>. QED
    BY <2>1, <2>2
<1>. HIDE DEF Fine
<1>2. 0 .. Len(q) \subseteq Fine
  BY <1>0, <1>1, SmallerFirst
<1>. QED
  BY <1>2 DEF Fine

LEMMA RoundsFacts ==
  ASSUME q \in Statements, TablesExist, NEW both
  PROVE  \E f : IsRounds(f, both) /\ ColsOf(both) = f[Len(q)]
<1>. DEFINE D == 0 .. Len(q)
            Vals == [Nodes -> Seq(ColumnsOver(Nodes))]
            Stop == {0}
            base == [k \in D |-> [n \in Nodes |-> <<>>]]
            next == [k \in D |-> k - 1]
            step == [k \in D |-> [v \in Vals |-> NextCols(v, both)]]
            Body(f) == [k \in 0 .. Len(q) |->
                          IF k = 0 THEN [n \in Nodes |-> <<>>]
                          ELSE CHOOSE cols \in {[n \in Nodes |-> Renamed(Selected(n, before, both), q[n].cols)] :
                                                   before \in {f[k - 1]}} : TRUE]
<1>1. Len(q) \in Nat /\ D \in SUBSET Nat /\ \A k \in D : k <= Len(q)
  BY StatementFacts
<1>2. \A v \in Vals : NextCols(v, both) \in Vals
  <2>1. ASSUME NEW v \in Vals PROVE NextCols(v, both) \in Vals
    <3>1. NextTyped(Nodes, both) /\ Over(v, Nodes)
      BY NodesClosed, NextColsTyped DEF Over
    <3>. DEFINE val(n) == Renamed(Selected(n, v, both), q[n].cols)
    <3>2. \A n \in Nodes : val(n) \in Seq(ColumnsOver(Nodes))
      BY <3>1 DEF NextTyped
    <3>3. NextCols(v, both) = [n \in Nodes |-> val(n)]
      BY DEF NextCols
    <3>. HIDE DEF val
    <3>. QED
      BY <3>2, <3>3
  <2>. QED
    BY <2>1
<1>3. \A k \in D : k \in Stop => base[k] \in Vals
  OBVIOUS
<1>4. \A k \in D : k \notin Stop => next[k] \in D /\ next[k] < k /\ step[k] \in [Vals -> Vals]
  <2>1. \A k \in D : step[k] \in [Vals -> Vals]
    BY <1>2
  <2>2. \A k \in D : k \notin Stop => next[k] \in D /\ next[k] < k
    BY <1>1
  <2>. QED
    BY <2>1, <2>2
<1>5. PICK f : Solves(f, D, Vals, Stop, base, next, step)
  <2>. HIDE DEF D, Vals, Stop, base, next, step
  <2>. QED
    BY <1>1, <1>3, <1>4, ChainRecursion
<1>6. \A g, k : k \in D => Body(g)[k] = IF k = 0 THEN [n \in Nodes |-> <<>>] ELSE NextCols(g[k - 1], both)
  <2>1. \A v : (CHOOSE cols \in {NextCols(before, both) : before \in {v}} : TRUE) = NextCols(v, both)
    OBVIOUS
  <2>2. ASSUME NEW g, NEW k \in D
        PROVE  Body(g)[k] = IF k = 0 THEN [n \in Nodes |-> <<>>]
                            ELSE CHOOSE cols \in {NextCols(before, both) : before \in {g[k - 1]}} : TRUE
    BY DEF NextCols
  <2>. HIDE DEF Body
  <2>. QED
    BY <2>1, <2>2
<1>7. f \in [D -> Vals] /\ \A k \in D : f[k] = IF k = 0 THEN [n \in Nodes |-> <<>>] ELSE NextCols(f[k - 1], both)
  <2>1. f \in [D -> Vals] /\ \A k \in D : f[k] = IF k \in Stop THEN base[k] ELSE step[k][f[next[k]]]
    BY <1>5 DEF Solves
  <2>2. \A k \in D : k # 0 => k - 1 \in D
    BY <1>1
  <2>3. \A k \in D : k # 0 => f[k - 1] \in Vals
    BY <2>1, <2>2
  <2>4. \A k \in D : k # 0 => step[k][f[k - 1]] = NextCols(f[k - 1], both)
    <3>. HIDE DEF Vals
    <3>. QED
      BY <2>3
  <2>5. \A k \in D : next[k] = k - 1 /\ base[k] = [n \in Nodes |-> <<>>]
    OBVIOUS
  <2>. HIDE DEF Vals, base, next, step, D
  <2>. QED
    BY <2>1, <2>4, <2>5
<1>8. f = Body(f)
  <2>1. \A k \in D : f[k] = Body(f)[k]
    <3>. HIDE DEF Body, D
    <3>. QED
      BY <1>6, <1>7
  <2>2. DOMAIN f = D /\ f = [k \in D |-> f[k]]
    <3>. HIDE DEF D, Vals
    <3>. QED
      BY <1>7
  <2>3. Body(f) = [k \in D |-> Body(f)[k]]
    OBVIOUS
  <2>. HIDE DEF Body, D
  <2>. QED
    BY <2>1, <2>2, <2>3
<1>. DEFINE g == CHOOSE h : h = Body(h)
<1>9. g = Body(g)
  <2>. HIDE DEF Body
  <2>. QED
    BY <1>8
<1>10. ColsOf(both) = g[Len(q)]
  BY DEF ColsOf
<1>. HIDE DEF g
<1>11. IsRounds(g, both)
  <2>. HIDE DEF Body
  <2>1. 0 \in D /\ \A k \in 1 .. Len(q) : k \in D /\ k # 0
    BY <1>1
  <2>2. \A k \in D : g[k] = IF k = 0 THEN [n \in Nodes |-> <<>>] ELSE NextCols(g[k - 1], both)
    BY <1>6, <1>9
  <2>. QED
    BY <2>1, <2>2 DEF IsRounds
<1>. QED
  BY <1>10, <1>11

(* The columns of a statement, and of closed sets of its nodes.              *)
LEMMA ColsTyped ==
  ASSUME q \in Statements, TablesExist, NEW R, ClosedUnder(R), NEW both
  PROVE  Over(ColsOf(both), R)
<1>1. PICK f : IsRounds(f, both) /\ ColsOf(both) = f[Len(q)]
  BY RoundsFacts
<1>2. Len(q) \in 0 .. Len(q)
  BY StatementFacts
<1>. QED
  BY <1>1, <1>2, RoundsOver

LEMMA RoundsUnique ==
  ASSUME q \in Statements, NEW both, NEW f, NEW g, IsRounds(f, both), IsRounds(g, both)
  PROVE  \A k \in 0 .. Len(q) : f[k] = g[k]
<1>. DEFINE Fine == {k \in 0 .. Len(q) : f[k] = g[k]}
<1>0. Len(q) \in Nat /\ 0 .. Len(q) \in SUBSET Nat
  BY StatementFacts
<1>1. ASSUME NEW k \in 0 .. Len(q), \A j \in 0 .. Len(q) : j < k => j \in Fine
      PROVE  k \in Fine
  <2>1. k # 0 => k \in 1 .. Len(q) /\ k - 1 \in 0 .. Len(q) /\ k - 1 < k
    BY <1>0
  <2>. QED
    BY <1>1, <2>1 DEF IsRounds
<1>. HIDE DEF Fine
<1>2. 0 .. Len(q) \subseteq Fine
  BY <1>0, <1>1, SmallerFirst
<1>. QED
  BY <1>2 DEF Fine

RoundsExist ==
  q \in Statements /\ TablesExist => \A both : \E f : IsRounds(f, both) /\ ColsOf(both) = f[Len(q)]

SelectedAlways == \A n, cols, both : SelectedCases(n, cols, both)

LEMMA RoundsAlways == RoundsExist
BY RoundsFacts DEF RoundsExist

LEMMA ColumnsStay ==
  ASSUME q \in Statements, TablesExist, q' = q
  PROVE  /\ \A n, cols, both : n \in Nodes => Selected(n, cols, both)' = Selected(n, cols, both)
         /\ \A both : ColsOf(both)' = ColsOf(both)
         /\ \A ref, cols : Bearers(ref, cols)' = Bearers(ref, cols)
         /\ \A b, ref, cols : Meant(b, ref, cols)' = Meant(b, ref, cols) /\ Roots(b, ref, cols)' = Roots(b, ref, cols)
         /\ \A b, qualifier : Starred(b, qualifier)' = Starred(b, qualifier)
         /\ \A b, qualifier, cols : StarIn(b, qualifier, cols)' = StarIn(b, qualifier, cols)
<1>1. /\ Nodes' = Nodes /\ QueryNodes' = QueryNodes /\ SqlChain' = SqlChain
      /\ \A b : Sources(b)' = Sources(b)
      /\ \A b, place : Kids(b, place)' = Kids(b, place)
      /\ \A n : DenotedCte(n)' = DenotedCte(n) /\ IsTable(n)' = IsTable(n)
      /\ \A n, qualifier : Bears(n, qualifier)' = Bears(n, qualifier)
  BY StatementStays, ScopesStay
<1>2. \A ref, cols : Bearers(ref, cols)' = Bearers(ref, cols)
  BY <1>1 DEF Bearers
<1>3. \A b, ref, cols : Meant(b, ref, cols)' = Meant(b, ref, cols)
  BY <1>1, <1>2 DEF Meant
<1>4. \A b, ref, cols : Roots(b, ref, cols)' = Roots(b, ref, cols)
  BY <1>3 DEF Roots
<1>5. \A b, qualifier : Starred(b, qualifier)' = Starred(b, qualifier)
  BY <1>1 DEF Starred
<1>6. \A b, qualifier, cols : StarIn(b, qualifier, cols)' = StarIn(b, qualifier, cols)
  BY <1>5 DEF StarIn
<1>7. \A n, item, cols : ItemRoots(n, item, cols)' = ItemRoots(n, item, cols)
  BY <1>1, <1>4 DEF ItemRoots
<1>8. \A n : IsDML(n)' = IsDML(n)
  BY DEF IsDML
<1>9. \A n, cols, both : n \in Nodes => Selected(n, cols, both)' = Selected(n, cols, both)
  <2>1. \A n, cols : ItemCols(n, cols)' = ItemCols(n, cols)
    BY <1>6, <1>7 DEF ItemCols
  <2>2. \A n : TableCols(n)' = TableCols(n)
    BY DEF TableCols
  <2>3. \A n, cols : Branches(n, cols)' = Branches(n, cols)
    BY <1>1 DEF Branches
  <2>4. SelectedAlways /\ SelectedAlways'
    BY SelectedFacts, PTL DEF SelectedAlways
  <2>. SUFFICES ASSUME NEW n \in Nodes, NEW cols, NEW both PROVE Selected(n, cols, both)' = Selected(n, cols, both)
    OBVIOUS
  <2>5. SelectedCases(n, cols, both) /\ SelectedCases(n, cols, both)'
    BY <2>4 DEF SelectedAlways
  <2>6. q[n].kind \in {"table", "select", "setop"} \union DMLKinds
    BY StatementFacts
  <2>7. CASE IsTable(n)
    BY <1>1, <2>2, <2>5, <2>7 DEF SelectedCases
  <2>8. CASE q[n].kind = "table" /\ ~IsTable(n)
    BY <1>1, <2>5, <2>8 DEF SelectedCases
  <2>9. CASE q[n].kind = "select" \/ IsDML(n)
    BY <1>8, <2>1, <2>5, <2>9 DEF SelectedCases
  <2>10. CASE q[n].kind = "setop"
    <3>1. UnionCols(Branches(n, cols), both \/ q[n].union)' = UnionCols(Branches(n, cols), both \/ q[n].union)
      BY <2>3 DEF UnionCols
    <3>. QED
      BY <2>5, <2>10, <3>1 DEF SelectedCases
  <2>. QED
    BY <2>6, <2>7, <2>8, <2>9, <2>10 DEF IsDML
<1>10. \A both : ColsOf(both)' = ColsOf(both)
  <2>1. \A before, both : NextCols(before, both)' = NextCols(before, both)
    BY <1>1, <1>9 DEF NextCols
  <2>2. \A f, both : IsRounds(f, both)' <=> IsRounds(f, both)
    BY <1>1, <2>1 DEF IsRounds
  <2>. SUFFICES ASSUME NEW both PROVE ColsOf(both)' = ColsOf(both)
    OBVIOUS
  <2>3. PICK f : IsRounds(f, both) /\ ColsOf(both) = f[Len(q)]
    BY RoundsFacts
  <2>4. PICK g : IsRounds(g, both) /\ ColsOf(both)' = g[Len(q)]
    <3>1. q' \in Statements /\ TablesExist'
      BY StatementStays
    <3>2. \E g : IsRounds(g, both)' /\ ColsOf(both)' = g[Len(q')]
      <4>1. RoundsExist'
        BY RoundsAlways, PTL
      <4>. QED
        BY <3>1, <4>1 DEF RoundsExist
    <3>. QED
      BY <2>2, <3>2
  <2>5. \A k \in 0 .. Len(q) : f[k] = g[k]
    BY <2>3, <2>4, RoundsUnique
  <2>. QED
    BY <2>3, <2>4, <2>5, StatementFacts
<1>. QED
  BY <1>2, <1>3, <1>4, <1>5, <1>6, <1>9, <1>10

-----------------------------------------------------------------------------
(* Where the resolver and SQL differ, as far as the statement alone tells.   *)

(* The name is one of a nearer source that SQL does not show.                *)
Shadowed(b, ref, cols) ==
  ref.qualifier = <<>> /\ \E i \in Nearer(b, ref, cols) : \E n \in Chain[b][i] : n \in Bearers(ref, cols)

Strays(b, ref, cols) ==
  Shadowed(b, ref, cols) \/ CapturedNearer(b, ref, cols) \/ PassedOver(b, ref, cols) \/ ReadsItself(b, ref, cols)

StarPlain(b, qualifier, item, cols) ==
  /\ ~CapturedNearer(b, item, cols)
  /\ \A n \in Starred(b, qualifier) : ~Within(n, b)

ListsFixed(cols) ==
  /\ ~MutuallyRecursive /\ NamesDistinct(cols)
  /\ \A b \in QueryNodes : \A item \in ToSet(q[b].items) :
       /\ item.column = Star => StarPlain(b, item.qualifier, item, cols)
       /\ item.column \notin {Star, NoName} => ~Strays(b, item, cols) /\ ~Confused(b, item)

(* What is lost where a star or a set operation asks for columns by name     *)
(* has one; in flow mode, every column is kept.                              *)
NothingDropped(cols) == ~flowOnly => StarsNamed(cols) /\ BranchesNamed(cols)

LEMMA ExactIsFixed ==
  /\ \A b, ref, cols : Strays(b, ref, cols) => Misread(b, ref, cols)
  /\ \A cols : ListsExact(cols) => ListsFixed(cols)
<1>1. \A b, ref, cols : Strays(b, ref, cols) => Misread(b, ref, cols)
  <2>1. \A b, ref, cols : Shadowed(b, ref, cols) => TakenNearer(b, ref, cols)
    BY DEF Shadowed, TakenNearer
  <2>. QED
    BY <2>1 DEF Strays, Misread
<1>2. ASSUME NEW cols, ListsExact(cols) PROVE ListsFixed(cols)
  <2>1. /\ ~MutuallyRecursive /\ ListsRead(cols) /\ NamesDistinct(cols)
        /\ \A b \in QueryNodes : \A item \in ToSet(q[b].items) : item.column # Star => ~Confused(b, item)
    BY <1>2 DEF ListsExact, ListsRead
  <2>2. ASSUME NEW b \in QueryNodes, NEW item \in ToSet(q[b].items), item.column = Star
        PROVE  StarPlain(b, item.qualifier, item, cols)
    BY <2>1, <2>2, NamesAssumption DEF ListsRead, StarPlain
  <2>3. ASSUME NEW b \in QueryNodes, NEW item \in ToSet(q[b].items), item.column \notin {Star, NoName}
        PROVE  ~Misread(b, item, cols)
    BY <2>1, <2>3 DEF ListsRead
  <2>. QED
    BY <1>1, <2>1, <2>2, <2>3 DEF ListsFixed
<1>. QED
  BY <1>1, <1>2

LEMMA GuardsStay ==
  ASSUME q \in Statements, TablesExist, q' = q
  PROVE  /\ \A b, ref, cols : Strays(b, ref, cols)' = Strays(b, ref, cols) /\ Confused(b, ref)' = Confused(b, ref)
         /\ \A cols : /\ ListsFixed(cols)' = ListsFixed(cols)
                      /\ StarsNamed(cols)' = StarsNamed(cols) /\ BranchesNamed(cols)' = BranchesNamed(cols)
         /\ metadata' = metadata => AllKnown' = AllKnown
         /\ \A b \in Nodes : \A clause, ref, cols :
              /\ Meaning(b, clause, ref, cols)' = Meaning(b, clause, ref, cols)
              /\ OutputHidesInput(b, clause, ref, cols)' = OutputHidesInput(b, clause, ref, cols)
         /\ References' = References /\ \A b : ClausesOf(b)' = ClausesOf(b) /\ ListClause(b)' = ListClause(b)
<1>1. /\ Nodes' = Nodes /\ QueryNodes' = QueryNodes /\ Chain' = Chain /\ SqlChain' = SqlChain
      /\ \A n : IsPhysical(n)' = IsPhysical(n)
      /\ \A scope, qualifier : WithAlias(scope, qualifier)' = WithAlias(scope, qualifier)
      /\ \A scope, qualifier : Matching(scope, qualifier)' = Matching(scope, qualifier)
      /\ \A b, n : Within(n, b)' = Within(n, b)
      /\ MutuallyRecursive' = MutuallyRecursive
  BY StatementStays, ScopesStay
<1>2. /\ \A n, cols, both : n \in Nodes => Selected(n, cols, both)' = Selected(n, cols, both)
      /\ \A ref, cols : Bearers(ref, cols)' = Bearers(ref, cols)
      /\ \A b, ref, cols : Meant(b, ref, cols)' = Meant(b, ref, cols) /\ Roots(b, ref, cols)' = Roots(b, ref, cols)
      /\ \A b, qualifier : Starred(b, qualifier)' = Starred(b, qualifier)
  BY ColumnsStay
<1>3. \A b, ref, cols : Nearer(b, ref, cols)' = Nearer(b, ref, cols)
  BY <1>1, <1>2 DEF Nearer
<1>4. \A b, ref, cols : Shadowed(b, ref, cols)' = Shadowed(b, ref, cols)
  BY <1>1, <1>2, <1>3 DEF Shadowed
<1>5. \A b, ref, cols : CapturedNearer(b, ref, cols)' = CapturedNearer(b, ref, cols)
  BY <1>1, <1>3 DEF CapturedNearer
<1>6. \A b, ref, cols : PassedOver(b, ref, cols)' = PassedOver(b, ref, cols)
  BY <1>2 DEF PassedOver
<1>7. \A b, ref, cols : ReadsItself(b, ref, cols)' = ReadsItself(b, ref, cols)
  BY <1>1, <1>2 DEF ReadsItself
<1>8. \A b, ref, cols : Strays(b, ref, cols)' = Strays(b, ref, cols)
  BY <1>4, <1>5, <1>6, <1>7 DEF Strays
<1>9. \A b, ref : Confused(b, ref)' = Confused(b, ref)
  BY <1>1 DEF Confused
<1>10. \A cols : NamesDistinct(cols)' = NamesDistinct(cols)
  BY <1>1 DEF NamesDistinct
<1>11. \A b, qualifier, item, cols : StarPlain(b, qualifier, item, cols)' = StarPlain(b, qualifier, item, cols)
  BY <1>1, <1>2, <1>5 DEF StarPlain
<1>12. \A cols : ListsFixed(cols)' = ListsFixed(cols)
  BY <1>1, <1>8, <1>9, <1>10, <1>11 DEF ListsFixed
<1>13. \A cols : StarsNamed(cols)' = StarsNamed(cols)
  BY <1>1, <1>2 DEF StarsNamed
<1>14. \A cols : BranchesNamed(cols)' = BranchesNamed(cols)
  BY <1>1 DEF BranchesNamed
<1>15. metadata' = metadata => AllKnown' = AllKnown
  <2>1. metadata' = metadata => \A t : Known(t)' = Known(t)
    BY DEF Known
  <2>. QED
    BY <1>1, <2>1 DEF AllKnown
<1>16. ASSUME NEW b \in Nodes, NEW clause, NEW ref, NEW cols
       PROVE  /\ Meaning(b, clause, ref, cols)' = Meaning(b, clause, ref, cols)
              /\ OutputHidesInput(b, clause, ref, cols)' = OutputHidesInput(b, clause, ref, cols)
  <2>1. Selected(b, cols, TRUE)' = Selected(b, cols, TRUE) /\ Roots(b, ref, cols)' = Roots(b, ref, cols)
    BY <1>2
  <2>. QED
    BY <2>1 DEF Meaning, OutputHidesInput
<1>17. References' = References
  <2>1. Qualifiers' = Qualifiers
    BY <1>1 DEF Qualifiers, Alias, BaseName
  <2>2. ColumnNames' = ColumnNames
    BY <1>1 DEF ColumnNames
  <2>. QED
    BY <2>1, <2>2 DEF References
<1>18. \A b : ClausesOf(b)' = ClausesOf(b) /\ ListClause(b)' = ListClause(b)
  BY DEF ClausesOf, ListClause
<1>. QED
  BY <1>8, <1>9, <1>12, <1>13, <1>14, <1>15, <1>16, <1>17, <1>18

LEMMA MeaningfulStays ==
  ASSUME q \in Statements, TablesExist, q' = q
  PROVE  Meaningful' = Meaningful
<1>1. /\ Nodes' = Nodes /\ QueryNodes' = QueryNodes /\ Above' = Above
      /\ \A b, place : Kids(b, place)' = Kids(b, place)
      /\ \A n : IsTable(n)' = IsTable(n) /\ DenotedCte(n)' = DenotedCte(n)
      /\ \A b : Sources(b)' = Sources(b)
      /\ TablesExist' = TablesExist /\ CteNamesDistinct' = CteNamesDistinct
  BY StatementStays, ScopesStay
<1>2. /\ \A n, cols, both : n \in Nodes => Selected(n, cols, both)' = Selected(n, cols, both)
      /\ \A both : ColsOf(both)' = ColsOf(both)
      /\ \A b, ref, cols : Meant(b, ref, cols)' = Meant(b, ref, cols)
      /\ \A b, qualifier : Starred(b, qualifier)' = Starred(b, qualifier)
      /\ \A b, qualifier, cols : StarIn(b, qualifier, cols)' = StarIn(b, qualifier, cols)
  BY ColumnsStay
<1>3. \A cols, both : Settled(cols, both)' = Settled(cols, both)
  <2>1. \A n, cols, both : n \in Nodes => Renamed(Selected(n, cols, both), q[n].cols)' = Renamed(Selected(n, cols, both), q[n].cols)
    BY <1>2 DEF Renamed
  <2>. QED
    BY <1>1, <2>1 DEF Settled
<1>4. \A cols : ListsMean(cols)' = ListsMean(cols)
  <2>1. \A n : IsBare(n)' = IsBare(n)
    BY <1>1 DEF IsBare
  <2>. QED
    BY <1>1, <1>2, <2>1 DEF ListsMean
<1>. QED
  BY <1>1, <1>2, <1>3, <1>4 DEF Meaningful

-----------------------------------------------------------------------------
(* What is being resolved.                                                   *)

(* The queries around one are resolved before it.                            *)
Enclosed(s) == \A i \in 1 .. Len(s) : Above[s[i]] \subseteq {s[j] : j \in 1 .. i}

(* What a query sees of the query it is in was taken up before it.           *)
Prepared(s, taken) ==
  \A i \in 2 .. Len(s) : q[s[i]].place # "cte" =>
    \A n \in Sources(s[i - 1]) : (q[s[i]].place = "from" => n < s[i]) =>
      \A k \in Reads(n) : k \in taken /\ \A j \in i .. Len(s) : s[j] # k

(* A CTE leads to all that is taken up because of it.                        *)
Leading(s) ==
  \A i \in 1 .. Len(s) : \A j \in 1 .. i : q[s[j]].place = "cte" =>
    Above[s[i]] \intersect Reached(s[j]) # {}

Nested == Enclosed(stack) /\ Prepared(stack, TakenUp) /\ Leading(stack)

LEMMA NestedStays ==
  ASSUME q' = q
  PROVE  \A s, taken : /\ Enclosed(s) => Enclosed(s)'
                       /\ Prepared(s, taken) => Prepared(s, taken)'
                       /\ Leading(s) => Leading(s)'
BY StatementStays, ScopesStay DEF Enclosed, Prepared, Leading

(* What a CTE leads to leads on to the CTEs read by what is in it.           *)
LEMMA ReachedFacts ==
  ASSUME q \in Statements
  PROVE  /\ \A c \in QueryNodes : q[c].place = "cte" => c \in Reached(c)
         /\ \A c, k : \A n \in Nodes :
              Above[n] \intersect Reached(c) # {} /\ CteOf(n) = {k} /\ k \in QueryNodes /\ q[k].place = "cte" =>
                k \in Reached(c)
<1>. DEFINE ctes == {k \in QueryNodes : q[k].place = "cte"}
            closed(S) == \A n \in Nodes : Above[n] \intersect S # {} => CteOf(n) \subseteq S
<1>1. \A c, k : k \in Reached(c) <=> k \in ctes /\ \A S \in SUBSET ctes : c \in S /\ closed(S) => k \in S
  BY DEF Reached
<1>2. \A c \in QueryNodes : q[c].place = "cte" => c \in Reached(c)
  BY <1>1
<1>3. ASSUME NEW c, NEW k, NEW n \in Nodes, Above[n] \intersect Reached(c) # {}, CteOf(n) = {k}, k \in ctes
      PROVE  k \in Reached(c)
  <2>1. PICK x \in Above[n] : x \in Reached(c)
    BY <1>3
  <2>2. ASSUME NEW S \in SUBSET ctes, c \in S, closed(S) PROVE k \in S
    <3>1. x \in S
      BY <1>1, <2>1, <2>2
    <3>2. Above[n] \intersect S # {}
      BY <2>1, <3>1
    <3>. QED
      BY <1>3, <2>2, <3>2
  <2>. HIDE DEF closed
  <2>. QED
    BY <1>1, <1>3, <2>2
<1>. QED
  BY <1>2, <1>3

LEMMA EnterFacts ==
  ASSUME Sound, Followed, NEW k, EnterQuery(k)
  PROVE  /\ k \notin TakenUp
         /\ q[k].place # "cte" =>
              /\ q[k].up = Top
              /\ \A n \in Sources(Top) : (q[k].place = "from" => n < k) => Reads(n) \subseteq TakenUp
         /\ q[k].place = "cte" =>
              /\ q[k].up \in Above[Top]
              /\ \E n \in Sources(Top) : CteOf(n) = {k}
<1>0. /\ q \in Statements /\ CteNamesDistinct /\ stack # <<>>
      /\ k \in QueryNodes \ {Root} /\ k \notin DOMAIN out \union Resolving
      /\ q[k].place # "cte" => q[k].up = Top
  BY EnterIsNew DEF Sound, EnterQuery
<1>1. k \notin TakenUp
  BY <1>0 DEF TakenUp
<1>2. CASE k \in After(Top) /\ Top \in DOMAIN out
  <2>1. q[k].place = "clause"
    BY <1>2 DEF After, Kids
  <2>2. \A n \in Sources(Top) : Reads(n) \subseteq TakenUp
    BY <1>2 DEF Followed, Inputs
  <2>. QED
    BY <1>0, <1>1, <2>1, <2>2
<1>3. ASSUME NEW n \in Before(Top), k = Read(n), \A m \in Before(Top) : n <= m
      PROVE  /\ q[k].place # "cte" => \A m \in Sources(Top) : (q[k].place = "from" => m < k) => Reads(m) \subseteq TakenUp
             /\ q[k].place = "cte" => q[k].up \in Above[Top] /\ \E m \in Sources(Top) : CteOf(m) = {k}
  <2>1. PICK j \in Reads(n) : j \notin TakenUp
    BY DEF Before, TakenUp
  <2>2. n \in Inputs(Top)
    BY DEF Before
  <2>3. /\ n \in Nodes /\ q[n].up = Top /\ j = k
        /\ q[k].place # "cte" => k = n
        /\ q[k].place = "cte" => n \in Sources(Top) /\ DenotedCte(n) = {k}
    BY <1>0, <1>3, <2>1, <2>2, InputFacts
  <2>4. ASSUME q[k].place # "cte", NEW m \in Sources(Top), q[k].place = "from" => m < k
        PROVE  Reads(m) \subseteq TakenUp
    <3>1. k = n /\ n \in Sources(Top) \union Kids(Top, "branch") \union Kids(Top, "list")
      BY <2>2, <2>3, <2>4 DEF Inputs
    <3>2. m < n
      <4>1. CASE n \in Sources(Top)
        BY <2>4, <3>1, <4>1 DEF Sources, Kids
      <4>2. CASE n \in Kids(Top, "list")
        BY <1>0, <4>2, StatementFacts
      <4>3. CASE n \in Kids(Top, "branch")
        <5>1. q[Top].kind = "setop" /\ Top \in Nodes
          BY <1>0, <4>3, StatementFacts, KidFacts DEF QueryNodes
        <5>2. Sources(Top) = {}
          BY <1>0, <5>1, StatementFacts
        <5>. QED
          BY <5>2
      <4>. QED
        BY <3>1, <4>1, <4>2, <4>3
    <3>3. m \notin Before(Top)
      <4>1. n \in Nat /\ m \in Nat
        BY <1>0, <2>3, <2>4, StatementFacts, KidFacts DEF Sources
      <4>. QED
        BY <1>3, <3>2, <4>1
    <3>. QED
      BY <3>3 DEF Before, Inputs, TakenUp
  <2>5. ASSUME q[k].place = "cte"
        PROVE  q[k].up \in Above[Top] /\ \E m \in Sources(Top) : CteOf(m) = {k}
    <3>1. n \in Sources(Top) /\ DenotedCte(n) = {k} /\ n \in Nodes \ {Root} /\ q[n].up = Top
      BY <2>3, <2>5 DEF Sources, Kids
    <3>2. CteOf(n) = {k}
      BY <1>0, <3>1, CteOfDenoted
    <3>3. k \in Declared(n)
      BY <3>1 DEF DenotedCte, NamedLike
    <3>4. PICK a \in Above[n] \ {Root} : k \in Kids(q[a].up, "cte")
      BY <3>3 DEF Declared
    <3>5. Above[n] = {n} \union Above[Top] /\ Top \in Nodes
      <4>1. Above[n] = {n} \union IF n = Root THEN {} ELSE Above[q[n].up]
        BY <1>0, <3>1, AboveFacts
      <4>2. Top \in Nodes
        BY <1>0, <3>1, StatementFacts DEF QueryNodes
      <4>. QED
        BY <3>1, <4>1, <4>2
    <3>6. q[a].up \in Above[Top]
      <4>1. CASE a = n
        BY <1>0, <3>1, <3>5, <4>1, AboveAgain
      <4>2. CASE a \in Above[Top]
        BY <1>0, <3>4, <3>5, <4>2, AboveAgain
      <4>. QED
        BY <3>4, <3>5, <4>1, <4>2
    <3>7. q[k].up = q[a].up
      BY <3>4 DEF Kids
    <3>. QED
      BY <3>1, <3>2, <3>6, <3>7
  <2>. QED
    BY <2>4, <2>5
<1>4. \/ k \in After(Top) /\ Top \in DOMAIN out
      \/ \E n \in Before(Top) : k = Read(n) /\ \A m \in Before(Top) : n <= m
  BY DEF EnterQuery
<1>. QED
  BY <1>0, <1>1, <1>2, <1>3, <1>4

LEMMA NestedEnter ==
  ASSUME Sound, Followed, Nested, NEW k, EnterQuery(k)
  PROVE  Nested'
<1>. DEFINE n == Len(stack)
            t == stack'
<1>0. /\ q \in Statements /\ CteNamesDistinct /\ StackOK /\ stack # <<>> /\ q' = q /\ t = Append(stack, k)
      /\ k \in QueryNodes \ {Root} /\ k \in Nodes
      /\ TakenUp' = TakenUp \union {k} /\ Resolving' = Resolving \union {k}
  BY EnterIsNew DEF Sound, EnterQuery, TakenUp, QueryNodes
<1>1. /\ n \in Nat /\ n # 0 /\ Len(t) = n + 1 /\ t[n + 1] = k /\ Top = stack[n]
      /\ \A i \in 1 .. n : t[i] = stack[i] /\ t[i] # k /\ t[i] \in QueryNodes
  <2>1. n \in Nat /\ n # 0 /\ Top = stack[n] /\ stack \in Seq(QueryNodes)
        /\ \A i \in 1 .. n : stack[i] # k
    BY <1>0, StackFacts, EnterIsNew DEF StackOK
  <2>2. Len(t) = n + 1 /\ t[n + 1] = k /\ \A i \in 1 .. n : t[i] = stack[i] /\ stack[i] \in QueryNodes
    BY <1>0, <2>1
  <2>. QED
    BY <2>1, <2>2
<1>2. /\ Enclosed(stack) /\ Prepared(stack, TakenUp) /\ Leading(stack)
      /\ Above[k] = {k} \union Above[q[k].up] /\ Top \in Nodes
      /\ \A a \in Above[Top] : Above[a] \subseteq Above[Top]
  <2>1. Top \in Nodes
    BY <1>0, <1>1 DEF QueryNodes
  <2>. QED
    BY <1>0, <2>1, AboveFacts, AboveAgain DEF Nested
<1>3. /\ k \notin TakenUp
      /\ q[k].place # "cte" =>
           /\ q[k].up = Top
           /\ \A m \in Sources(Top) : (q[k].place = "from" => m < k) => Reads(m) \subseteq TakenUp
      /\ q[k].place = "cte" =>
           /\ q[k].up \in Above[Top]
           /\ \E m \in Sources(Top) : CteOf(m) = {k}
  BY EnterFacts
<1>. HIDE DEF n, t
<1>4. \A i \in 1 .. n + 1 : i \in 1 .. n \/ i = n + 1
  BY <1>1
<1>5. n \in 1 .. n /\ n + 1 \in 1 .. n + 1 /\ \A i \in 1 .. n : i \in 1 .. n + 1 /\ 1 .. i \subseteq 1 .. n
  BY <1>1
<1>6. Enclosed(t)
  <2>1. ASSUME NEW i \in 1 .. n PROVE Above[t[i]] \subseteq {t[j] : j \in 1 .. i}
    <3>1. Above[stack[i]] \subseteq {stack[j] : j \in 1 .. i}
      BY <1>2 DEF Enclosed, n
    <3>. QED
      BY <1>1, <1>5, <3>1
  <2>2. Above[k] \subseteq {t[j] : j \in 1 .. n + 1}
    <3>1. Above[q[k].up] \subseteq Above[Top]
      BY <1>2, <1>3
    <3>2. Above[Top] \subseteq {t[j] : j \in 1 .. n}
      BY <1>1, <1>5, <2>1
    <3>. QED
      BY <1>1, <1>2, <1>5, <3>1, <3>2
  <2>. QED
    BY <1>1, <1>4, <2>1, <2>2 DEF Enclosed
<1>7. Prepared(t, TakenUp \union {k})
  <2>1. ASSUME NEW i \in 2 .. n, q[t[i]].place # "cte", NEW m \in Sources(t[i - 1]), q[t[i]].place = "from" => m < t[i],
               NEW c \in Reads(m)
        PROVE  c \in TakenUp /\ \A j \in i .. n + 1 : t[j] # c
    <3>1. i \in 1 .. n /\ i - 1 \in 1 .. n /\ \A j \in i .. n + 1 : j \in i .. n \/ j = n + 1
      BY <1>1
    <3>2. t[i] = stack[i] /\ t[i - 1] = stack[i - 1] /\ \A j \in i .. n : t[j] = stack[j]
      BY <1>1, <3>1
    <3>3. c \in TakenUp /\ \A j \in i .. n : stack[j] # c
      BY <1>2, <2>1, <3>2 DEF Prepared, n
    <3>. QED
      BY <1>1, <1>3, <3>1, <3>2, <3>3
  <2>2. ASSUME q[k].place # "cte", NEW m \in Sources(t[n]), q[k].place = "from" => m < k,
               NEW c \in Reads(m)
        PROVE  c \in TakenUp /\ k # c
    <3>1. t[n] = Top
      BY <1>1, <1>5
    <3>. QED
      BY <1>3, <2>2, <3>1
  <2>3. \A i \in 2 .. n + 1 : i \in 2 .. n \/ i = n + 1
    BY <1>1
  <2>4. (n + 1) - 1 = n /\ \A j \in n + 1 .. n + 1 : j = n + 1
    BY <1>1
  <2>. QED
    BY <1>1, <2>1, <2>2, <2>3, <2>4 DEF Prepared
<1>8. Leading(t)
  <2>1. ASSUME NEW i \in 1 .. n, NEW j \in 1 .. i, q[t[j]].place = "cte"
        PROVE  Above[t[i]] \intersect Reached(t[j]) # {}
    <3>1. t[i] = stack[i] /\ t[j] = stack[j]
      BY <1>1, <1>5
    <3>. QED
      BY <1>2, <2>1, <3>1 DEF Leading, n
  <2>2. ASSUME NEW j \in 1 .. n, q[t[j]].place = "cte"
        PROVE  Above[k] \intersect Reached(t[j]) # {}
    <3>1. Above[Top] \intersect Reached(t[j]) # {}
      BY <1>1, <1>5, <2>1, <2>2
    <3>2. CASE q[k].place # "cte"
      BY <1>2, <1>3, <3>1, <3>2
    <3>3. CASE q[k].place = "cte"
      <4>1. PICK m \in Sources(Top) : CteOf(m) = {k}
        BY <1>3, <3>3
      <4>2. m \in Nodes \ {Root} /\ q[m].up = Top
        BY <4>1 DEF Sources, Kids
      <4>3. Above[m] = {m} \union Above[Top]
        BY <1>0, <4>2, AboveFacts
      <4>4. Above[m] \intersect Reached(t[j]) # {}
        BY <3>1, <4>3
      <4>5. k \in Reached(t[j])
        BY <1>0, <3>3, <4>1, <4>2, <4>4, ReachedFacts
      <4>. QED
        BY <1>2, <4>5
    <3>. QED
      BY <3>2, <3>3
  <2>3. q[k].place = "cte" => Above[k] \intersect Reached(k) # {}
    BY <1>0, <1>2, ReachedFacts
  <2>4. \A j \in 1 .. n + 1 : j \in 1 .. n \/ j = n + 1
    BY <1>4
  <2>. QED
    BY <1>1, <1>4, <2>1, <2>2, <2>3, <2>4 DEF Leading
<1>9. (Enclosed(stack) /\ Prepared(stack, TakenUp) /\ Leading(stack))'
  <2>1. TakenUp' = TakenUp \union {k}
    BY <1>0
  <2>. QED
    BY <1>0, <1>6, <1>7, <1>8, <2>1, NestedStays DEF t
<1>. QED
  BY <1>9 DEF Nested

LEMMA NestedShorter ==
  ASSUME Nested, NEW k, NEW s, Len(stack) \in Nat, Len(s) = Len(stack) - k, k \in {0, 1}, Len(s) \in Nat,
         \A i \in 1 .. Len(s) : s[i] = stack[i]
  PROVE  Enclosed(s) /\ Prepared(s, TakenUp) /\ Leading(s)
<1>1. /\ \A i \in 1 .. Len(s) : i \in 1 .. Len(stack) /\ 1 .. i \subseteq 1 .. Len(s)
      /\ \A i \in 2 .. Len(s) : /\ i \in 2 .. Len(stack) /\ i \in 1 .. Len(s) /\ i - 1 \in 1 .. Len(s)
                                /\ \A j \in i .. Len(s) : j \in 1 .. Len(s) /\ j \in i .. Len(stack)
  OBVIOUS
<1>2. Enclosed(s)
  <2>1. ASSUME NEW i \in 1 .. Len(s) PROVE Above[s[i]] \subseteq {s[j] : j \in 1 .. i}
    <3>1. Above[stack[i]] \subseteq {stack[j] : j \in 1 .. i}
      BY <1>1 DEF Nested, Enclosed
    <3>. QED
      BY <1>1, <3>1
  <2>. QED
    BY <2>1 DEF Enclosed
<1>3. Prepared(s, TakenUp)
  <2>1. ASSUME NEW i \in 2 .. Len(s), q[s[i]].place # "cte", NEW m \in Sources(s[i - 1]), q[s[i]].place = "from" => m < s[i],
               NEW c \in Reads(m)
        PROVE  c \in TakenUp /\ \A j \in i .. Len(s) : s[j] # c
    <3>1. s[i] = stack[i] /\ s[i - 1] = stack[i - 1] /\ \A j \in i .. Len(s) : s[j] = stack[j]
      BY <1>1
    <3>2. c \in TakenUp /\ \A j \in i .. Len(stack) : stack[j] # c
      BY <1>1, <2>1, <3>1 DEF Nested, Prepared
    <3>. QED
      BY <1>1, <3>1, <3>2
  <2>. QED
    BY <2>1 DEF Prepared
<1>4. Leading(s)
  <2>1. ASSUME NEW i \in 1 .. Len(s), NEW j \in 1 .. i, q[s[j]].place = "cte"
        PROVE  Above[s[i]] \intersect Reached(s[j]) # {}
    <3>1. s[i] = stack[i] /\ s[j] = stack[j]
      BY <1>1
    <3>. QED
      BY <1>1, <2>1, <3>1 DEF Nested, Leading
  <2>. QED
    BY <2>1 DEF Leading
<1>. QED
  BY <1>2, <1>3, <1>4

LEMMA NestedShort ==
  ASSUME q \in Statements, NEW s, NEW taken, s = <<>> \/ (s = <<Root>> /\ Root \in QueryNodes)
  PROVE  Enclosed(s) /\ Prepared(s, taken) /\ Leading(s)
<1>1. CASE s = <<>>
  <2>1. Len(s) = 0 /\ 1 .. 0 = {} /\ 2 .. 0 = {}
    BY <1>1
  <2>. QED
    BY <2>1 DEF Enclosed, Prepared, Leading
<1>2. CASE s = <<Root>> /\ Root \in QueryNodes
  <2>1. Len(s) = 1 /\ s[1] = Root /\ 2 .. 1 = {} /\ \A i \in 1 .. 1 : i = 1
    BY <1>2
  <2>2. Root \in Nodes /\ Above[Root] = {Root}
    <3>1. Root \in Nodes
      BY <1>2 DEF QueryNodes
    <3>2. Above[Root] = {Root} \union IF Root = Root THEN {} ELSE Above[q[Root].up]
      BY <3>1, AboveFacts
    <3>. QED
      BY <3>1, <3>2
  <2>3. Enclosed(s)
    BY <2>1, <2>2 DEF Enclosed
  <2>4. Leading(s)
    <3>1. q[Root].place = "cte" => Root \in Reached(Root)
      BY <1>2, ReachedFacts
    <3>. QED
      BY <2>1, <2>2, <3>1 DEF Leading
  <2>. QED
    BY <2>1, <2>3, <2>4 DEF Prepared
<1>. QED
  BY <1>1, <1>2

LEMMA NestedInductive ==
  ASSUME Sound, Followed, Nested, AnalysisStep
  PROVE  Nested'
<1>0. q \in Statements /\ StackOK /\ q' = q
  BY DEF Sound, AnalysisStep, ResolverStep, EnterQuery, ResolveQuery, Leave, Restart, vars
<1>1. ASSUME stack' = stack, TakenUp' = TakenUp PROVE Nested'
  <2>1. Enclosed(stack) /\ Prepared(stack, TakenUp) /\ Leading(stack)
    BY DEF Nested
  <2>2. (Enclosed(stack) /\ Prepared(stack, TakenUp) /\ Leading(stack))'
    BY <1>0, <1>1, <2>1, NestedStays
  <2>. QED
    BY <2>2 DEF Nested
<1>2. ASSUME NEW result, NEW new, ResolveQuery(result, new) PROVE Nested'
  <2>1. stack # <<>> /\ stack' = stack /\ DOMAIN out' = DOMAIN out \union {Top} /\ Resolving' = Resolving
    BY <1>2, ResolveAdds DEF ResolveQuery, Resolving
  <2>2. TakenUp' = TakenUp
    BY <1>0, <2>1, StackFacts DEF TakenUp
  <2>. QED
    BY <1>1, <2>1, <2>2
<1>3. CASE Leave
  <2>1. /\ stack # <<>> /\ out' = out /\ Top \in DOMAIN out /\ stack' = Front(stack)
        /\ Resolving' = Resolving \ {Top}
    BY <1>0, <1>3, LeaveKeepsStack DEF Leave
  <2>2. TakenUp' = TakenUp
    BY <2>1 DEF TakenUp
  <2>. DEFINE s == stack'
  <2>3. /\ Len(stack) \in Nat /\ Len(s) = Len(stack) - 1 /\ Len(s) \in Nat
        /\ \A i \in 1 .. Len(s) : s[i] = stack[i]
    <3>1. Len(stack) \in Nat /\ Len(stack) # 0 /\ stack \in Seq(QueryNodes)
      BY <1>0, <2>1, StackFacts DEF StackOK
    <3>2. s = SubSeq(stack, 1, Len(stack) - 1)
      BY <2>1 DEF Front
    <3>. DEFINE t == stack
                n == Len(t)
    <3>. HIDE DEF s, t
    <3>3. n \in Nat /\ n # 0 /\ t \in Seq(QueryNodes) /\ s = SubSeq(t, 1, n - 1)
      BY <3>1, <3>2 DEF t
    <3>4. Len(s) = n - 1 /\ \A i \in 1 .. n - 1 : s[i] = t[i]
      <4>1. s = [i \in 1 .. n - 1 |-> t[i]]
        BY <3>3
      <4>2. n - 1 \in Nat
        BY <3>3
      <4>. QED
        BY <4>1, <4>2
    <3>5. n - 1 \in Nat
      BY <3>3
    <3>. QED
      BY <3>3, <3>4, <3>5 DEF t
  <2>. HIDE DEF s
  <2>4. Enclosed(s) /\ Prepared(s, TakenUp) /\ Leading(s)
    BY <2>3, NestedShorter
  <2>5. (Enclosed(stack) /\ Prepared(stack, TakenUp) /\ Leading(stack))'
    BY <1>0, <2>2, <2>4, NestedStays DEF s
  <2>. QED
    BY <2>5 DEF Nested
<1>4. CASE Restart
  <2>1. stack' = <<>> \/ (stack' = <<Root>> /\ Root \in QueryNodes)
    BY <1>0, <1>4, StatementFacts DEF Restart, NewResolver
  <2>2. Enclosed(stack') /\ Prepared(stack', TakenUp') /\ Leading(stack')
    BY <1>0, <2>1, NestedShort
  <2>3. (Enclosed(stack) /\ Prepared(stack, TakenUp) /\ Leading(stack))'
    BY <1>0, <2>2, NestedStays
  <2>. QED
    BY <2>3 DEF Nested
<1>5. CASE UNCHANGED vars
  <2>1. stack' = stack /\ TakenUp' = TakenUp
    BY <1>5 DEF vars, resolver, Resolving, TakenUp
  <2>. QED
    BY <1>1, <2>1
<1>. QED
  BY <1>2, <1>3, <1>4, <1>5, NestedEnter DEF AnalysisStep, ResolverStep

LEMMA NestedInit == ASSUME Init PROVE Nested
<1>1. q \in Statements /\ stack = IF q = <<>> THEN <<>> ELSE <<Root>>
  BY DEF Init
<1>2. stack = <<>> \/ (stack = <<Root>> /\ Root \in QueryNodes)
  BY <1>1, StatementFacts
<1>. QED
  BY <1>1, <1>2, NestedShort DEF Nested

LEMMA NestedAlways == AnalysisSpec => []Nested
<1>1. ColumnsInit => Nested
  BY NestedInit DEF ColumnsInit, LineageInit
<1>2. Sound /\ Followed /\ Nested /\ [AnalysisNext]_analysisVars => Nested'
  BY AnalysisSteps, NestedInductive DEF Sound
<1>. QED
  BY <1>1, <1>2, SoundAlways, FollowedAlways, PTL DEF AnalysisSpec

(* The statement and what is known of it stay Meaningful.                    *)
LEMMA MeaningfulAlways == AnalysisSpec => []Meaningful
<1>1. ColumnsInit => Meaningful
  BY DEF ColumnsInit, LineageInit, Init
<1>2. Sound /\ Meaningful /\ [AnalysisNext]_analysisVars => Meaningful'
  <2>. SUFFICES ASSUME Sound, Meaningful, [AnalysisNext]_analysisVars PROVE Meaningful'
    OBVIOUS
  <2>1. q \in Statements /\ TablesExist /\ CteNamesDistinct
    BY DEF Sound
  <2>2. AnalysisStep
    BY <2>1, AnalysisSteps
  <2>3. q' = q
    BY <2>2 DEF AnalysisStep, ResolverStep, EnterQuery, ResolveQuery, Leave, Restart, vars
  <2>. QED
    BY <2>1, <2>3, MeaningfulStays
<1>. QED
  BY <1>1, <1>2, SoundAlways, PTL DEF AnalysisSpec

(* If a query around Top reads one that is being resolved, it is one that it *)
(* is in, or one that was taken up after it.                                 *)
LEMMA ResolvingFacts ==
  ASSUME Sound, Nested, ~MutuallyRecursive, stack # <<>>,
         NEW p \in 1 .. Len(stack), stack[p] \in Above[Top], NEW n \in Inputs(stack[p]), NEW k \in Reads(n),
         NEW m \in 1 .. Len(stack), stack[m] = k, k \notin Above[Top]
  PROVE  m > p /\ (q[k].place # "cte" => m = p + 1)
<1>0. q \in Statements /\ CteNamesDistinct /\ StackOK /\ Len(stack) \in Nat /\ Top = stack[Len(stack)] /\ Top \in Nodes
  BY StackFacts DEF Sound, QueryNodes
<1>1. /\ n \in Nodes /\ q[n].up = stack[p] /\ Reads(n) = {k} /\ k \in QueryNodes \ {Root}
      /\ q[k].place # "cte" => k = n
      /\ q[k].place = "cte" => n \in Sources(stack[p]) /\ DenotedCte(n) = {k}
  BY <1>0, InputFacts
<1>2. CASE q[k].place # "cte"
  <2>1. m # 1
    BY <1>0, <1>1 DEF StackOK
  <2>2. m \in 2 .. Len(stack) /\ m - 1 \in 1 .. Len(stack)
    BY <1>0, <2>1
  <2>3. stack[m - 1] = stack[p]
    BY <1>0, <1>1, <1>2, <2>2 DEF StackOK
  <2>4. m - 1 = p
    BY <1>0, <2>2, <2>3 DEF StackOK
  <2>. QED
    BY <1>2, <2>2, <2>4
<1>3. CASE q[k].place = "cte"
  <2>. SUFFICES ASSUME m <= p PROVE FALSE
    BY <1>0, <1>3
  <2>1. m \in 1 .. p
    BY <1>0
  <2>2. Above[stack[p]] \intersect Reached(k) # {}
    BY <1>3, <2>1 DEF Nested, Leading
  <2>3. n \in Nodes \ {Root}
    BY <1>1, <1>3 DEF Sources, Kids
  <2>4. Above[n] = {n} \union Above[stack[p]]
    BY <1>0, <1>1, <2>3, AboveFacts
  <2>5. CteOf(n) = {k}
    BY <1>0, <1>1, <1>3, CteOfDenoted
  <2>6. k # n
    BY <1>0, <1>1, <2>5, CteOfFacts DEF QueryNodes
  <2>7. Above[stack[p]] \subseteq Above[Top]
    BY <1>0, AboveAgain
  <2>8. k \notin Above[n]
    BY <2>4, <2>6, <2>7
  <2>. QED
    BY <1>1, <2>2, <2>4, <2>5, <2>8 DEF MutuallyRecursive
<1>. QED
  BY <1>2, <1>3

(* What is before Top is resolved, but for what Top is in.                   *)
LEMMA BeforeIsKnown ==
  ASSUME Sound, Nested, ~MutuallyRecursive, stack # <<>>, Before(Top) = {}, NEW n \in Inputs(Top), NEW k \in Reads(n)
  PROVE  k \notin Above[Top] => k \in DOMAIN out \ Resolving
<1>. SUFFICES ASSUME k \notin Above[Top] PROVE k \in DOMAIN out \ Resolving
  OBVIOUS
<1>0. /\ q \in Statements /\ Len(stack) \in Nat /\ Len(stack) # 0 /\ Top = stack[Len(stack)] /\ Top \in Nodes
      /\ Resolving = {stack[i] : i \in 1 .. Len(stack)}
  BY StackFacts DEF Sound, QueryNodes
<1>1. k \in DOMAIN out \union Resolving
  BY DEF Before
<1>2. ASSUME k \in Resolving PROVE FALSE
  <2>1. PICK m \in 1 .. Len(stack) : stack[m] = k
    BY <1>0, <1>2
  <2>2. Len(stack) \in 1 .. Len(stack) /\ ~(m > Len(stack))
    BY <1>0
  <2>3. stack[Len(stack)] \in Above[Top] /\ n \in Inputs(stack[Len(stack)])
    BY <1>0, AboveAgain
  <2>. QED
    BY <2>1, <2>2, <2>3, ResolvingFacts
<1>. QED
  BY <1>1, <1>2

(* The sources that Top sees are known, but for CTEs that it is in.          *)
SourceKnown(n, b) ==
  IF Within(n, b) THEN Read(n) \in Resolving ELSE Read(n) \in DOMAIN out \ Resolving

LEMMA SeenIsKnown ==
  ASSUME Sound, Followed, Nested, ~MutuallyRecursive, stack # <<>>, Before(Top) = {},
         NEW i \in DOMAIN Chain[Top], NEW n \in Chain[Top][i], ~IsPhysical(n)
  PROVE  /\ n \in Nodes \ {Root} /\ Reads(n) = {Read(n)} /\ Read(n) \in QueryNodes \ {Root}
         /\ SourceKnown(n, Top)
<1>. DEFINE k == Read(n)
<1>0. /\ q \in Statements /\ CteNamesDistinct /\ StackOK /\ Len(stack) \in Nat /\ Len(stack) # 0
      /\ Top = stack[Len(stack)] /\ Top \in QueryNodes /\ Top \in Nodes
      /\ Resolving = {stack[j] : j \in 1 .. Len(stack)}
      /\ Enclosed(stack) /\ Prepared(stack, TakenUp)
  BY StackFacts DEF Sound, Nested, QueryNodes
<1>1. (i = 1 /\ n \in Sources(Top)) \/ Visible(n, Top)
  BY <1>0, ChainFacts
<1>2. \E u : n \in Sources(u)
  BY <1>1 DEF Visible
<1>3. n \in Nodes \ {Root} /\ n \in Inputs(q[n].up)
  BY <1>2 DEF Sources, Kids, Inputs
<1>4. \E j : j \in Reads(n)
  BY DEF Reads, IsPhysical
<1>5. /\ Reads(n) = {k} /\ k \in QueryNodes \ {Root}
      /\ q[k].place # "cte" => k = n
      /\ q[k].place = "cte" => CteOf(n) = {k}
  <2>1. PICK j \in Reads(n) : TRUE
    BY <1>4
  <2>2. /\ Reads(n) = {j} /\ k = j /\ j \in QueryNodes \ {Root}
        /\ q[j].place # "cte" => j = n
        /\ q[j].place = "cte" => DenotedCte(n) = {j}
    BY <1>0, <1>3, <2>1, InputFacts
  <2>. QED
    BY <1>0, <1>3, <2>2, CteOfDenoted
<1>. HIDE DEF k
<1>6. Above[Top] \subseteq Resolving
  <2>1. Len(stack) \in 1 .. Len(stack)
    BY <1>0
  <2>2. Above[stack[Len(stack)]] \subseteq {stack[j] : j \in 1 .. Len(stack)}
    BY <1>0, <2>1 DEF Enclosed
  <2>. QED
    BY <1>0, <2>2
<1>7. CASE Within(n, Top)
  <2>1. CteOf(n) # {} /\ CteOf(n) \intersect Above[Top] # {}
    BY <1>7 DEF Within
  <2>2. q[n].kind = "table"
    BY <2>1 DEF CteOf
  <2>3. CteOf(n) = {k}
    BY <1>5, <2>2 DEF Reads
  <2>4. k \in Resolving
    BY <1>6, <2>1, <2>3
  <2>. QED
    BY <1>3, <1>5, <1>7, <2>4 DEF SourceKnown, k
<1>8. CASE ~Within(n, Top)
  <2>1. q[k].place = "cte" => k \notin Above[Top]
    BY <1>5, <1>8 DEF Within
  <2>2. CASE n \in Sources(Top)
    <3>1. n \in Inputs(Top) /\ k \in Reads(n)
      BY <1>5, <2>2 DEF Inputs
    <3>2. k = n => k \notin Above[Top]
      <4>1. Top \in Nat /\ n \in Nat /\ Top < n
        BY <1>0, <2>2, KidFacts DEF Sources
      <4>2. \A a \in Above[Top] : a <= Top
        BY <1>0, AboveFacts
      <4>. QED
        BY <4>1, <4>2
    <3>3. k \notin Above[Top]
      BY <1>5, <2>1, <3>2
    <3>. QED
      BY <1>3, <1>5, <1>8, <3>1, <3>3, BeforeIsKnown DEF SourceKnown, k
  <2>3. CASE Visible(n, Top)
    <3>1. PICK v \in Above[Top] \ {Root} : /\ q[v].place # "cte" /\ n \in Sources(q[v].up)
                                           /\ q[v].place = "from" => n < v
      BY <2>3 DEF Visible
    <3>2. PICK j \in 1 .. Len(stack) : stack[j] = v
      BY <1>0, <1>6, <3>1
    <3>3. j # 1
      BY <1>0, <3>1, <3>2 DEF StackOK
    <3>4. j \in 2 .. Len(stack) /\ j - 1 \in 1 .. Len(stack)
      BY <1>0, <3>2, <3>3
    <3>5. stack[j - 1] = q[v].up
      BY <1>0, <3>1, <3>2, <3>4 DEF StackOK
    <3>6. q[v].up \in Above[Top]
      BY <1>0, <3>1, AboveAgain
    <3>7. k \in TakenUp /\ \A m \in j .. Len(stack) : stack[m] # k
      BY <1>0, <1>5, <3>1, <3>2, <3>4, <3>5 DEF Prepared
    <3>8. k \notin Above[Top]
      <4>1. CASE q[k].place = "cte"
        BY <2>1, <4>1
      <4>2. CASE q[k].place # "cte"
        <5>. SUFFICES ASSUME k \in Above[Top] PROVE FALSE
          OBVIOUS
        <5>1. PICK m \in 1 .. Len(stack) : stack[m] = k
          BY <1>0, <1>6
        <5>2. m # 1
          BY <1>0, <1>5, <5>1 DEF StackOK
        <5>3. m \in 2 .. Len(stack) /\ m - 1 \in 1 .. Len(stack)
          BY <1>0, <5>1, <5>2
        <5>4. q[k].up = q[v].up
          BY <1>5, <3>1, <4>2 DEF Sources, Kids
        <5>5. stack[m - 1] = stack[j - 1]
          BY <1>0, <3>5, <4>2, <5>1, <5>3, <5>4 DEF StackOK
        <5>6. m - 1 = j - 1
          BY <1>0, <3>4, <5>3, <5>5 DEF StackOK
        <5>7. m \in j .. Len(stack)
          BY <3>4, <5>3, <5>6
        <5>. QED
          BY <3>7, <5>1, <5>7
      <4>. QED
        BY <4>1, <4>2
    <3>9. ASSUME k \in Resolving PROVE FALSE
      <4>1. PICK m \in 1 .. Len(stack) : stack[m] = k
        BY <1>0, <3>9
      <4>2. stack[j - 1] \in Above[Top] /\ n \in Inputs(stack[j - 1]) /\ k \in Reads(n)
        BY <1>5, <3>1, <3>5, <3>6 DEF Inputs
      <4>3. m > j - 1
        BY <3>4, <3>8, <4>1, <4>2, ResolvingFacts
      <4>4. m \in j .. Len(stack)
        BY <1>0, <3>4, <4>1, <4>3
      <4>. QED
        BY <3>7, <4>1, <4>4
    <3>. QED
      BY <1>3, <1>5, <1>8, <3>7, <3>9 DEF SourceKnown, TakenUp, k
  <2>. QED
    BY <1>1, <2>2, <2>3
<1>. QED
  BY <1>7, <1>8

-----------------------------------------------------------------------------
(* Outputs of known columns.                                                 *)

RootsNamed(cs, name) == UNION {cs[i].roots : i \in Named(cs, name)}

ColNames(cs) == [i \in DOMAIN cs |-> cs[i].name]

RootsAt(cs) == [i \in DOMAIN cs |-> cs[i].roots]

AllKept(cs) == flowOnly \/ Named(cs, NoName) = {}

LEMMA OutputFacts ==
  ASSUME NEW R, NEW cs \in Seq(ColumnsOver(R))
  PROVE  /\ Output(cs).positions = RootsAt(cs)
         /\ \A name : name \in DOMAIN Output(cs).byName <=> Named(cs, name) # {} /\ (flowOnly \/ name # NoName)
         /\ \A name \in DOMAIN Output(cs).byName : Output(cs).byName[name] = RootsNamed(cs, name)
         /\ DOMAIN Output(cs).byName = ToSet(Output(cs).names)
         /\ Output(cs) = [names |-> Output(cs).names, byName |-> Output(cs).byName, positions |-> Output(cs).positions]
         /\ AllKept(cs) => Output(cs).names = ColNames(cs)
<1>. DEFINE K == {i \in DOMAIN cs : flowOnly \/ cs[i].name # NoName}
            kept == InOrder(K)
            names == [k \in DOMAIN kept |-> cs[kept[k]].name]
            byName == [name \in ToSet(names) |-> UNION {cs[i].roots : i \in Named(cs, name)}]
            positions == [i \in DOMAIN cs |-> cs[i].roots]
<1>1. Output(cs) = [names |-> names, byName |-> byName, positions |-> positions]
  BY DEF Output
<1>2. Len(cs) \in Nat /\ DOMAIN cs = 1 .. Len(cs)
  OBVIOUS
<1>3. K \in SUBSET Nat /\ IsFiniteSet(K) /\ K \subseteq DOMAIN cs
  <2>1. K \subseteq 1 .. Len(cs) /\ IsFiniteSet(1 .. Len(cs))
    BY <1>2, FS_Interval
  <2>2. IsFiniteSet(K)
    BY <2>1, FS_Subset
  <2>. QED
    BY <1>2, <2>1, <2>2
<1>4. DOMAIN kept = 1 .. Cardinality(K) /\ (\A k \in DOMAIN kept : kept[k] \in K) /\ \A i \in K : \E k \in DOMAIN kept : kept[k] = i
  <2>. HIDE DEF K
  <2>. QED
    BY <1>3, InOrderFacts, ZenonT(30)
<1>5. \A i : i \in K <=> i \in DOMAIN cs /\ (flowOnly \/ cs[i].name # NoName)
  OBVIOUS
<1>6. \A name : name \in ToSet(names) <=> \E i \in K : name = cs[i].name
  <2>. HIDE DEF K, kept
  <2>1. ToSet(names) = {names[k] : k \in DOMAIN kept}
    BY DEF ToSet
  <2>. QED
    BY <1>4, <2>1
<1>7. \A name : name \in ToSet(names) <=> Named(cs, name) # {} /\ (flowOnly \/ name # NoName)
  <2>. HIDE DEF K, names
  <2>. QED
    BY <1>5, <1>6 DEF Named
<1>8. AllKept(cs) => names = ColNames(cs)
  <2>. SUFFICES ASSUME AllKept(cs) PROVE names = ColNames(cs)
    OBVIOUS
  <2>1. K = 1 .. Len(cs)
    BY <1>2 DEF AllKept, Named
  <2>. HIDE DEF K
  <2>2. kept = [i \in 1 .. Len(cs) |-> i]
    BY <1>2, <2>1, InOrderAll
  <2>. HIDE DEF kept
  <2>. QED
    BY <1>2, <2>2 DEF ColNames
<1>9. DOMAIN byName = ToSet(names) /\ \A name \in ToSet(names) : byName[name] = RootsNamed(cs, name)
  <2>. HIDE DEF names
  <2>. QED
    BY DEF RootsNamed
<1>10. positions = RootsAt(cs)
  BY DEF RootsAt
<1>. HIDE DEF names, byName, positions
<1>11. Output(cs).names = names /\ Output(cs).byName = byName /\ Output(cs).positions = positions
  BY <1>1
<1>. QED
  BY <1>1, <1>7, <1>8, <1>9, <1>10, <1>11

(* One column of a name.                                                     *)
LEMMA OneNamed ==
  ASSUME NEW cs, NEW i, Named(cs, cs[i].name) = {i}
  PROVE  RootsNamed(cs, cs[i].name) = cs[i].roots
BY DEF RootsNamed

LEMMA EmptyFacts ==
  /\ EmptyOut.names = <<>> /\ EmptyOut.positions = <<>> /\ DOMAIN EmptyOut.byName = {}
<1>1. <<>> \in Seq(ColumnsOver({})) /\ DOMAIN <<>> = {}
  OBVIOUS
<1>. DEFINE cs == <<>>
<1>2. Named(cs, NoName) = {} /\ (\A name : Named(cs, name) = {})
  BY DEF Named
<1>3. ColNames(cs) = <<>> /\ RootsAt(cs) = <<>>
  BY DEF ColNames, RootsAt
<1>. HIDE DEF cs
<1>4. /\ Output(cs).positions = RootsAt(cs)
      /\ \A name : name \in DOMAIN Output(cs).byName <=> Named(cs, name) # {} /\ (flowOnly \/ name # NoName)
      /\ AllKept(cs) => Output(cs).names = ColNames(cs)
  BY <1>1, OutputFacts DEF cs
<1>5. Output(cs).names = <<>> /\ Output(cs).positions = <<>> /\ DOMAIN Output(cs).byName = {}
  BY <1>2, <1>3, <1>4 DEF AllKept
<1>. QED
  BY <1>5 DEF EmptyOut, cs

(* The columns of a source are what the resolver takes them to be.           *)
Told(n, cols) ==
  IF IsPhysical(n) THEN Known(q[n].name) = {Actual[q[n].name]} /\ cols[n] = TableCols(n)
                   ELSE OutputOf(n) = Output(cols[n])

LEMMA TableColsFacts ==
  ASSUME NEW n
  PROVE  /\ \A name : Named(TableCols(n), name) = {i \in DOMAIN Actual[q[n].name] : Actual[q[n].name][i] = name}
         /\ \A name : RootsNamed(TableCols(n), name) =
              IF name \in ToSet(Actual[q[n].name]) THEN {Ref(q[n].name, name)} ELSE {}
<1>. DEFINE actual == Actual[q[n].name]
            at(name) == {i \in DOMAIN actual : actual[i] = name}
<1>1. /\ DOMAIN TableCols(n) = DOMAIN actual
      /\ \A i \in DOMAIN actual : TableCols(n)[i].name = actual[i] /\ TableCols(n)[i].roots = {Ref(q[n].name, actual[i])}
  BY DEF TableCols, Col
<1>2. \A name : Named(TableCols(n), name) = at(name)
  BY <1>1 DEF Named
<1>3. ASSUME NEW name
      PROVE  RootsNamed(TableCols(n), name) = IF name \in ToSet(actual) THEN {Ref(q[n].name, name)} ELSE {}
  <2>1. RootsNamed(TableCols(n), name) = UNION {{Ref(q[n].name, name)} : i \in at(name)}
    <3>1. \A i \in at(name) : TableCols(n)[i].roots = {Ref(q[n].name, name)}
      BY <1>1
    <3>. QED
      BY <1>2, <3>1 DEF RootsNamed
  <2>2. name \in ToSet(actual) <=> at(name) # {}
    BY DEF ToSet
  <2>. HIDE DEF at
  <2>. QED
    BY <2>1, <2>2
<1>. QED
  BY <1>2, <1>3

LEMMA ToldFacts ==
  ASSUME NEW R, NEW cols, NEW n, cols[n] \in Seq(ColumnsOver(R)), Told(n, cols)
  PROVE  /\ \A column : column \notin {Star, NoName} =>
              /\ Exposed(n, column) = RootsNamed(cols[n], column)
              /\ Named(cols[n], column) # {} => Through(n, column) = RootsNamed(cols[n], column)
         /\ AllKept(cols[n]) /\ (\A i \in DOMAIN cols[n] : Single(Named(cols[n], cols[n][i].name))) =>
              StarOf(n) = cols[n]
<1>. DEFINE cs == cols[n]
<1>0. /\ Len(cs) \in Nat /\ DOMAIN cs = 1 .. Len(cs)
      /\ \A i \in DOMAIN cs : cs[i].name # Star /\ cs[i] = Col(cs[i].name, cs[i].roots)
  <2>. HIDE DEF cs
  <2>1. cs \in Seq(ColumnsOver(R))
    BY DEF cs
  <2>. QED
    BY <2>1, ColumnFacts
<1>1. CASE IsPhysical(n)
  <2>. DEFINE actual == Actual[q[n].name]
  <2>1. Known(q[n].name) = {actual} /\ cs = TableCols(n)
    BY <1>1 DEF Told
  <2>2. \A name : RootsNamed(cs, name) = IF name \in ToSet(actual) THEN {Ref(q[n].name, name)} ELSE {}
    BY <2>1, TableColsFacts
  <2>3. ASSUME NEW column PROVE Exposed(n, column) = RootsNamed(cs, column)
    BY <1>1, <2>1, <2>2 DEF Exposed
  <2>4. ASSUME NEW column, Named(cs, column) # {} PROVE Through(n, column) = RootsNamed(cs, column)
    <3>1. Named(cs, column) = {i \in DOMAIN actual : actual[i] = column}
      BY <2>1, TableColsFacts
    <3>2. column \in ToSet(actual)
      BY <2>4, <3>1 DEF ToSet
    <3>. QED
      BY <1>1, <2>2, <3>2 DEF Through
  <2>5. StarOf(n) = cs
    <3>1. (CHOOSE known \in Known(q[n].name) : TRUE) = actual /\ Known(q[n].name) # {}
      BY <2>1
    <3>2. StarOf(n) = [i \in DOMAIN actual |-> Col(actual[i], {Ref(q[n].name, actual[i])})]
      BY <1>1, <3>1 DEF StarOf
    <3>. QED
      BY <2>1, <3>2 DEF TableCols
  <2>. QED
    BY <2>3, <2>4, <2>5
<1>2. CASE ~IsPhysical(n)
  <2>. DEFINE o == OutputOf(n)
  <2>1. o = Output(cs)
    BY <1>2 DEF Told
  <2>. HIDE DEF cs
  <2>2. cs \in Seq(ColumnsOver(R))
    BY DEF cs
  <2>. HIDE DEF o
  <2>3. /\ \A name : name \in DOMAIN o.byName <=> Named(cs, name) # {} /\ (flowOnly \/ name # NoName)
        /\ \A name \in DOMAIN o.byName : o.byName[name] = RootsNamed(cs, name)
        /\ AllKept(cs) => o.names = ColNames(cs)
    BY <2>1, <2>2, OutputFacts
  <2>4. Star \notin DOMAIN o.byName
    <3>1. Named(cs, Star) = {}
      BY <1>0 DEF Named
    <3>. QED
      BY <2>3, <3>1
  <2>5. ASSUME NEW column, column \notin {Star, NoName}
        PROVE  /\ Exposed(n, column) = RootsNamed(cs, column)
               /\ Named(cs, column) # {} => Through(n, column) = RootsNamed(cs, column)
    <3>1. CASE Named(cs, column) # {}
      <4>1. column \in DOMAIN o.byName /\ o.byName[column] = RootsNamed(cs, column)
        BY <2>3, <2>5, <3>1
      <4>2. Exposed(n, column) = o.byName[column] /\ Through(n, column) = o.byName[column]
        BY <1>2, <4>1 DEF Exposed, Through, o
      <4>. QED
        BY <4>1, <4>2
    <3>2. CASE Named(cs, column) = {}
      <4>1. column \notin DOMAIN o.byName /\ RootsNamed(cs, column) = {}
        BY <2>3, <3>2 DEF RootsNamed
      <4>. QED
        BY <1>2, <2>4, <3>2, <4>1 DEF Exposed, o
    <3>. QED
      BY <3>1, <3>2
  <2>6. ASSUME AllKept(cs), \A i \in DOMAIN cs : Single(Named(cs, cs[i].name))
        PROVE  StarOf(n) = cs
    <3>1. o.names = ColNames(cs) /\ DOMAIN o.names = DOMAIN cs /\ \A i \in DOMAIN cs : o.names[i] = cs[i].name
      BY <2>3, <2>6 DEF ColNames
    <3>2. ASSUME NEW i \in DOMAIN cs PROVE o.byName[cs[i].name] = cs[i].roots
      <4>1. i \in Named(cs, cs[i].name)
        BY DEF Named
      <4>2. Named(cs, cs[i].name) = {i}
        BY <2>6, <4>1 DEF Single
      <4>3. cs[i].name = NoName => flowOnly
        BY <2>6, <4>1 DEF AllKept
      <4>. QED
        BY <2>3, <4>1, <4>2, <4>3, OneNamed
    <3>3. StarOf(n) = [i \in DOMAIN o.names |-> Col(o.names[i], o.byName[o.names[i]])]
      BY <1>2 DEF StarOf, o
    <3>4. \A i \in DOMAIN o.names : Col(o.names[i], o.byName[o.names[i]]) = cs[i]
      BY <1>0, <3>1, <3>2
    <3>5. cs = [i \in DOMAIN cs |-> cs[i]]
      BY <2>2
    <3>. QED
      BY <3>1, <3>3, <3>4, <3>5
  <2>. QED
    BY <2>5, <2>6 DEF cs
<1>. QED
  BY <1>1, <1>2

LEMMA EmptyExposed ==
  ASSUME NEW n, ~IsPhysical(n), OutputOf(n) = EmptyOut, NEW column
  PROVE  Exposed(n, column) = {}
<1>1. column \notin DOMAIN OutputOf(n).byName /\ Star \notin DOMAIN OutputOf(n).byName
  BY EmptyFacts
<1>. QED
  BY <1>1 DEF Exposed

-----------------------------------------------------------------------------
(* A reference is resolved to what it means.                                 *)

(* What b sees are the columns given, but those of a CTE it is in are not    *)
(* known yet.                                                                *)
SeenTold(b, cols) ==
  \A i \in DOMAIN Chain[b] : \A n \in Chain[b][i] :
    IF Within(n, b) THEN ~IsPhysical(n) /\ OutputOf(n) = EmptyOut ELSE Told(n, cols)

(* The reference is to relation n, of the scope at a place.                  *)
Innermost(b, ref, cols, n, at) ==
  /\ at \in DOMAIN Chain[b] /\ n \in Chain[b][at]
  /\ Chain[b][at] \intersect Bearers(ref, cols) = {n}
  /\ Nearer(b, ref, cols) = {i \in DOMAIN Chain[b] : i < at}

LEMMA ToldNames ==
  ASSUME NEW cols, Over(cols, Nodes), NEW n \in Nodes, Told(n, cols),
         NEW column, column \notin {Star, NoName}
  PROVE  /\ Exposed(n, column) = RootsNamed(cols[n], column)
         /\ Named(cols[n], column) # {} => Through(n, column) = RootsNamed(cols[n], column)
<1>1. /\ \A c : c \notin {Star, NoName} =>
           /\ Exposed(n, c) = RootsNamed(cols[n], c)
           /\ Named(cols[n], c) # {} => Through(n, c) = RootsNamed(cols[n], c)
      /\ AllKept(cols[n]) /\ (\A i \in DOMAIN cols[n] : Single(Named(cols[n], cols[n][i].name))) =>
           StarOf(n) = cols[n]
  <2>1. cols[n] \in Seq(ColumnsOver(Nodes))
    BY DEF Over
  <2>. QED
    BY <2>1, ToldFacts
<1>. QED
  BY <1>1

LEMMA InnermostFacts ==
  ASSUME q \in Statements, NEW b \in QueryNodes, NEW ref, NEW cols, NEW n,
         Nearest(SqlChain[b], Bearers(ref, cols)) = {n}
  PROVE  \E at : Innermost(b, ref, cols, n, at)
<1>. DEFINE chain == SqlChain[b]
            picked == Bearers(ref, cols)
            hits == {i \in DOMAIN chain : chain[i] \intersect picked # {}}
<1>1. /\ DOMAIN chain = DOMAIN Chain[b] /\ DOMAIN chain \in SUBSET Nat
      /\ \A i \in DOMAIN Chain[b] : chain[i] \in {Chain[b][i], {}}
  BY ChainFacts
<1>2. Nearest(chain, picked) = {n}
  OBVIOUS
<1>3. Nearer(b, ref, cols) = {i \in DOMAIN Chain[b] : hits # {} /\ i < Min(hits)}
  BY DEF Nearer
<1>. HIDE DEF chain, picked
<1>4. IF \A i \in DOMAIN chain : chain[i] \intersect picked = {}
        THEN Nearest(chain, picked) = {} ELSE \E at : NearestAt(chain, picked, at)
  BY <1>1, NearestFacts
<1>5. PICK at : NearestAt(chain, picked, at)
  BY <1>2, <1>4
<1>6. /\ at \in DOMAIN chain /\ chain[at] \intersect picked = {n} /\ at = Min(hits) /\ hits # {}
  BY <1>2, <1>5 DEF NearestAt
<1>7. chain[at] = Chain[b][at]
  BY <1>1, <1>6
<1>8. Nearer(b, ref, cols) = {i \in DOMAIN Chain[b] : i < at}
  BY <1>3, <1>6
<1>9. at \in DOMAIN Chain[b] /\ n \in Chain[b][at] /\ Chain[b][at] \intersect picked = {n}
  BY <1>1, <1>6, <1>7
<1>. QED
  BY <1>8, <1>9 DEF Innermost, picked

LEMMA FirstFacts ==
  ASSUME NEW hits \in SUBSET (Nat \ {0}), NEW at \in hits, \A i \in hits : ~(i < at)
  PROVE  First(hits) = at
<1>1. Min(hits) \in hits /\ \A i \in hits : Min(hits) <= i
  BY MinFacts
<1>2. Min(hits) = at
  <2>. DEFINE m == Min(hits)
  <2>1. m \in Nat /\ at \in Nat /\ m <= at /\ ~(m < at)
    BY <1>1
  <2>. HIDE DEF m
  <2>2. m = at
    BY <2>1
  <2>. QED
    BY <2>2 DEF m
<1>. QED
  BY <1>2 DEF First

(* The columns of a reference with one meaning.                              *)
LEMMA SingleMeant ==
  ASSUME q \in Statements, NEW b \in QueryNodes, NEW ref, NEW cols, Single(Meant(b, ref, cols))
  PROVE  \E n \in Nodes : /\ Nearest(SqlChain[b], Bearers(ref, cols)) = {n}
                          /\ Named(cols[n], ref.column) # {}
                          /\ Roots(b, ref, cols) = RootsNamed(cols[n], ref.column)
                          /\ ~PassedOver(b, ref, cols) /\ ref.qualifier = <<>> => Roots(b, ref, cols) # {}
<1>1. PICK m \in Meant(b, ref, cols) : Meant(b, ref, cols) = {m}
  BY DEF Single
<1>. DEFINE n == m[1]
            near == Only(Nearest(SqlChain[b], Bearers(ref, cols)))
<1>2. n \in Nodes /\ m[2] \in Named(cols[n], ref.column) /\ Nearest(SqlChain[b], Bearers(ref, cols)) = {n}
  BY MeantFacts
<1>3. near = {n}
  BY <1>2 DEF Only, Single
<1>4. Meant(b, ref, cols) = {n} \X Named(cols[n], ref.column)
  BY <1>3 DEF Meant
<1>5. Named(cols[n], ref.column) = {m[2]}
  <2>1. \A j \in Named(cols[n], ref.column) : <<n, j>> = m
    BY <1>1, <1>4
  <2>. QED
    BY <1>2, <2>1
<1>6. Only(Meant(b, ref, cols)) = {m}
  BY <1>1 DEF Only, Single
<1>7. Roots(b, ref, cols) = cols[n][m[2]].roots
  BY <1>6 DEF Roots
<1>8. Roots(b, ref, cols) = RootsNamed(cols[n], ref.column)
  BY <1>5, <1>7 DEF RootsNamed
<1>9. ~PassedOver(b, ref, cols) /\ ref.qualifier = <<>> => Roots(b, ref, cols) # {}
  BY <1>1, <1>7 DEF PassedOver
<1>. QED
  BY <1>2, <1>8, <1>9

LEMMA UnqualifiedFacts ==
  ASSUME q \in Statements, NEW b \in QueryNodes, NEW cols, Over(cols, Nodes), SeenTold(b, cols),
         NEW ref, ref.qualifier = <<>>, ref.column \notin {Star, NoName},
         Single(Meant(b, ref, cols)), ~Strays(b, ref, cols)
  PROVE  Unqualified(Chain[b], ref.column) = Roots(b, ref, cols)
<1>. DEFINE chain == Chain[b]
            column == ref.column
            exposed(n) == Exposed(n, column)
            hits == {i \in DOMAIN chain : MapAll(chain[i], exposed) # {}}
<1>0. ~PassedOver(b, ref, cols)
  BY DEF Strays
<1>1. PICK n \in Nodes : /\ Nearest(SqlChain[b], Bearers(ref, cols)) = {n}
                         /\ Roots(b, ref, cols) = RootsNamed(cols[n], column) /\ Roots(b, ref, cols) # {}
  <2>1. \E n \in Nodes : /\ Nearest(SqlChain[b], Bearers(ref, cols)) = {n}
                         /\ Named(cols[n], ref.column) # {}
                         /\ Roots(b, ref, cols) = RootsNamed(cols[n], ref.column)
                         /\ ~PassedOver(b, ref, cols) /\ ref.qualifier = <<>> => Roots(b, ref, cols) # {}
    BY SingleMeant
  <2>. QED
    BY <1>0, <2>1
<1>2. PICK at : Innermost(b, ref, cols, n, at)
  BY <1>1, InnermostFacts
<1>3. /\ DOMAIN chain = 1 .. Len(chain) /\ Len(chain) \in Nat /\ \A i \in DOMAIN chain : chain[i] \subseteq Nodes
  BY ChainFacts
<1>4. at \in DOMAIN chain /\ n \in chain[at] /\ chain[at] \intersect Bearers(ref, cols) = {n}
  BY <1>2 DEF Innermost
<1>5. ASSUME NEW i \in DOMAIN chain, NEW x \in chain[i], x \notin Bearers(ref, cols)
      PROVE  exposed(x) = {}
  <2>1. CASE Within(x, b)
    BY <1>5, <2>1, EmptyExposed DEF SeenTold
  <2>2. CASE ~Within(x, b)
    <3>1. x \in Nodes /\ Told(x, cols)
      BY <1>3, <2>2 DEF SeenTold
    <3>3. exposed(x) = RootsNamed(cols[x], column)
      BY <3>1, ToldNames
    <3>4. Named(cols[x], column) = {}
      BY <1>5, <3>1 DEF Bearers
    <3>. QED
      BY <3>3, <3>4 DEF RootsNamed
  <2>. QED
    BY <2>1, <2>2
<1>6. exposed(n) = Roots(b, ref, cols)
  <2>1. ~Within(n, b)
    BY <1>1 DEF Strays, ReadsItself
  <2>2. Told(n, cols)
    BY <1>4, <2>1 DEF SeenTold
  <2>. QED
    BY <1>1, <2>2, ToldNames
<1>7. ASSUME NEW i \in DOMAIN chain, i < at
      PROVE  MapAll(chain[i], exposed) = {}
  <2>1. \A x \in chain[i] : x \notin Bearers(ref, cols)
    BY <1>2, <1>7 DEF Strays, Shadowed, Innermost
  <2>2. \A x \in chain[i] : exposed(x) = {}
    BY <1>5, <2>1
  <2>. QED
    BY <2>2 DEF MapAll
<1>8. MapAll(chain[at], exposed) = Roots(b, ref, cols)
  <2>1. \A x \in chain[at] : x # n => exposed(x) = {}
    BY <1>4, <1>5
  <2>. QED
    BY <1>4, <1>6, <2>1 DEF MapAll
<1>9. First(hits) = at /\ at # 0
  <2>1. hits \in SUBSET (Nat \ {0}) /\ at \in hits /\ at # 0
    <3>1. DOMAIN chain \in SUBSET (Nat \ {0})
      BY <1>3
    <3>2. at \in hits
      BY <1>1, <1>4, <1>8
    <3>3. hits \subseteq DOMAIN chain
      OBVIOUS
    <3>. HIDE DEF hits
    <3>. QED
      BY <3>1, <3>2, <3>3
  <2>2. \A i \in hits : ~(i < at)
    BY <1>7
  <2>. HIDE DEF hits
  <2>. QED
    BY <2>1, <2>2, FirstFacts
<1>10. First(hits) # 0 => Unqualified(chain, column) = MapAll(chain[First(hits)], exposed)
  BY DEF Unqualified
<1>. HIDE DEF hits
<1>. QED
  BY <1>8, <1>9, <1>10

(* The relation that bears a qualifier is found by its alias, or is a table  *)
(* whose name ends in it.                                                    *)
LEMMA BearerFacts ==
  ASSUME q \in Statements, NEW scope \in SUBSET Nodes, NEW qualifier \in Seq(STRING),
         qualifier # <<>>, NoName \notin ToSet(qualifier), NEW n,
         scope \intersect {m \in Nodes : Bears(m, qualifier)} = {n}
  PROVE  \/ WithAlias(scope, qualifier) = {n}
         \/ /\ WithAlias(scope, qualifier) = {} /\ Len(qualifier) > 1
            /\ IsPhysical(n) /\ n \in Matching(scope, qualifier)
<1>. DEFINE hits == {m \in scope : Alias(m) # NoName /\ qualifier = <<Alias(m)>>}
<1>1. n \in scope /\ n \in Nodes /\ n \in Nat /\ Bears(n, qualifier)
  BY StatementFacts
<1>2. hits \subseteq {n}
  BY DEF Bears
<1>3. WithAlias(scope, qualifier) = IF hits = {} THEN {} ELSE {Max(hits)}
  BY DEF WithAlias
<1>4. CASE qualifier = <<Alias(n)>>
  <2>1. Alias(n) # NoName
    BY <1>4 DEF ToSet
  <2>2. hits = {n}
    BY <1>1, <1>2, <1>4, <2>1
  <2>. HIDE DEF hits
  <2>3. Max(hits) \in hits
    <3>1. hits \in SUBSET Nat /\ hits # {} /\ n \in Nat /\ \A m \in hits : m <= n
      BY <1>1, <2>2
    <3>. QED
      BY <3>1, MaxFacts
  <2>. QED
    BY <1>3, <2>2, <2>3
<1>5. CASE qualifier # <<Alias(n)>>
  <2>1. q[n].kind = "table" /\ q[n].alias = NoName /\ IsSuffix(qualifier, q[n].name)
    BY <1>1, <1>5 DEF Bears
  <2>. DEFINE name == q[n].name
  <2>2. name \in Seq(STRING)
    BY <1>1, StatementFacts
  <2>3. Len(qualifier) \in Nat /\ Len(qualifier) # 0
    BY EmptySeq
  <2>. HIDE DEF name
  <2>4. /\ Len(name) # 0 /\ Len(qualifier) <= Len(name)
        /\ Len(qualifier) = 1 => qualifier[1] = name[Len(name)]
    BY <2>1, <2>2, <2>3, SuffixFacts DEF name
  <2>5. Len(qualifier) # 1
    <3>. SUFFICES ASSUME Len(qualifier) = 1 PROVE FALSE
      OBVIOUS
    <3>1. qualifier[1] = Alias(n)
      BY <2>1, <2>4 DEF Alias, BaseName, name
    <3>2. qualifier = <<qualifier[1]>>
      OBVIOUS
    <3>. QED
      BY <1>5, <3>1, <3>2
  <2>6. Len(qualifier) > 1 /\ Len(name) # 1
    <3>. DEFINE k == Len(qualifier)
                l == Len(name)
    <3>1. k \in Nat /\ l \in Nat /\ k # 0 /\ k # 1 /\ k <= l
      BY <2>2, <2>3, <2>4, <2>5
    <3>. HIDE DEF k, l
    <3>2. k > 1 /\ l # 1
      BY <3>1
    <3>. QED
      BY <3>2 DEF k, l
  <2>7. IsPhysical(n)
    BY <2>1, <2>6 DEF IsPhysical, CteOf, name
  <2>8. hits = {}
    BY <1>2, <1>5
  <2>9. n \in Matching(scope, qualifier)
    BY <1>1, <2>1, <2>7 DEF Matching
  <2>. HIDE DEF hits
  <2>. QED
    BY <1>3, <2>6, <2>7, <2>8, <2>9
<1>. QED
  BY <1>4, <1>5

LEMMA QualifiedFacts ==
  ASSUME q \in Statements, NEW b \in QueryNodes, NEW cols, Over(cols, Nodes), SeenTold(b, cols),
         NEW ref, ref.qualifier \in Seq(STRING), ref.qualifier # <<>>, NoName \notin ToSet(ref.qualifier),
         ref.column \notin {Star, NoName},
         Single(Meant(b, ref, cols)), ~Strays(b, ref, cols), ~Confused(b, ref)
  PROVE  Qualified(Chain[b], ref.qualifier, ref.column) = Roots(b, ref, cols)
<1>. DEFINE chain == Chain[b]
            column == ref.column
            qualifier == ref.qualifier
            found(i) == WithAlias(chain[i], qualifier) \union Matching(chain[i], qualifier)
            hits == {i \in DOMAIN chain : found(i) # {}}
<1>1. PICK n \in Nodes : /\ Nearest(SqlChain[b], Bearers(ref, cols)) = {n}
                         /\ Named(cols[n], column) # {}
                         /\ Roots(b, ref, cols) = RootsNamed(cols[n], column)
  BY SingleMeant, ZenonT(30)
<1>2. PICK at : Innermost(b, ref, cols, n, at)
  BY <1>1, InnermostFacts
<1>3. /\ DOMAIN chain = 1 .. Len(chain) /\ Len(chain) \in Nat /\ \A i \in DOMAIN chain : chain[i] \subseteq Nodes
  BY ChainFacts
<1>4. /\ at \in DOMAIN chain /\ at # 0 /\ n \in chain[at]
      /\ chain[at] \intersect {m \in Nodes : Bears(m, qualifier)} = {n}
  BY <1>2, <1>3 DEF Innermost, Bearers
<1>5. \A i \in DOMAIN chain : i < at => found(i) = {}
  BY <1>2 DEF Strays, CapturedNearer, Innermost
<1>6. \/ WithAlias(chain[at], qualifier) = {n}
      \/ /\ WithAlias(chain[at], qualifier) = {} /\ Len(qualifier) > 1
         /\ IsPhysical(n) /\ n \in Matching(chain[at], qualifier)
  BY <1>3, <1>4, BearerFacts
<1>7. First(hits) = at
  <2>1. hits \in SUBSET (Nat \ {0}) /\ at \in hits
    <3>1. hits \subseteq DOMAIN chain /\ DOMAIN chain \in SUBSET (Nat \ {0})
      BY <1>3
    <3>2. found(at) # {}
      BY <1>6
    <3>3. at \in hits
      BY <1>4, <3>2
    <3>. HIDE DEF hits
    <3>. QED
      BY <3>1, <3>3
  <2>2. \A i \in hits : ~(i < at)
    BY <1>5
  <2>. HIDE DEF hits
  <2>3. First(hits) = at
    BY <2>1, <2>2, FirstFacts
  <2>. QED
    BY <2>3
<1>8. Through(n, column) = Roots(b, ref, cols)
  <2>1. ~Within(n, b)
    BY <1>1 DEF Strays, ReadsItself
  <2>2. Told(n, cols)
    BY <1>4, <2>1 DEF SeenTold
  <2>3. column \notin {Star, NoName} /\ Named(cols[n], column) # {} /\ Roots(b, ref, cols) = RootsNamed(cols[n], column)
    BY <1>1
  <2>. HIDE DEF column
  <2>4. Through(n, column) = RootsNamed(cols[n], column)
    BY <2>2, <2>3, ToldNames
  <2>. QED
    BY <2>3, <2>4
<1>9. /\ First(hits) # 0 /\ WithAlias(chain[First(hits)], qualifier) # {} =>
           Qualified(chain, qualifier, column) = UNION {Through(m, column) : m \in WithAlias(chain[First(hits)], qualifier)}
      /\ First(hits) # 0 /\ WithAlias(chain[First(hits)], qualifier) = {} =>
           Qualified(chain, qualifier, column) = {Ref(q[m].name, column) : m \in Matching(chain[First(hits)], qualifier)}
  BY DEF Qualified
<1>. HIDE DEF hits, found
<1>10. CASE WithAlias(chain[at], qualifier) = {n}
  BY <1>4, <1>7, <1>8, <1>9, <1>10
<1>11. CASE /\ WithAlias(chain[at], qualifier) = {} /\ Len(qualifier) > 1
            /\ IsPhysical(n) /\ n \in Matching(chain[at], qualifier)
  <2>1. Matching(chain[at], qualifier) = {n}
    BY <1>4, <1>11 DEF Confused
  <2>2. Qualified(chain, qualifier, column) = {Ref(q[n].name, column)}
    BY <1>4, <1>7, <1>9, <1>11, <2>1
  <2>3. Through(n, column) = {Ref(q[n].name, column)}
    BY <1>11 DEF Through
  <2>. QED
    BY <1>8, <2>2, <2>3
<1>. QED
  BY <1>6, <1>10, <1>11

LEMMA ResolveFacts ==
  ASSUME q \in Statements, NEW b \in QueryNodes, NEW cols, Over(cols, Nodes), SeenTold(b, cols),
         NEW ref, ref.qualifier \in Seq(STRING), NoName \notin ToSet(ref.qualifier),
         ref.column \notin {Star, NoName},
         Single(Meant(b, ref, cols)), ~Strays(b, ref, cols), ~Confused(b, ref)
  PROVE  Resolve(b, ref.qualifier, ref.column) = Roots(b, ref, cols)
BY UnqualifiedFacts, QualifiedFacts DEF Resolve

(* A star is resolved to the columns of the relations it stands for.         *)
LEMMA StarredTold ==
  ASSUME q \in Statements, NEW b \in QueryNodes, NEW cols, Over(cols, Nodes), SeenTold(b, cols), NamesDistinct(cols),
         NEW qualifier, NEW n \in Starred(b, qualifier), ~Within(n, b), AllKept(cols[n])
  PROVE  n \in Nodes \ {Root} /\ StarOf(n) = cols[n] /\ cols[n] \in Seq(ColumnsOver(Nodes))
<1>1. PICK i \in DOMAIN SqlChain[b] : n \in SqlChain[b][i]
  BY StarredFacts
<1>2. i \in DOMAIN Chain[b] /\ n \in Chain[b][i] /\ n \in Nodes
  <2>1. /\ DOMAIN SqlChain[b] = DOMAIN Chain[b]
        /\ \A j \in DOMAIN Chain[b] : SqlChain[b][j] \in {Chain[b][j], {}} /\ Chain[b][j] \subseteq Nodes
    BY ChainFacts
  <2>. QED
    BY <1>1, <2>1
<1>3. n # Root
  <2>1. \E u : n \in Sources(u)
    <3>1. Chain[b][1] = Sources(b) /\ (i = 1 \/ Visible(n, b))
      BY <1>2, ChainFacts
    <3>. QED
      BY <1>2, <3>1 DEF Visible
  <2>. QED
    BY <2>1 DEF Sources, Kids
<1>4. Told(n, cols)
  BY <1>2 DEF SeenTold
<1>5. cols[n] \in Seq(ColumnsOver(Nodes))
  BY <1>2 DEF Over
<1>6. \A j \in DOMAIN cols[n] : Single(Named(cols[n], cols[n][j].name))
  BY <1>2, <1>3 DEF NamesDistinct
<1>7. /\ \A c : c \notin {Star, NoName} =>
           /\ Exposed(n, c) = RootsNamed(cols[n], c)
           /\ Named(cols[n], c) # {} => Through(n, c) = RootsNamed(cols[n], c)
      /\ AllKept(cols[n]) /\ (\A j \in DOMAIN cols[n] : Single(Named(cols[n], cols[n][j].name))) =>
           StarOf(n) = cols[n]
  BY <1>4, <1>5, ToldFacts
<1>. QED
  BY <1>2, <1>3, <1>5, <1>6, <1>7

LEMMA StarFacts ==
  ASSUME q \in Statements, NEW b \in QueryNodes, NEW cols, Over(cols, Nodes), SeenTold(b, cols), NamesDistinct(cols),
         NEW item, item.qualifier \in Seq(STRING), NoName \notin ToSet(item.qualifier), Len(item.qualifier) <= 1,
         StarPlain(b, item.qualifier, item, cols),
         item.qualifier # <<>> => Single(Starred(b, item.qualifier)),
         \A n \in Starred(b, item.qualifier) : AllKept(cols[n])
  PROVE  Expanded(b, item.qualifier) = StarIn(b, item.qualifier, cols)
<1>. DEFINE qualifier == item.qualifier
            found == Starred(b, qualifier)
<1>1. ASSUME NEW n \in found
      PROVE  n \in Nodes \ {Root} /\ StarOf(n) = cols[n] /\ cols[n] \in Seq(ColumnsOver(Nodes))
  <2>1. ~Within(n, b) /\ AllKept(cols[n])
    BY DEF StarPlain
  <2>. QED
    BY <2>1, StarredTold
<1>2. StarIn(b, qualifier, cols) = FlattenSeq([i \in 1 .. Cardinality(found) |-> cols[InOrder(found)[i]]])
  BY DEF StarIn
<1>3. CASE qualifier = <<>>
  <2>1. found = Sources(b) /\ found \in SUBSET Nodes
    BY <1>3, StarredFacts DEF Starred
  <2>2. \A i \in 1 .. Cardinality(found) : InOrder(found)[i] \in found
    BY <2>1, FiniteNodes, InOrderFacts
  <2>3. \A i \in 1 .. Cardinality(found) : StarOf(InOrder(found)[i]) = cols[InOrder(found)[i]]
    BY <1>1, <2>2
  <2>4. Expanded(b, qualifier) = FlattenSeq([i \in 1 .. Cardinality(found) |-> StarOf(InOrder(found)[i])])
    BY <1>3, <2>1 DEF Expanded
  <2>. HIDE DEF found
  <2>5. [i \in 1 .. Cardinality(found) |-> StarOf(InOrder(found)[i])] = [i \in 1 .. Cardinality(found) |-> cols[InOrder(found)[i]]]
    BY <2>3
  <2>. QED
    BY <1>2, <2>4, <2>5
<1>4. CASE qualifier # <<>>
  <2>. DEFINE chain == Chain[b]
              hits == {i \in DOMAIN chain : WithAlias(chain[i], qualifier) # {}}
  <2>1. PICK n : found = {n}
    BY <1>4 DEF Single
  <2>2. Bearers(item, cols) = {m \in Nodes : Bears(m, qualifier)} /\ Nearest(SqlChain[b], Bearers(item, cols)) = {n}
    BY <1>4, <2>1 DEF Bearers, Starred
  <2>3. PICK at : Innermost(b, item, cols, n, at)
    BY <2>2, InnermostFacts
  <2>4. /\ DOMAIN chain = 1 .. Len(chain) /\ Len(chain) \in Nat /\ \A i \in DOMAIN chain : chain[i] \subseteq Nodes
    BY ChainFacts
  <2>5. /\ at \in DOMAIN chain /\ at # 0 /\ n \in chain[at]
        /\ chain[at] \intersect {m \in Nodes : Bears(m, qualifier)} = {n}
    BY <2>2, <2>3, <2>4 DEF Innermost
  <2>6. \A i \in DOMAIN chain : i < at => WithAlias(chain[i], qualifier) = {}
    BY <1>4, <2>3 DEF StarPlain, CapturedNearer, Innermost
  <2>7. WithAlias(chain[at], qualifier) = {n}
    <3>1. ~(Len(qualifier) > 1)
      <4>. DEFINE k == Len(qualifier)
      <4>1. k \in Nat /\ k <= 1
        OBVIOUS
      <4>. HIDE DEF k
      <4>2. ~(k > 1)
        BY <4>1
      <4>. QED
        BY <4>2 DEF k
    <3>2. chain[at] \in SUBSET Nodes
      BY <2>4, <2>5
    <3>3. \/ WithAlias(chain[at], qualifier) = {n}
          \/ /\ WithAlias(chain[at], qualifier) = {} /\ Len(qualifier) > 1
             /\ IsPhysical(n) /\ n \in Matching(chain[at], qualifier)
      BY <1>4, <2>5, <3>2, BearerFacts
    <3>. QED
      BY <3>1, <3>3
  <2>8. First(hits) = at
    <3>1. hits \in SUBSET (Nat \ {0}) /\ at \in hits
      <4>1. DOMAIN chain \in SUBSET (Nat \ {0})
        BY <2>4
      <4>2. at \in hits /\ hits \subseteq DOMAIN chain
        BY <2>5, <2>7
      <4>. HIDE DEF hits
      <4>. QED
        BY <4>1, <4>2
    <3>2. \A i \in hits : ~(i < at)
      BY <2>6
    <3>. HIDE DEF hits
    <3>3. First(hits) = at
      BY <3>1, <3>2, FirstFacts
    <3>. QED
      BY <3>3
  <2>9. First(hits) # 0 => Expanded(b, qualifier) = StarOf(CHOOSE m \in WithAlias(chain[First(hits)], qualifier) : TRUE)
    BY <1>4 DEF Expanded
  <2>10. Expanded(b, qualifier) = StarOf(n)
    <3>. HIDE DEF hits
    <3>1. (CHOOSE m \in WithAlias(chain[at], qualifier) : TRUE) = n
      BY <2>7
    <3>. QED
      BY <2>5, <2>8, <2>9, <3>1
  <2>11. StarIn(b, qualifier, cols) = cols[n]
    <3>1. n \in Nat /\ cols[n] \in Seq(ColumnsOver(Nodes))
      BY <1>1, <2>1, StatementFacts
    <3>2. Cardinality({n}) = 1 /\ InOrder({n})[1] = n
      BY <3>1, InOrderOne
    <3>. DEFINE seqs == [i \in 1 .. Cardinality(found) |-> cols[InOrder(found)[i]]]
    <3>3. seqs \in [1 .. 1 -> Seq(ColumnsOver(Nodes))] /\ seqs[1] = cols[n]
      BY <2>1, <3>1, <3>2
    <3>. HIDE DEF seqs
    <3>4. FlattenSeq(seqs) = seqs[1]
      BY <3>3, FlattenFacts
    <3>. QED
      BY <1>2, <3>3, <3>4 DEF seqs
  <2>. QED
    BY <1>1, <2>1, <2>10, <2>11
<1>. QED
  BY <1>3, <1>4

(* The list of a query is resolved to the columns it selects.                *)
LEMMA ListRootsFacts ==
  ASSUME NEW R, NEW cs \in Seq(ColumnsOver(R))
  PROVE  UNION ToSet(Output(cs).positions) = UNION {c.roots : c \in ToSet(cs)}
<1>1. Output(cs).positions = RootsAt(cs)
  BY OutputFacts
<1>2. ToSet(RootsAt(cs)) = {cs[i].roots : i \in DOMAIN cs}
  BY DEF RootsAt, ToSet
<1>3. {c.roots : c \in ToSet(cs)} = {cs[i].roots : i \in DOMAIN cs}
  BY DEF ToSet
<1>. QED
  BY <1>1, <1>2, <1>3

ListsTold(b, cols) == \A k \in Kids(b, "list") : out[k] = Output(cols[k])

LEMMA ProjectedFacts ==
  ASSUME q \in Statements, NEW b \in QueryNodes, NEW cols, Over(cols, Nodes), SeenTold(b, cols),
         ListsFixed(cols), ListsMean(cols), ~flowOnly => StarsNamed(cols), ListsTold(b, cols)
  PROVE  Projected(b) = FlattenSeq(ItemCols(b, cols))
<1>. DEFINE items == q[b].items
            item(i) == items[i]
            got(i) == CASE item(i).column = Star   -> Expanded(b, item(i).qualifier)
                        [] item(i).column = NoName ->
                             <<Col(item(i).name, UNION {UNION ToSet(out[k].positions) : k \in Kids(b, "list")})>>
                        [] OTHER -> <<Col(item(i).name, Resolve(b, item(i).qualifier, item(i).column))>>
            due(i) == IF item(i).column = Star THEN StarIn(b, item(i).qualifier, cols)
                        ELSE <<Col(item(i).name, ItemRoots(b, item(i), cols))>>
<1>1. Projected(b) = FlattenSeq([i \in DOMAIN items |-> got(i)])
  BY DEF Projected
<1>2. ItemCols(b, cols) = [i \in DOMAIN items |-> due(i)]
  BY DEF ItemCols
<1>3. ASSUME NEW i \in DOMAIN items
      PROVE  got(i) = due(i)
  <2>1. /\ item(i).qualifier \in Seq(STRING) /\ NoName \notin ToSet(item(i).qualifier)
        /\ item(i) \in ToSet(items)
        /\ item(i).column = Star => Len(item(i).qualifier) <= 1
    BY ListFacts DEF QueryNodes
  <2>. DEFINE it == item(i)
  <2>2. CASE it.column = Star
    <3>1. StarPlain(b, it.qualifier, it, cols) /\ NamesDistinct(cols)
      BY <2>1, <2>2 DEF ListsFixed
    <3>2. it.qualifier # <<>> => Single(Starred(b, it.qualifier))
      <4>1. \A x \in ToSet(q[b].items) : x.column = Star =>
              (\/ StarIn(b, x.qualifier, cols) # <<>>
               \/ \E n \in Starred(b, x.qualifier) : IsBare(n))
              /\ (x.qualifier # <<>> => Single(Starred(b, x.qualifier)))
        BY NamesAssumption DEF ListsMean
      <4>. QED
        BY <2>1, <2>2, <4>1
    <3>3. \A n \in Starred(b, it.qualifier) : AllKept(cols[n])
      BY <2>1, <2>2 DEF StarsNamed, AllKept
    <3>4. Len(it.qualifier) <= 1 /\ it.qualifier \in Seq(STRING) /\ NoName \notin ToSet(it.qualifier)
      BY <2>1, <2>2
    <3>5. got(i) = Expanded(b, it.qualifier) /\ due(i) = StarIn(b, it.qualifier, cols)
      BY <2>2, NamesAssumption
    <3>. HIDE DEF it, got, due
    <3>6. Expanded(b, it.qualifier) = StarIn(b, it.qualifier, cols)
      BY <3>1, <3>2, <3>3, <3>4, StarFacts
    <3>. QED
      BY <3>5, <3>6
  <2>3. CASE it.column = NoName
    <3>1. \A k \in Kids(b, "list") : UNION ToSet(out[k].positions) = UNION {c.roots : c \in ToSet(cols[k])}
      <4>1. ASSUME NEW k \in Kids(b, "list")
            PROVE  UNION ToSet(out[k].positions) = UNION {c.roots : c \in ToSet(cols[k])}
        <5>1. k \in Nodes
          BY DEF Kids
        <5>2. cols[k] \in Seq(ColumnsOver(Nodes))
          BY <5>1 DEF Over
        <5>. QED
          BY <5>2, ListRootsFacts DEF ListsTold
      <4>. QED
        BY <4>1
    <3>2. ItemRoots(b, it, cols) = UNION {UNION {c.roots : c \in ToSet(cols[k])} : k \in Kids(b, "list")}
      BY <2>3 DEF ItemRoots
    <3>3. UNION {UNION ToSet(out[k].positions) : k \in Kids(b, "list")}
            = UNION {UNION {c.roots : c \in ToSet(cols[k])} : k \in Kids(b, "list")}
      BY <3>1
    <3>. HIDE DEF item
    <3>. QED
      BY <2>3, <3>2, <3>3, NamesAssumption
  <2>4. CASE it.column \notin {Star, NoName}
    <3>1. ~Strays(b, it, cols) /\ ~Confused(b, it)
      BY <2>1, <2>4 DEF ListsFixed
    <3>2. Single(Meant(b, it, cols))
      BY <2>1, <2>4 DEF ListsMean
    <3>3. ItemRoots(b, it, cols) = Roots(b, it, cols)
      BY <2>4 DEF ItemRoots
    <3>. HIDE DEF it
    <3>4. Resolve(b, it.qualifier, it.column) = Roots(b, it, cols)
      BY <2>1, <2>4, <3>1, <3>2, ResolveFacts DEF it
    <3>. QED
      BY <2>4, <3>3, <3>4 DEF it
  <2>. QED
    BY <2>2, <2>3, <2>4
<1>. HIDE DEF got, due
<1>4. [i \in DOMAIN items |-> got(i)] = [i \in DOMAIN items |-> due(i)]
  BY <1>3
<1>. QED
  BY <1>1, <1>2, <1>4

(* Columns that are renamed, or merged, are put out as they should be.       *)
LEMMA AliasedFacts ==
  ASSUME NEW R, NEW cs \in Seq(ColumnsOver(R)), NEW names \in Seq(STRING \ {Star, NoName}),
         names # <<>> => DOMAIN names = DOMAIN cs
  PROVE  Aliased(Output(cs), names) = Output(Renamed(cs, names))
<1>1. CASE names = <<>>
  <2>1. Renamed(cs, names) = cs
    BY <1>1, RenamedTyped
  <2>2. Aliased(Output(cs), names) = Output(cs)
    BY <1>1 DEF Aliased
  <2>. QED
    BY <2>1, <2>2
<1>2. CASE names # <<>>
  <2>. DEFINE positions == Output(cs).positions
              new == [i \in DOMAIN names |-> Col(names[i], IF i \in DOMAIN positions THEN positions[i] ELSE {})]
  <2>1. Aliased(Output(cs), names) = Output(new)
    BY <1>2 DEF Aliased
  <2>2. DOMAIN positions = DOMAIN cs /\ \A i \in DOMAIN cs : positions[i] = cs[i].roots
    <3>1. positions = RootsAt(cs)
      BY OutputFacts
    <3>. QED
      BY <3>1 DEF RootsAt
  <2>3. DOMAIN names = DOMAIN cs
    BY <1>2
  <2>. HIDE DEF positions
  <2>4. \A i \in DOMAIN cs : new[i] = Renamed(cs, names)[i]
    BY <2>2, <2>3 DEF Renamed
  <2>5. new = Renamed(cs, names)
    BY <2>3, <2>4 DEF Renamed
  <2>. QED
    BY <2>1, <2>5
<1>. QED
  BY <1>1, <1>2

(* Each name is that of one column, and none is lost.                        *)
Plain(cs) == AllKept(cs) /\ \A i \in DOMAIN cs : Single(Named(cs, cs[i].name))

LEMMA PlainFacts ==
  ASSUME NEW R, NEW cs \in Seq(ColumnsOver(R)), Plain(cs)
  PROVE  /\ Output(cs).names = ColNames(cs) /\ Output(cs).positions = RootsAt(cs)
         /\ DOMAIN Output(cs).byName = {cs[i].name : i \in DOMAIN cs}
         /\ \A i \in DOMAIN cs : /\ Output(cs).byName[cs[i].name] = cs[i].roots
                                 /\ Named(cs, cs[i].name) = {i}
         /\ Output(cs) = [names |-> ColNames(cs), byName |-> Output(cs).byName, positions |-> RootsAt(cs)]
<1>1. /\ Output(cs).positions = RootsAt(cs)
      /\ \A name \in DOMAIN Output(cs).byName : Output(cs).byName[name] = RootsNamed(cs, name)
      /\ DOMAIN Output(cs).byName = ToSet(Output(cs).names)
      /\ Output(cs) = [names |-> Output(cs).names, byName |-> Output(cs).byName, positions |-> Output(cs).positions]
      /\ Output(cs).names = ColNames(cs)
  BY OutputFacts DEF Plain
<1>2. ToSet(ColNames(cs)) = {cs[i].name : i \in DOMAIN cs}
  BY DEF ToSet, ColNames
<1>3. ASSUME NEW i \in DOMAIN cs
      PROVE  Output(cs).byName[cs[i].name] = cs[i].roots /\ Named(cs, cs[i].name) = {i}
  <2>1. i \in Named(cs, cs[i].name)
    BY DEF Named
  <2>2. Named(cs, cs[i].name) = {i}
    BY <2>1 DEF Plain, Single
  <2>3. cs[i].name \in DOMAIN Output(cs).byName
    BY <1>1, <1>2
  <2>. QED
    BY <1>1, <2>2, <2>3, OneNamed
<1>. QED
  BY <1>1, <1>2, <1>3

LEMMA MergedFacts ==
  ASSUME NEW R, NEW branch, branch[1] \in Seq(ColumnsOver(R)), branch[2] \in Seq(ColumnsOver(R)),
         DOMAIN branch[1] = DOMAIN branch[2], Plain(branch[1]), Plain(branch[2]), NEW b
  PROVE  Merged(b, Output(branch[1]), Output(branch[2])) = Output(UnionCols(branch, IncludeRight(b)))
<1>. DEFINE l == branch[1]
            r == branch[2]
            inc == IncludeRight(b)
            u == UnionCols(branch, inc)
            left == Output(l)
            right == IF inc THEN Output(r) ELSE EmptyOut
            last(name) == Max({i \in DOMAIN left.names : left.names[i] = name})
            longer == IF Len(left.positions) < Len(right.positions) THEN right.positions ELSE left.positions
            at(positions, i) == IF i \in DOMAIN positions THEN positions[i] ELSE {}
            add(i) == IF inc THEN r[i].roots ELSE {}
            byName == [name \in ToSet(left.names) |->
                         left.byName[name]
                           \union IF last(name) \in DOMAIN right.names
                                    THEN right.byName[right.names[last(name)]] ELSE {}]
            positions == [i \in DOMAIN longer |-> at(left.positions, i) \union at(right.positions, i)]
<1>1. Merged(b, Output(l), Output(r)) = [names |-> left.names, byName |-> byName, positions |-> positions]
  BY DEF Merged
<1>2. /\ Len(l) \in Nat /\ DOMAIN l = 1 .. Len(l) /\ Len(r) \in Nat /\ DOMAIN r = 1 .. Len(r) /\ DOMAIN l = DOMAIN r
      /\ Len(l) = Len(r)
  OBVIOUS
<1>3. /\ left.names = ColNames(l) /\ left.positions = RootsAt(l)
      /\ DOMAIN left.byName = {l[i].name : i \in DOMAIN l}
      /\ \A i \in DOMAIN l : left.byName[l[i].name] = l[i].roots /\ Named(l, l[i].name) = {i}
  <2>. HIDE DEF l
  <2>1. l \in Seq(ColumnsOver(R)) /\ Plain(l)
    BY DEF l
  <2>. QED
    BY <2>1, PlainFacts
<1>4. /\ Output(r).names = ColNames(r) /\ Output(r).positions = RootsAt(r)
      /\ \A i \in DOMAIN r : Output(r).byName[r[i].name] = r[i].roots
  <2>. HIDE DEF r
  <2>1. r \in Seq(ColumnsOver(R)) /\ Plain(r)
    BY DEF r
  <2>. QED
    BY <2>1, PlainFacts
<1>5. /\ DOMAIN u = DOMAIN l
      /\ \A i \in DOMAIN l : u[i].name = l[i].name /\ u[i].roots = l[i].roots \union add(i)
  BY <1>2 DEF UnionCols, Col
<1>6. u \in Seq(ColumnsOver(R))
  BY UnionColsTyped
<1>. HIDE DEF l, r, u, add
<1>7. \A name : Named(u, name) = Named(l, name)
  BY <1>5 DEF Named
<1>8. Plain(u)
  <2>1. AllKept(l) /\ \A i \in DOMAIN l : Single(Named(l, l[i].name))
    BY DEF Plain, l
  <2>. QED
    BY <1>5, <1>7, <2>1 DEF Plain, AllKept
<1>9. /\ DOMAIN Output(u).byName = {u[i].name : i \in DOMAIN u}
      /\ \A i \in DOMAIN u : Output(u).byName[u[i].name] = u[i].roots
      /\ Output(u) = [names |-> ColNames(u), byName |-> Output(u).byName, positions |-> RootsAt(u)]
  BY <1>6, <1>8, PlainFacts
<1>10. left.names = ColNames(u)
  BY <1>3, <1>5 DEF ColNames
<1>11. \A i \in DOMAIN l : /\ i \in DOMAIN right.names => right.byName[right.names[i]] = add(i)
                           /\ i \notin DOMAIN right.names => add(i) = {}
                           /\ at(right.positions, i) = add(i)
  <2>1. CASE inc
    <3>1. right = Output(r) /\ \A i : add(i) = r[i].roots
      BY <2>1 DEF add
    <3>2. DOMAIN ColNames(r) = DOMAIN l /\ DOMAIN RootsAt(r) = DOMAIN l
      BY <1>2 DEF ColNames, RootsAt, l, r
    <3>3. \A i \in DOMAIN l : ColNames(r)[i] = r[i].name /\ RootsAt(r)[i] = r[i].roots /\ i \in DOMAIN r
      BY <1>2 DEF ColNames, RootsAt, l, r
    <3>. HIDE DEF right
    <3>. QED
      BY <1>4, <3>1, <3>2, <3>3
  <2>2. CASE ~inc
    <3>1. right = EmptyOut /\ \A i : add(i) = {}
      BY <2>2 DEF add
    <3>. HIDE DEF right
    <3>2. right.names = <<>> /\ right.positions = <<>>
      BY <3>1, EmptyFacts
    <3>. QED
      BY <3>1, <3>2
  <2>. QED
    BY <2>1, <2>2
<1>12. longer = RootsAt(l)
  <2>1. Len(RootsAt(l)) = Len(l)
    BY <1>2 DEF RootsAt, l
  <2>2. ~(Len(left.positions) < Len(right.positions))
    <3>1. CASE inc
      <4>1. Len(RootsAt(r)) = Len(r)
        BY <1>2 DEF RootsAt, r
      <4>2. Len(right.positions) = Len(r) /\ Len(left.positions) = Len(l)
        BY <1>3, <1>4, <2>1, <3>1, <4>1
      <4>. QED
        BY <1>2, <4>2 DEF l, r
    <3>2. CASE ~inc
      <4>1. Len(right.positions) = 0 /\ Len(left.positions) = Len(l)
        BY <1>3, <2>1, <3>2, EmptyFacts
      <4>. QED
        BY <1>2, <4>1 DEF l
    <3>. QED
      BY <3>1, <3>2
  <2>. QED
    BY <1>3, <2>2
<1>. HIDE DEF left, right
<1>13. positions = RootsAt(u)
  <2>1. DOMAIN longer = DOMAIN l /\ \A i \in DOMAIN l : at(left.positions, i) = l[i].roots
    BY <1>3, <1>12 DEF RootsAt
  <2>. HIDE DEF longer, at
  <2>2. \A i \in DOMAIN l : at(left.positions, i) \union at(right.positions, i) = u[i].roots
    BY <1>5, <1>11, <2>1
  <2>. QED
    BY <1>5, <2>1, <2>2 DEF RootsAt
<1>14. byName = Output(u).byName
  <2>1. ToSet(left.names) = {u[i].name : i \in DOMAIN u}
    BY <1>10 DEF ToSet, ColNames
  <2>2. ASSUME NEW i \in DOMAIN u
        PROVE  byName[u[i].name] = Output(u).byName[u[i].name]
    <3>. DEFINE name == u[i].name
                hits == {j \in DOMAIN left.names : left.names[j] = name}
    <3>1. i \in DOMAIN l /\ name = l[i].name /\ i \in Nat
      BY <1>2, <1>5 DEF l
    <3>2. hits = Named(l, name)
      BY <1>3 DEF ColNames, Named
    <3>3. hits = {i}
      BY <1>3, <3>1, <3>2
    <3>4. last(name) = i
      <4>. HIDE DEF hits
      <4>1. hits \in SUBSET Nat /\ hits # {} /\ \A j \in hits : j <= i
        BY <3>1, <3>3
      <4>2. Max(hits) \in hits
        BY <3>1, <4>1, MaxFacts
      <4>. QED
        BY <3>3, <4>2 DEF hits
    <3>5. left.byName[name] = l[i].roots
      BY <1>3, <3>1
    <3>6. name \in ToSet(left.names)
      BY <2>1
    <3>. HIDE DEF last, name
    <3>7. byName[name] = left.byName[name] \union IF i \in DOMAIN right.names THEN right.byName[right.names[i]] ELSE {}
      BY <3>4, <3>6
    <3>8. byName[name] = l[i].roots \union add(i)
      BY <1>11, <3>1, <3>5, <3>7
    <3>. QED
      BY <1>5, <1>9, <3>1, <3>8 DEF name
  <2>. DEFINE other == Output(u).byName
  <2>3. DOMAIN byName = ToSet(left.names) /\ DOMAIN other = ToSet(left.names)
    BY <1>9, <2>1
  <2>4. \A name \in ToSet(left.names) : byName[name] = other[name]
    BY <2>1, <2>2
  <2>5. byName = [name \in ToSet(left.names) |-> byName[name]]
    OBVIOUS
  <2>6. other = [name \in ToSet(left.names) |-> other[name]]
    <3>1. other = [name \in ToSet(Output(u).names) |-> other[name]]
      BY DEF Output
    <3>2. DOMAIN other = ToSet(Output(u).names)
      BY <1>6, OutputFacts
    <3>. HIDE DEF other
    <3>. QED
      BY <2>3, <3>1, <3>2
  <2>. HIDE DEF byName, other
  <2>7. byName = other
    BY <2>4, <2>5, <2>6
  <2>. QED
    BY <2>7 DEF other
<1>. HIDE DEF byName, positions
<1>. QED
  BY <1>1, <1>9, <1>10, <1>13, <1>14 DEF l, r, u

-----------------------------------------------------------------------------
(* What is resolved is put out and recorded as it is in SQL.                 *)

(* The query has the output it should have; in ReferencedColumns, a          *)
(* statement that changes data has none.                                     *)
PutOut(b, cols) == (IsDML(b) /\ ~flowOnly) \/ out[b] = Output(cols[b])

(* What is found for a clause of a query, and for a reference in it, among    *)
(* the uses recorded.                                                        *)
FoundFor(found, b, clause) == {u.root : u \in {u \in found : u.at = b /\ u.clause = clause}}

FoundOf(found, b, clause, ref) == {u.root : u \in {u \in found : u.at = b /\ u.clause = clause /\ u.ref = ref}}

(* The query is read as in SQL.                                              *)
Understood(found, b, cols) ==
  /\ IsDML(b) => FoundFor(found, b, ListClause(b)) = UNION {c.roots : c \in ToSet(cols[b])}
  /\ \A clause \in ClausesOf(b), ref \in References :
       \/ Meaning(b, clause, ref, cols) \in {{}, FoundOf(found, b, clause, ref)}
       \/ OutputHidesInput(b, clause, ref, cols)
       \/ Strays(b, ref, cols)
       \/ Confused(b, ref)

Guarded(cols) == AllKnown /\ ListsFixed(cols) /\ NothingDropped(cols)

Solved(cols) == \A b \in DOMAIN out : PutOut(b, cols) /\ (~flowOnly => Understood(uses, b, cols))

Exact ==
  \A both \in BOOLEAN : \A cols :
    (both <=> ~flowOnly) /\ cols = ColsOf(both) /\ Guarded(cols) => Solved(cols)

(* The resolver is about to resolve Top, all before it being solved.         *)
Ready(cols, both) ==
  /\ Sound /\ Followed /\ Nested /\ Meaningful
  /\ stack # <<>> /\ Top \notin DOMAIN out /\ Before(Top) = {}
  /\ both \in BOOLEAN /\ (both <=> ~flowOnly) /\ cols = ColsOf(both)
  /\ Guarded(cols) /\ Solved(cols)

LEMMA SettledFacts ==
  ASSUME q \in Statements, Meaningful, NEW both \in BOOLEAN, NEW cols, cols = ColsOf(both)
  PROVE  /\ TablesExist /\ CteNamesDistinct /\ Settled(cols, both) /\ ListsMean(cols) /\ Over(cols, Nodes)
         /\ \A n \in Nodes : IsPhysical(n) => cols[n] = TableCols(n)
         /\ \A n \in Nodes : \A c : CteOf(n) = {c} => cols[n] = cols[c]
         /\ \A b \in Nodes : q[b].cols = <<>> => cols[b] = Selected(b, cols, both)
<1>1. TablesExist /\ CteNamesDistinct /\ Settled(cols, both) /\ ListsMean(cols)
  BY DEF Meaningful
<1>2. Over(cols, Nodes)
  BY <1>1, NodesClosed, ColsTyped
<1>3. ASSUME NEW n \in Nodes, q[n].cols = <<>>
      PROVE  cols[n] = Selected(n, cols, both)
  <2>. DEFINE own == Selected(n, cols, both)
  <2>1. own \in Seq(ColumnsOver(Nodes)) /\ q[n].cols \in Seq(STRING \ {Star, NoName})
    BY <1>1, <1>2, NodesClosed, SelectedTyped, ListFacts
  <2>2. cols[n] = Renamed(own, q[n].cols)
    BY <1>1 DEF Settled
  <2>. HIDE DEF own
  <2>3. Renamed(own, q[n].cols) = own
    BY <1>3, <2>1, RenamedTyped
  <2>. QED
    BY <2>2, <2>3 DEF own
<1>4. \A n \in Nodes : q[n].kind = "table" => q[n].cols = <<>>
  BY StatementFacts DEF NamedWell
<1>5. ASSUME NEW n \in Nodes, IsPhysical(n)
      PROVE  cols[n] = TableCols(n)
  <2>1. IsTable(n) /\ q[n].kind = "table"
    BY <1>1, <1>5, PhysicalIsTable DEF IsTable
  <2>2. Selected(n, cols, both) = TableCols(n)
    BY <2>1, SelectedFacts DEF SelectedCases
  <2>. QED
    BY <1>3, <1>4, <2>1, <2>2
<1>6. ASSUME NEW n \in Nodes, NEW c, CteOf(n) = {c}
      PROVE  cols[n] = cols[c]
  <2>1. DenotedCte(n) = {c} /\ q[n].kind = "table" /\ ~IsTable(n)
    BY <1>1, <1>6, CteOfFacts DEF IsTable
  <2>2. Selected(n, cols, both) = cols[CHOOSE d \in DenotedCte(n) : TRUE]
    BY <2>1, SelectedFacts DEF SelectedCases
  <2>3. (CHOOSE d \in DenotedCte(n) : TRUE) = c
    BY <2>1
  <2>. QED
    BY <1>3, <1>4, <2>1, <2>2, <2>3
<1>. QED
  BY <1>1, <1>2, <1>3, <1>5, <1>6

(* A query that is not the root puts out its columns.                        *)
LEMMA PutOutFacts ==
  ASSUME NEW cols, NEW both, Ready(cols, both), NEW k \in DOMAIN out, k # Root
  PROVE  out[k] = Output(cols[k])
<1>1. k \in Nodes /\ q \in Statements
  BY DEF Ready, Sound, QueryNodes
<1>2. ~IsDML(k)
  BY <1>1, StatementFacts
<1>. QED
  BY <1>2 DEF Ready, Solved, PutOut

LEMMA KidsKnown ==
  ASSUME NEW cols, NEW both, Ready(cols, both), NEW place \in {"list", "branch"}, NEW k \in Kids(Top, place)
  PROVE  k \in Nodes /\ k # Root /\ out[k] = Output(cols[k])
<1>1. q \in Statements /\ Sound /\ Nested /\ stack # <<>> /\ Before(Top) = {} /\ ~MutuallyRecursive /\ Top \in Nodes
  BY StackFacts DEF Ready, Sound, Guarded, ListsFixed, QueryNodes
<1>2. k \in Nodes \ {Root} /\ k \in QueryNodes /\ Top \in Nat /\ k \in Nat /\ Top < k
  BY <1>1, KidFacts
<1>3. k \in Inputs(Top) /\ k \in Reads(k)
  BY <1>2 DEF Inputs, Reads, QueryNodes
<1>4. k \notin Above[Top]
  <2>1. \A a \in Above[Top] : a <= Top
    BY <1>1, AboveFacts
  <2>. QED
    BY <1>2, <2>1
<1>5. k \in DOMAIN out
  BY <1>1, <1>3, <1>4, BeforeIsKnown
<1>. QED
  BY <1>2, <1>5, PutOutFacts

LEMMA SeenFacts ==
  ASSUME NEW cols, NEW both, Ready(cols, both)
  PROVE  SeenTold(Top, cols) /\ ListsTold(Top, cols)
<1>1. /\ q \in Statements /\ Sound /\ Followed /\ Nested /\ Meaningful /\ stack # <<>> /\ Before(Top) = {}
      /\ ~MutuallyRecursive /\ AllKnown /\ CteNamesDistinct
      /\ both \in BOOLEAN /\ cols = ColsOf(both) /\ Top \in QueryNodes
  BY StackFacts DEF Ready, Sound, Guarded, ListsFixed
<1>2. ASSUME NEW i \in DOMAIN Chain[Top], NEW n \in Chain[Top][i]
      PROVE  IF Within(n, Top) THEN ~IsPhysical(n) /\ OutputOf(n) = EmptyOut ELSE Told(n, cols)
  <2>1. n \in Nodes
    BY <1>1, ChainFacts
  <2>2. CASE IsPhysical(n)
    <3>1. ~Within(n, Top)
      BY <2>2 DEF IsPhysical, Within
    <3>2. Known(q[n].name) = {Actual[q[n].name]}
      BY <1>1, <2>1, <2>2 DEF AllKnown
    <3>3. cols[n] = TableCols(n)
      BY <1>1, <2>1, <2>2, SettledFacts
    <3>. QED
      BY <2>2, <3>1, <3>2, <3>3 DEF Told
  <2>3. CASE ~IsPhysical(n)
    <3>1. /\ n \in Nodes \ {Root} /\ Reads(n) = {Read(n)} /\ Read(n) \in QueryNodes \ {Root}
          /\ SourceKnown(n, Top)
      BY <1>1, <2>3, SeenIsKnown
    <3>2. CASE Within(n, Top)
      BY <2>3, <3>1, <3>2 DEF SourceKnown, OutputOf, Produced
    <3>3. CASE ~Within(n, Top)
      <4>1. Read(n) \in DOMAIN out /\ OutputOf(n) = out[Read(n)]
        BY <3>1, <3>3 DEF SourceKnown, OutputOf, Produced
      <4>2. out[Read(n)] = Output(cols[Read(n)])
        BY <3>1, <4>1, PutOutFacts
      <4>3. cols[n] = cols[Read(n)]
        <5>1. CASE q[n].kind = "table"
          <6>1. CteOf(n) = {Read(n)}
            BY <3>1, <5>1 DEF Reads
          <6>. HIDE DEF Read
          <6>. QED
            BY <1>1, <2>1, <6>1, SettledFacts
        <5>2. CASE q[n].kind # "table"
          <6>1. Read(n) = n
            BY <5>2 DEF Reads, Read
          <6>. QED
            BY <6>1
        <5>. QED
          BY <5>1, <5>2
      <4>. QED
        BY <2>3, <3>3, <4>1, <4>2, <4>3 DEF Told
    <3>. QED
      BY <3>2, <3>3
  <2>. QED
    BY <2>2, <2>3
<1>3. SeenTold(Top, cols)
  BY <1>2 DEF SeenTold
<1>4. ListsTold(Top, cols)
  BY KidsKnown DEF ListsTold
<1>. QED
  BY <1>3, <1>4

LEMMA ReadyFacts ==
  ASSUME NEW cols, NEW both, Ready(cols, both)
  PROVE  /\ q \in Statements /\ Top \in QueryNodes /\ Top \in Nodes
         /\ TablesExist /\ CteNamesDistinct /\ Settled(cols, both) /\ ListsMean(cols) /\ Over(cols, Nodes)
         /\ ListsFixed(cols) /\ (~flowOnly => StarsNamed(cols) /\ BranchesNamed(cols))
         /\ SeenTold(Top, cols) /\ ListsTold(Top, cols)
         /\ Selected(Top, cols, both) \in Seq(ColumnsOver(Nodes))
<1>1. /\ q \in Statements /\ Meaningful /\ Top \in QueryNodes
      /\ ListsFixed(cols) /\ NothingDropped(cols)
      /\ both \in BOOLEAN /\ cols = ColsOf(both)
  BY StackFacts DEF Ready, Sound, Guarded
<1>2. Top \in Nodes
  BY <1>1 DEF QueryNodes
<1>3. TablesExist /\ CteNamesDistinct /\ Settled(cols, both) /\ ListsMean(cols) /\ Over(cols, Nodes)
  BY <1>1, SettledFacts
<1>4. SeenTold(Top, cols) /\ ListsTold(Top, cols)
  BY SeenFacts
<1>5. Selected(Top, cols, both) \in Seq(ColumnsOver(Nodes))
  BY <1>1, <1>2, <1>3, NodesClosed, SelectedTyped
<1>. QED
  BY <1>1, <1>2, <1>3, <1>4, <1>5 DEF NothingDropped

LEMMA ListSolved ==
  ASSUME NEW cols, NEW both, Ready(cols, both), q[Top].kind = "select" \/ IsDML(Top)
  PROVE  Projected(Top) = Selected(Top, cols, both)
<1>1. /\ q \in Statements /\ Top \in QueryNodes /\ Over(cols, Nodes) /\ SeenTold(Top, cols)
      /\ ListsFixed(cols) /\ ListsMean(cols) /\ (~flowOnly => StarsNamed(cols)) /\ ListsTold(Top, cols)
  BY ReadyFacts
<1>2. Projected(Top) = FlattenSeq(ItemCols(Top, cols))
  BY <1>1, ProjectedFacts
<1>3. Selected(Top, cols, both) = FlattenSeq(ItemCols(Top, cols))
  BY SelectedFacts DEF SelectedCases
<1>. QED
  BY <1>2, <1>3

LEMMA MergeSolved ==
  ASSUME NEW cols, NEW both, Ready(cols, both), q[Top].kind = "setop"
  PROVE  LET branch == InOrder(Kids(Top, "branch"))
         IN  Merged(Top, out[branch[1]], out[branch[2]]) = Output(Selected(Top, cols, both))
<1>. DEFINE branch == InOrder(Kids(Top, "branch"))
            put == Branches(Top, cols)
<1>1. /\ q \in Statements /\ Top \in QueryNodes /\ Top \in Nodes /\ Over(cols, Nodes) /\ Settled(cols, both)
      /\ ListsFixed(cols) /\ (~flowOnly => BranchesNamed(cols))
  BY ReadyFacts
<1>2. branch[1] \in Kids(Top, "branch") /\ branch[2] \in Kids(Top, "branch")
  BY <1>1, BranchFacts
<1>3. ASSUME NEW k \in Kids(Top, "branch")
      PROVE  out[k] = Output(cols[k]) /\ cols[k] \in Seq(ColumnsOver(Nodes)) /\ Plain(cols[k])
  <2>1. k \in Nodes /\ k # Root /\ out[k] = Output(cols[k])
    BY KidsKnown
  <2>2. cols[k] \in Seq(ColumnsOver(Nodes))
    BY <1>1, <2>1 DEF Over
  <2>3. \A i \in DOMAIN cols[k] : Single(Named(cols[k], cols[k][i].name))
    BY <1>1, <2>1 DEF ListsFixed, NamesDistinct
  <2>4. k \in QueryNodes /\ q[k].place = "branch"
    BY <1>1, KidFacts
  <2>5. AllKept(cols[k])
    BY <1>1, <2>4 DEF AllKept, BranchesNamed
  <2>. QED
    BY <2>1, <2>2, <2>3, <2>5 DEF Plain
<1>4. put[1] = cols[branch[1]] /\ put[2] = cols[branch[2]]
  BY DEF Branches
<1>5. DOMAIN put[1] = DOMAIN put[2]
  BY <1>1, <1>2, <1>4 DEF Settled
<1>6. Selected(Top, cols, both) = UnionCols(put, both \/ q[Top].union)
  BY SelectedFacts DEF SelectedCases
<1>7. UnionCols(put, both \/ q[Top].union) = UnionCols(put, IncludeRight(Top))
  <2>1. both <=> ~flowOnly
    BY DEF Ready
  <2>. HIDE DEF put
  <2>. QED
    BY <2>1 DEF UnionCols, IncludeRight
<1>. HIDE DEF branch, put
<1>8. /\ put[1] \in Seq(ColumnsOver(Nodes)) /\ put[2] \in Seq(ColumnsOver(Nodes)) /\ Plain(put[1]) /\ Plain(put[2])
      /\ out[branch[1]] = Output(put[1]) /\ out[branch[2]] = Output(put[2])
  BY <1>2, <1>3, <1>4
<1>9. Merged(Top, Output(put[1]), Output(put[2])) = Output(UnionCols(put, IncludeRight(Top)))
  BY <1>5, <1>8, MergedFacts
<1>10. Merged(Top, out[branch[1]], out[branch[2]]) = Output(Selected(Top, cols, both))
  BY <1>6, <1>7, <1>8, <1>9
<1>. QED
  BY <1>10 DEF branch

LEMMA AliasSolved ==
  ASSUME NEW cols, NEW both, Ready(cols, both)
  PROVE  /\ Aliased(Output(Selected(Top, cols, both)), q[Top].cols) = Output(cols[Top])
         /\ IsDML(Top) => Selected(Top, cols, both) = cols[Top]
<1>. DEFINE own == Selected(Top, cols, both)
            names == q[Top].cols
<1>1. /\ q \in Statements /\ Top \in QueryNodes /\ Top \in Nodes /\ Settled(cols, both)
      /\ own \in Seq(ColumnsOver(Nodes))
  BY ReadyFacts
<1>2. names \in Seq(STRING \ {Star, NoName})
  BY <1>1, ListFacts
<1>3. cols[Top] = Renamed(own, names) /\ (names # <<>> => DOMAIN names = DOMAIN cols[Top])
  BY <1>1 DEF Settled
<1>. HIDE DEF own
<1>4. DOMAIN Renamed(own, names) = DOMAIN own /\ (names = <<>> => Renamed(own, names) = own)
  BY <1>1, <1>2, RenamedTyped
<1>5. Aliased(Output(own), names) = Output(Renamed(own, names))
  BY <1>1, <1>2, <1>3, <1>4, AliasedFacts
<1>6. IsDML(Top) => names = <<>>
  BY <1>1, StatementFacts DEF NamedWell
<1>. QED
  BY <1>3, <1>4, <1>5, <1>6 DEF own

-----------------------------------------------------------------------------
(* What is recorded for a query.                                             *)

LEMMA ListUsesFacts ==
  ASSUME NEW b, NEW cols
  PROVE  /\ \A i \in DOMAIN cols : \A r \in cols[i].roots :
              Use(b, ListClause(b), [position |-> i], r) \in ListUses(b, cols)
         /\ \A u \in ListUses(b, cols) : u.clause = ListClause(b) /\ \E i \in DOMAIN cols : u.root \in cols[i].roots
<1>. DEFINE use(i, r) == Use(b, ListClause(b), [position |-> i], r)
            of(i) == {use(i, r) : r \in cols[i].roots}
<1>1. ListUses(b, cols) = UNION {of(i) : i \in DOMAIN cols}
  BY DEF ListUses
<1>2. \A i, r : use(i, r).clause = ListClause(b) /\ use(i, r).root = r
  BY DEF Use
<1>. HIDE DEF use
<1>3. ASSUME NEW u \in ListUses(b, cols)
      PROVE  u.clause = ListClause(b) /\ \E i \in DOMAIN cols : u.root \in cols[i].roots
  <2>1. PICK i \in DOMAIN cols : u \in of(i)
    BY <1>1
  <2>2. PICK r \in cols[i].roots : u = use(i, r)
    BY <2>1
  <2>. QED
    BY <1>2, <2>2
<1>4. ASSUME NEW i \in DOMAIN cols, NEW r \in cols[i].roots
      PROVE  use(i, r) \in ListUses(b, cols)
  BY <1>1
<1>. QED
  BY <1>3, <1>4 DEF use

LEMMA OrdinalUsesFacts ==
  ASSUME NEW b, NEW result, NEW clause, NEW u \in OrdinalUses(b, clause, result)
  PROVE  u.clause = clause /\ \E i : u.ref = [position |-> i]
<1>. DEFINE use(i, r) == Use(b, clause, [position |-> i], r)
            of(i) == {use(i, r) : r \in result.positions[i]}
<1>1. OrdinalUses(b, clause, result) = UNION {of(i) : i \in Ordinals \intersect DOMAIN result.positions}
  BY DEF OrdinalUses
<1>2. \A i, r : use(i, r).clause = clause /\ use(i, r).ref = [position |-> i]
  BY DEF Use
<1>. HIDE DEF use
<1>3. PICK i \in Ordinals \intersect DOMAIN result.positions : u \in of(i)
  BY <1>1
<1>4. PICK r \in result.positions[i] : u = use(i, r)
  BY <1>3
<1>5. u.clause = clause /\ u.ref = [position |-> i]
  BY <1>2, <1>4
<1>. QED
  BY <1>5

LEMMA ClauseUsesFacts ==
  ASSUME NEW b, NEW result
  PROVE  /\ \A clause \in ClausesOf(b), ref \in References : \A r \in ReadAs(b, clause, ref, result) :
              Use(b, clause, ref, r) \in ClauseUses(b, result)
         /\ \A u \in ClauseUses(b, result) :
              \/ u.clause \in {"GROUP BY", "ORDER BY"} /\ \E i : u.ref = [position |-> i]
              \/ \E clause \in ClausesOf(b) : \E ref \in References :
                   u.clause = clause /\ u.ref = ref /\ u.root \in ReadAs(b, clause, ref, result)
<1>0. ASSUME NEW clause, NEW u \in OrdinalUses(b, clause, result)
      PROVE  u.clause = clause /\ \E i : u.ref = [position |-> i]
  BY <1>0, OrdinalUsesFacts
<1>. DEFINE use(clause, ref, r) == Use(b, clause, ref, r)
            read(clause, ref) == ReadAs(b, clause, ref, result)
            of(clause, ref) == {use(clause, ref, r) : r \in read(clause, ref)}
            in(clause) == UNION {of(clause, ref) : ref \in References}
            all == UNION {in(clause) : clause \in ClausesOf(b)}
            ordinals(clause) == OrdinalUses(b, clause, result)
            placed == UNION {ordinals(clause) : clause \in ClausesOf(b) \intersect {"GROUP BY", "ORDER BY"}}
<1>1. ClauseUses(b, result) = all \union placed
  BY DEF ClauseUses
<1>2. \A clause, ref, r : use(clause, ref, r).clause = clause /\ use(clause, ref, r).ref = ref /\ use(clause, ref, r).root = r
  BY DEF Use
<1>. HIDE DEF use, read
<1>3. ASSUME NEW u \in ClauseUses(b, result)
      PROVE  \/ u.clause \in {"GROUP BY", "ORDER BY"} /\ \E i : u.ref = [position |-> i]
             \/ \E clause \in ClausesOf(b) : \E ref \in References :
                  u.clause = clause /\ u.ref = ref /\ u.root \in read(clause, ref)
  <2>1. CASE u \in placed
    <3>1. PICK clause \in ClausesOf(b) \intersect {"GROUP BY", "ORDER BY"} : u \in ordinals(clause)
      BY <2>1
    <3>2. u \in OrdinalUses(b, clause, result)
      BY <3>1
    <3>. HIDE DEF ordinals
    <3>3. u.clause = clause /\ \E i : u.ref = [position |-> i]
      BY <1>0, <3>2
    <3>. QED
      BY <3>1, <3>3
  <2>2. CASE u \in all
    <3>1. PICK clause \in ClausesOf(b) : u \in in(clause)
      BY <2>2
    <3>2. PICK ref \in References : u \in of(clause, ref)
      BY <3>1
    <3>3. PICK r \in read(clause, ref) : u = use(clause, ref, r)
      BY <3>2
    <3>4. u.clause = clause /\ u.ref = ref /\ u.root \in read(clause, ref)
      BY <1>2, <3>3
    <3>. QED
      BY <3>4
  <2>. QED
    BY <1>1, <1>3, <2>1, <2>2
<1>4. ASSUME NEW clause \in ClausesOf(b), NEW ref \in References, NEW r \in read(clause, ref)
      PROVE  use(clause, ref, r) \in ClauseUses(b, result)
  <2>1. use(clause, ref, r) \in of(clause, ref)
    OBVIOUS
  <2>. HIDE DEF of
  <2>2. use(clause, ref, r) \in in(clause)
    BY <2>1
  <2>. HIDE DEF in
  <2>3. use(clause, ref, r) \in all
    BY <2>2
  <2>. QED
    BY <1>1, <2>3
<1>. HIDE DEF of, in, all, placed
<1>. QED
  BY <1>3, <1>4 DEF use, read

LEMMA ClauseNames ==
  \A b : /\ ListClause(b) \notin ClausesOf(b) /\ ListClause(b) \notin {"GROUP BY", "ORDER BY", "UPDATE_SET_TARGET"}
         /\ "UPDATE_SET_TARGET" \notin ClausesOf(b)
BY DEF ListClause, ClausesOf, SelectClauses

LEMMA ReferenceFacts ==
  ASSUME NEW ref \in References, NEW i
  PROVE  ref # [position |-> i]
<1>1. DOMAIN ref = {"qualifier", "column"}
  BY DEF References
<1>2. DOMAIN [position |-> i] = {"position"}
  OBVIOUS
<1>. QED
  BY <1>1, <1>2

(* What a step records for the clauses and for the list of a query.          *)
FromList(extra, b, cols) == extra \in {{}, ListUses(b, cols), ListUses(b, cols) \union TargetUses(b)}

LEMMA StepUsesFacts ==
  ASSUME NEW b, NEW cols, NEW result, NEW extra, FromList(extra, b, cols),
         NEW new, new = extra \union ClauseUses(b, result)
  PROVE  /\ \A clause \in ClausesOf(b), ref \in References :
              FoundOf(new, b, clause, ref) = ReadAs(b, clause, ref, result)
         /\ ListUses(b, cols) \subseteq extra =>
              FoundFor(new, b, ListClause(b)) = UNION {cols[i].roots : i \in DOMAIN cols}
<1>1. /\ \A i \in DOMAIN cols : \A r \in cols[i].roots :
           Use(b, ListClause(b), [position |-> i], r) \in ListUses(b, cols)
      /\ \A u \in ListUses(b, cols) : u.clause = ListClause(b) /\ \E i \in DOMAIN cols : u.root \in cols[i].roots
  BY ListUsesFacts
<1>2. /\ \A clause \in ClausesOf(b), ref \in References : \A r \in ReadAs(b, clause, ref, result) :
           Use(b, clause, ref, r) \in ClauseUses(b, result)
      /\ \A u \in ClauseUses(b, result) :
           \/ u.clause \in {"GROUP BY", "ORDER BY"} /\ \E i : u.ref = [position |-> i]
           \/ \E clause \in ClausesOf(b) : \E ref \in References :
                u.clause = clause /\ u.ref = ref /\ u.root \in ReadAs(b, clause, ref, result)
  BY ClauseUsesFacts
<1>3. \A u \in TargetUses(b) : u.clause = "UPDATE_SET_TARGET"
  <2>. DEFINE of(i, qualifier) ==
                {Use(b, "UPDATE_SET_TARGET", [position |-> i, qualifier |-> qualifier], r) :
                   r \in Assigned(b, qualifier, q[b].items[i].name)}
              at(i) == UNION {of(i, qualifier) : qualifier \in Qualifiers}
  <2>. SUFFICES ASSUME NEW u \in TargetUses(b) PROVE u.clause = "UPDATE_SET_TARGET"
    OBVIOUS
  <2>1. PICK i \in {i \in DOMAIN q[b].items : q[b].kind = "update"} : u \in at(i)
    BY DEF TargetUses
  <2>2. PICK qualifier \in Qualifiers : u \in of(i, qualifier)
    BY <2>1
  <2>. QED
    BY <2>2 DEF Use
<1>4. \A u \in extra : u \in ListUses(b, cols) \/ u \in TargetUses(b)
  BY DEF FromList
<1>5. /\ ListClause(b) \notin ClausesOf(b) /\ ListClause(b) \notin {"GROUP BY", "ORDER BY", "UPDATE_SET_TARGET"}
      /\ "UPDATE_SET_TARGET" \notin ClausesOf(b)
  BY ClauseNames
<1>6. ASSUME NEW clause \in ClausesOf(b), NEW ref \in References
      PROVE  FoundOf(new, b, clause, ref) = ReadAs(b, clause, ref, result)
  <2>. DEFINE read == ReadAs(b, clause, ref, result)
  <2>1. ASSUME NEW r \in read
        PROVE  r \in FoundOf(new, b, clause, ref)
    <3>1. Use(b, clause, ref, r) \in new
      BY <1>2
    <3>2. LET u == Use(b, clause, ref, r) IN u.at = b /\ u.clause = clause /\ u.ref = ref /\ u.root = r
      BY DEF Use
    <3>. QED
      BY <3>1, <3>2 DEF FoundOf
  <2>2. ASSUME NEW u \in new, u.at = b, u.clause = clause, u.ref = ref
        PROVE  u.root \in read
    <3>1. u \notin ListUses(b, cols)
      BY <1>1, <1>5, <2>2
    <3>2. u \notin TargetUses(b)
      BY <1>3, <1>5, <2>2
    <3>3. u \in ClauseUses(b, result)
      BY <1>4, <3>1, <3>2
    <3>4. \A i : u.ref # [position |-> i]
      BY <2>2, ReferenceFacts
    <3>. QED
      BY <1>2, <2>2, <3>3, <3>4
  <2>. HIDE DEF read
  <2>3. \A r \in FoundOf(new, b, clause, ref) : r \in read
    BY <2>2 DEF FoundOf
  <2>4. FoundOf(new, b, clause, ref) = read
    BY <2>1, <2>3
  <2>. QED
    BY <2>4 DEF read
<1>7. ASSUME ListUses(b, cols) \subseteq extra
      PROVE  FoundFor(new, b, ListClause(b)) = UNION {cols[i].roots : i \in DOMAIN cols}
  <2>. DEFINE roots == UNION {cols[i].roots : i \in DOMAIN cols}
  <2>1. ASSUME NEW r \in roots
        PROVE  r \in FoundFor(new, b, ListClause(b))
    <3>1. PICK i \in DOMAIN cols : r \in cols[i].roots
      OBVIOUS
    <3>2. Use(b, ListClause(b), [position |-> i], r) \in new
      BY <1>1, <1>7, <3>1
    <3>3. LET u == Use(b, ListClause(b), [position |-> i], r) IN u.at = b /\ u.clause = ListClause(b) /\ u.root = r
      BY DEF Use
    <3>. QED
      BY <3>2, <3>3 DEF FoundFor
  <2>2. ASSUME NEW u \in new, u.clause = ListClause(b)
        PROVE  u.root \in roots
    <3>1. u \notin TargetUses(b)
      BY <1>3, <1>5, <2>2
    <3>2. u \notin ClauseUses(b, result)
      BY <1>2, <1>5, <2>2
    <3>3. u \in ListUses(b, cols)
      BY <1>4, <3>1, <3>2
    <3>. QED
      BY <1>1, <3>3
  <2>. HIDE DEF roots
  <2>3. \A r \in FoundFor(new, b, ListClause(b)) : r \in roots
    BY <2>2 DEF FoundFor
  <2>4. FoundFor(new, b, ListClause(b)) = roots
    BY <2>1, <2>3
  <2>. QED
    BY <2>4 DEF roots
<1>. QED
  BY <1>6, <1>7

(* What a step records for a reference of a clause is what it reads it as.   *)
LEMMA StepReads ==
  ASSUME NEW b, NEW cols, NEW result, NEW extra, FromList(extra, b, cols),
         NEW clause \in ClausesOf(b), NEW ref \in References
  PROVE  FoundOf(extra \union ClauseUses(b, result), b, clause, ref) = ReadAs(b, clause, ref, result)
BY StepUsesFacts

-----------------------------------------------------------------------------
(* What is recorded for a reference of a clause is what it means.            *)

LEMMA OneItem ==
  ASSUME NEW S, NEW x \in S
  PROVE  <<x>> \in Seq(S) /\ ToSet(<<x>>) = {x}
<1>. DEFINE one == <<x>>
<1>1. one \in Seq(S) /\ Len(one) = 1 /\ one[1] = x
  OBVIOUS
<1>2. DOMAIN one = 1 .. Len(one)
  BY <1>1
<1>3. ToSet(one) = {one[i] : i \in DOMAIN one}
  BY DEF ToSet
<1>. HIDE DEF one
<1>4. ToSet(one) = {x}
  BY <1>1, <1>2, <1>3
<1>. QED
  BY <1>1, <1>4 DEF one

LEMMA ReferencesTyped ==
  ASSUME q \in Statements, NEW ref \in References
  PROVE  /\ ref.qualifier \in Seq(STRING) /\ NoName \notin ToSet(ref.qualifier)
         /\ ref.column \notin {Star, NoName}
<1>1. ref.qualifier \in Qualifiers /\ ref.column \in ColumnNames /\ ref.column # NoName
  BY DEF References
<1>2. ASSUME NEW name \in STRING, name # NoName
      PROVE  <<name>> \in Seq(STRING) /\ NoName \notin ToSet(<<name>>)
  <2>. DEFINE S == STRING
  <2>1. name \in S /\ name # NoName
    BY <1>2
  <2>. HIDE DEF S
  <2>2. <<name>> \in Seq(S) /\ ToSet(<<name>>) = {name}
    BY <2>1, OneItem
  <2>. QED
    BY <2>1, <2>2 DEF S
<1>3. ASSUME NEW n \in Nodes, q[n].kind = "table", NEW qualifier \in {<<Alias(n)>>, q[n].name}
      PROVE  qualifier \in Seq(STRING) /\ NoName \notin ToSet(qualifier)
  <2>1. q[n].name \in Seq(STRING) /\ q[n].name # <<>> /\ NoName \notin ToSet(q[n].name) /\ q[n].alias \in STRING
    BY <1>3, StatementFacts DEF NamedWell
  <2>2. BaseName(n) \in STRING /\ BaseName(n) # NoName
    <3>. DEFINE name == q[n].name
    <3>1. name \in Seq(STRING) /\ name # <<>> /\ NoName \notin ToSet(name)
      BY <2>1
    <3>. HIDE DEF name
    <3>2. Len(name) \in DOMAIN name
      BY <3>1, EmptySeq
    <3>3. name[Len(name)] \in STRING /\ name[Len(name)] # NoName
      BY <3>1, <3>2 DEF ToSet
    <3>. QED
      BY <3>3 DEF BaseName, name
  <2>3. Alias(n) \in STRING /\ Alias(n) # NoName
    BY <1>3, <2>1, <2>2 DEF Alias
  <2>. QED
    BY <1>2, <2>1, <2>3
<1>4. \A n \in Nodes : q[n].alias \in STRING
  BY StatementFacts
<1>5. ref.qualifier \in Seq(STRING) /\ NoName \notin ToSet(ref.qualifier)
  <2>1. \/ ref.qualifier = <<>>
        \/ \E n \in Nodes : q[n].kind = "table" /\ ref.qualifier \in {<<Alias(n)>>, q[n].name}
        \/ \E n \in QueryNodes : q[n].alias # NoName /\ ref.qualifier = <<q[n].alias>>
    BY <1>1 DEF Qualifiers
  <2>2. CASE ref.qualifier = <<>>
    BY <2>2 DEF ToSet
  <2>3. CASE \E n \in QueryNodes : q[n].alias # NoName /\ ref.qualifier = <<q[n].alias>>
    BY <1>2, <1>4, <2>3 DEF QueryNodes
  <2>. QED
    BY <1>3, <2>1, <2>2, <2>3
<1>6. ref.column # Star
  <2>1. \/ \E t \in DOMAIN Actual : ref.column \in ToSet(Actual[t])
        \/ \E b \in QueryNodes : ref.column \in ToSet(q[b].cols)
        \/ \E b \in QueryNodes : \E item \in ToSet(q[b].items) : ref.column = item.name
    BY <1>1 DEF ColumnNames
  <2>2. CASE \E t \in DOMAIN Actual : ref.column \in ToSet(Actual[t])
    <3>1. PICK t \in DOMAIN Actual : ref.column \in ToSet(Actual[t])
      BY <2>2
    <3>. DEFINE names == Actual[t]
    <3>2. names \in Seq(STRING \ {Star, NoName}) /\ ref.column \in ToSet(names)
      BY <3>1, NamesAssumption
    <3>. HIDE DEF names
    <3>. QED
      BY <3>2 DEF ToSet
  <2>3. CASE \E b \in QueryNodes : ref.column \in ToSet(q[b].cols)
    <3>1. PICK b \in QueryNodes : ref.column \in ToSet(q[b].cols)
      BY <2>3
    <3>2. NamedWell(q, b)
      BY StatementFacts DEF QueryNodes
    <3>. QED
      BY <3>1, <3>2 DEF NamedWell
  <2>4. CASE \E b \in QueryNodes : \E item \in ToSet(q[b].items) : ref.column = item.name
    <3>1. PICK b \in QueryNodes : \E item \in ToSet(q[b].items) : ref.column = item.name
      BY <2>4
    <3>2. NamedWell(q, b)
      BY StatementFacts DEF QueryNodes
    <3>. QED
      BY <3>1, <3>2 DEF NamedWell
  <2>. QED
    BY <2>1, <2>2, <2>3, <2>4
<1>. QED
  BY <1>1, <1>5, <1>6

LEMMA ReadAsFacts ==
  ASSUME NEW cols, NEW both, Ready(cols, both), ~flowOnly, NEW result,
         q[Top].kind \in {"select", "setop"} => result = Output(Selected(Top, cols, TRUE)),
         NEW clause \in ClausesOf(Top), NEW ref \in References,
         ~OutputHidesInput(Top, clause, ref, cols), ~Strays(Top, ref, cols), ~Confused(Top, ref)
  PROVE  Meaning(Top, clause, ref, cols) \in {{}, ReadAs(Top, clause, ref, result)}
<1>. DEFINE own == Selected(Top, cols, TRUE)
            named == IF ref.qualifier = <<>> THEN Named(own, ref.column) ELSE {}
            output == IF Single(named) THEN UNION {own[i].roots : i \in named} ELSE {}
            input == Roots(Top, ref, cols)
            resolved == Resolve(Top, ref.qualifier, ref.column)
            read == ReadAs(Top, clause, ref, result)
<1>1. /\ q \in Statements /\ Top \in QueryNodes /\ Over(cols, Nodes) /\ SeenTold(Top, cols)
      /\ Selected(Top, cols, both) \in Seq(ColumnsOver(Nodes))
  BY ReadyFacts
<1>2. own \in Seq(ColumnsOver(Nodes))
  <2>1. both = TRUE
    BY DEF Ready
  <2>. QED
    BY <1>1, <2>1
<1>3. /\ ref.qualifier \in Seq(STRING) /\ NoName \notin ToSet(ref.qualifier)
      /\ ref.column \notin {Star, NoName}
  BY <1>1, ReferencesTyped
<1>4. input \in {{}, resolved}
  <2>1. CASE Single(Meant(Top, ref, cols))
    BY <1>1, <1>3, <2>1, ResolveFacts
  <2>2. CASE ~Single(Meant(Top, ref, cols))
    BY <2>2 DEF Roots, Only
  <2>. QED
    BY <2>1, <2>2
<1>5. Meaning(Top, clause, ref, cols) =
        CASE clause \in {"WHERE", "MERGE_ON", "MERGE_WHEN_OTHER"} -> input
          [] clause = "GROUP BY"                            -> IF input = {} THEN output ELSE input
          [] clause = "ORDER BY" /\ q[Top].kind = "setop"  -> output
          [] OTHER                                          -> IF named = {} THEN input ELSE output
  BY DEF Meaning
<1>6. /\ clause \in {"WHERE", "GROUP BY", "ORDER BY", "MERGE_ON", "MERGE_WHEN_OTHER"}
      /\ clause \in {"GROUP BY", "ORDER BY"} => q[Top].kind \in {"select", "setop"}
      /\ clause = "GROUP BY" => q[Top].kind = "select"
  BY DEF ClausesOf, SelectClauses
<1>. HIDE DEF own, input
<1>7. q[Top].kind \in {"select", "setop"} =>
        /\ ref.column \in DOMAIN result.byName <=> Named(own, ref.column) # {}
        /\ ref.column \in DOMAIN result.byName => result.byName[ref.column] = RootsNamed(own, ref.column)
  <2>1. /\ \A name : name \in DOMAIN Output(own).byName <=> Named(own, name) # {} /\ (flowOnly \/ name # NoName)
        /\ \A name \in DOMAIN Output(own).byName : Output(own).byName[name] = RootsNamed(own, name)
    BY <1>2, OutputFacts
  <2>2. q[Top].kind \in {"select", "setop"} => result = Output(own)
    BY DEF own
  <2>. QED
    BY <1>3, <2>1, <2>2
<1>8. clause \in {"GROUP BY", "ORDER BY"} =>
        read = IF named # {} THEN RootsNamed(own, ref.column) ELSE resolved
  BY <1>6, <1>7 DEF ReadAs
<1>9. clause \in {"WHERE", "MERGE_ON", "MERGE_WHEN_OTHER"} => read = resolved
  BY DEF ReadAs
<1>10. named = {} => output = {}
  BY DEF Single
<1>11. output \in {{}, RootsNamed(own, ref.column)}
  <2>1. CASE Single(named)
    <3>1. ref.qualifier = <<>>
      BY <2>1 DEF Single
    <3>. QED
      BY <2>1, <3>1 DEF RootsNamed
  <2>2. CASE ~Single(named)
    BY <2>2
  <2>. QED
    BY <2>1, <2>2
<1>12. clause = "GROUP BY" => named = {}
  BY DEF OutputHidesInput, own
<1>. HIDE DEF named, output, resolved, read
<1>13. Meaning(Top, clause, ref, cols) \in {{}, read}
  <2>1. CASE clause \in {"WHERE", "MERGE_ON", "MERGE_WHEN_OTHER"}
    BY <1>4, <1>5, <1>9, <2>1
  <2>2. CASE clause = "GROUP BY"
    <3>1. Meaning(Top, clause, ref, cols) = IF input = {} THEN output ELSE input
      BY <1>5, <2>2
    <3>. QED
      BY <1>4, <1>8, <1>10, <1>12, <2>2, <3>1
  <2>3. CASE clause = "ORDER BY"
    <3>1. Meaning(Top, clause, ref, cols) = output \/ (named = {} /\ Meaning(Top, clause, ref, cols) = input)
      BY <1>5, <2>3
    <3>. QED
      BY <1>4, <1>8, <1>10, <1>11, <2>3, <3>1
  <2>. QED
    BY <1>6, <2>1, <2>2, <2>3
<1>. QED
  BY <1>13 DEF read

-----------------------------------------------------------------------------
(* The steps.                                                                *)

LEMMA ExactStays ==
  ASSUME q \in Statements, TablesExist, UNCHANGED <<q, metadata, flowOnly>>
  PROVE  /\ \A cols : Guarded(cols)' = Guarded(cols)
         /\ \A both : ColsOf(both)' = ColsOf(both)
         /\ \A b : IsDML(b)' = IsDML(b)
         /\ \A cs : Output(cs)' = Output(cs)
<1>1. q' = q /\ metadata' = metadata /\ flowOnly' = flowOnly
  OBVIOUS
<1>2. /\ \A cols : /\ ListsFixed(cols)' = ListsFixed(cols)
                   /\ StarsNamed(cols)' = StarsNamed(cols) /\ BranchesNamed(cols)' = BranchesNamed(cols)
      /\ AllKnown' = AllKnown
  BY <1>1, GuardsStay
<1>3. \A cols : NothingDropped(cols)' = NothingDropped(cols)
  BY <1>1, <1>2 DEF NothingDropped
<1>4. \A cols : Guarded(cols)' = Guarded(cols)
  BY <1>2, <1>3 DEF Guarded
<1>5. \A both : ColsOf(both)' = ColsOf(both)
  BY <1>1, ColumnsStay
<1>6. \A b : IsDML(b)' = IsDML(b)
  BY <1>1 DEF IsDML
<1>7. \A cs : Output(cs)' = Output(cs)
  BY <1>1 DEF Output
<1>. QED
  BY <1>4, <1>5, <1>6, <1>7

LEMMA UnderstoodStays ==
  ASSUME q \in Statements, TablesExist, q' = q, NEW b \in Nodes, NEW cols, NEW found, uses' = found, Understood(found, b, cols)
  PROVE  Understood(uses, b, cols)'
<1>1. /\ \A ref : Strays(b, ref, cols)' = Strays(b, ref, cols) /\ Confused(b, ref)' = Confused(b, ref)
      /\ \A clause, ref : /\ Meaning(b, clause, ref, cols)' = Meaning(b, clause, ref, cols)
                          /\ OutputHidesInput(b, clause, ref, cols)' = OutputHidesInput(b, clause, ref, cols)
      /\ References' = References /\ ClausesOf(b)' = ClausesOf(b) /\ ListClause(b)' = ListClause(b)
  BY GuardsStay
<1>2. IsDML(b)' = IsDML(b)
  BY DEF IsDML
<1>3. /\ \A clause : FoundFor(uses, b, clause)' = FoundFor(found, b, clause)
      /\ \A clause, ref : FoundOf(uses, b, clause, ref)' = FoundOf(found, b, clause, ref)
  BY DEF FoundFor, FoundOf
<1>4. FoundFor(uses, b, ListClause(b))' = FoundFor(found, b, ListClause(b))
  BY <1>1 DEF FoundFor
<1>5. (IsDML(b) => FoundFor(uses, b, ListClause(b)) = UNION {c.roots : c \in ToSet(cols[b])})'
  BY <1>2, <1>4 DEF Understood
<1>6. (\A clause \in ClausesOf(b), ref \in References :
         \/ Meaning(b, clause, ref, cols) \in {{}, FoundOf(uses, b, clause, ref)}
         \/ OutputHidesInput(b, clause, ref, cols)
         \/ Strays(b, ref, cols)
         \/ Confused(b, ref))'
  BY <1>1, <1>3 DEF Understood
<1>. QED
  BY <1>5, <1>6 DEF Understood

(* Only what is recorded for the query counts.                               *)
LEMMA UnderstoodFrom ==
  ASSUME NEW b, NEW cols, NEW found, NEW more, Understood(found, b, cols),
         \A u : u.at = b => (u \in found <=> u \in more)
  PROVE  Understood(more, b, cols)
<1>1. \A clause : FoundFor(more, b, clause) = FoundFor(found, b, clause)
  BY DEF FoundFor
<1>2. \A clause, ref : FoundOf(more, b, clause, ref) = FoundOf(found, b, clause, ref)
  BY DEF FoundOf
<1>. QED
  BY <1>1, <1>2 DEF Understood

(* A step that resolves Top, and does it right, leaves everything exact.     *)
LEMMA ResolveExact ==
  ASSUME Sound, Followed, Nested, Meaningful, Exact, NEW result, NEW new,
         stack # <<>>, Top \notin DOMAIN out, Before(Top) = {},
         out' = [b \in DOMAIN out \union {Top} |-> IF b = Top THEN result ELSE out[b]],
         \A u \in new : u.at = Top,
         uses' = uses \union new,
         UNCHANGED <<q, metadata, flowOnly, stack>>,
         \A both, cols : Ready(cols, both) =>
           /\ (IsDML(Top) /\ ~flowOnly) \/ result = Output(cols[Top])
           /\ ~flowOnly => Understood(new, Top, cols)
  PROVE  Exact'
<1>1. /\ q \in Statements /\ TablesExist /\ (\A u \in uses : u.at \in DOMAIN out) /\ Top \in QueryNodes
      /\ DOMAIN out \subseteq QueryNodes
  BY StackFacts DEF Sound
<1>2. /\ \A cols : Guarded(cols)' = Guarded(cols)
      /\ \A both : ColsOf(both)' = ColsOf(both)
      /\ \A b : IsDML(b)' = IsDML(b)
      /\ \A cs : Output(cs)' = Output(cs)
      /\ flowOnly' = flowOnly /\ q' = q
  BY <1>1, ExactStays
<1>3. PICK t, found : t = Top /\ found = uses \union new
  OBVIOUS
<1>4. DOMAIN out' = DOMAIN out \union {t} /\ out'[t] = result /\ (\A b \in DOMAIN out : out'[b] = out[b]) /\ t \notin DOMAIN out
  BY <1>3
<1>5. SUFFICES ASSUME NEW both \in BOOLEAN, NEW cols, (both <=> ~flowOnly), cols = ColsOf(both), Guarded(cols)
               PROVE  Solved(cols)'
  BY <1>2 DEF Exact
<1>6. Solved(cols) /\ Ready(cols, both)
  <2>1. Solved(cols)
    BY <1>5 DEF Exact
  <2>. QED
    BY <1>5, <2>1 DEF Ready
<1>7. ASSUME NEW b \in DOMAIN out \union {t}
      PROVE  PutOut(b, cols)' /\ (~flowOnly => Understood(uses, b, cols)')
  <2>1. b \in Nodes /\ uses' = found
    BY <1>1, <1>3 DEF QueryNodes
  <2>2. CASE b = t
    <3>1. (IsDML(t) /\ ~flowOnly) \/ result = Output(cols[t])
      BY <1>3, <1>6
    <3>2. PutOut(b, cols)'
      BY <1>2, <1>4, <2>2, <3>1 DEF PutOut
    <3>3. ASSUME ~flowOnly PROVE Understood(uses, b, cols)'
      <4>1. Understood(new, t, cols)
        BY <1>3, <1>6, <3>3
      <4>2. \A u : u.at = t => (u \in new <=> u \in found)
        BY <1>1, <1>3, <1>4
      <4>3. Understood(found, b, cols)
        BY <2>2, <4>1, <4>2, UnderstoodFrom
      <4>. QED
        BY <1>1, <1>2, <2>1, <4>3, UnderstoodStays
    <3>. QED
      BY <3>2, <3>3
  <2>3. CASE b # t
    <3>1. b \in DOMAIN out /\ PutOut(b, cols) /\ (~flowOnly => Understood(uses, b, cols))
      BY <1>6, <2>3 DEF Solved
    <3>2. PutOut(b, cols)'
      BY <1>2, <1>4, <3>1 DEF PutOut
    <3>3. ASSUME ~flowOnly PROVE Understood(uses, b, cols)'
      <4>1. Understood(uses, b, cols)
        BY <3>1, <3>3
      <4>2. \A u : u.at = b => (u \in uses <=> u \in found)
        BY <1>3, <2>3
      <4>3. Understood(found, b, cols)
        BY <4>1, <4>2, UnderstoodFrom
      <4>. QED
        BY <1>1, <1>2, <2>1, <4>3, UnderstoodStays
    <3>. QED
      BY <3>2, <3>3
  <2>. QED
    BY <2>2, <2>3
<1>8. ASSUME NEW b \in DOMAIN out'
      PROVE  PutOut(b, cols)' /\ (~flowOnly' => Understood(uses, b, cols)')
  <2>1. b \in DOMAIN out \union {t}
    BY <1>4
  <2>2. PutOut(b, cols)' /\ (~flowOnly => Understood(uses, b, cols)')
    BY <1>7, <2>1
  <2>3. flowOnly' = flowOnly
    BY <1>2
  <2>. QED
    BY <2>2, <2>3
<1>. QED
  BY <1>8 DEF Solved

(* What puts nothing out and records nothing leaves everything exact.        *)
LEMMA UnresolvedExact ==
  ASSUME Sound, Exact, UNCHANGED <<q, metadata, flowOnly, out, uses>>
  PROVE  Exact'
<1>1. q \in Statements /\ TablesExist /\ DOMAIN out \subseteq QueryNodes
  BY DEF Sound
<1>2. /\ \A cols : Guarded(cols)' = Guarded(cols)
      /\ \A both : ColsOf(both)' = ColsOf(both)
      /\ \A b : IsDML(b)' = IsDML(b)
      /\ \A cs : Output(cs)' = Output(cs)
      /\ flowOnly' = flowOnly /\ q' = q /\ out' = out /\ uses' = uses
  BY <1>1, ExactStays
<1>3. SUFFICES ASSUME NEW both \in BOOLEAN, NEW cols, (both <=> ~flowOnly), cols = ColsOf(both), Guarded(cols)
               PROVE  Solved(cols)'
  BY <1>2 DEF Exact
<1>4. Solved(cols)
  BY <1>3 DEF Exact
<1>5. PICK found : found = uses
  OBVIOUS
<1>6. ASSUME NEW b \in DOMAIN out
      PROVE  PutOut(b, cols)' /\ (~flowOnly => Understood(uses, b, cols)')
  <2>1. PutOut(b, cols) /\ (~flowOnly => Understood(uses, b, cols)) /\ b \in Nodes
    BY <1>1, <1>4 DEF Solved, QueryNodes
  <2>2. PutOut(b, cols)'
    BY <1>2, <2>1 DEF PutOut
  <2>3. ASSUME ~flowOnly PROVE Understood(uses, b, cols)'
    <3>1. Understood(found, b, cols) /\ uses' = found
      BY <1>2, <1>5, <2>1, <2>3
    <3>. QED
      BY <1>1, <1>2, <2>1, <3>1, UnderstoodStays
  <2>. QED
    BY <2>2, <2>3
<1>. QED
  BY <1>2, <1>6 DEF Solved

(* What is recorded with the output is what the query reads.                 *)
LEMMA StepUnderstood ==
  ASSUME NEW cols, NEW both, Ready(cols, both), ~flowOnly, NEW result, NEW list, NEW extra,
         q[Top].kind \in {"select", "setop"} => result = Output(Selected(Top, cols, TRUE)),
         FromList(extra, Top, list),
         IsDML(Top) => ListUses(Top, list) \subseteq extra /\ list = cols[Top]
  PROVE  Understood(extra \union ClauseUses(Top, result), Top, cols)
<1>1. PICK b, new : b = Top /\ new = extra \union ClauseUses(b, result)
  OBVIOUS
<1>2. /\ \A clause \in ClausesOf(b), ref \in References :
           FoundOf(new, b, clause, ref) = ReadAs(b, clause, ref, result)
      /\ ListUses(b, list) \subseteq extra =>
           FoundFor(new, b, ListClause(b)) = UNION {list[i].roots : i \in DOMAIN list}
  <2>1. FromList(extra, b, list)
    BY <1>1
  <2>2. new = extra \union ClauseUses(b, result)
    BY <1>1
  <2>3. ASSUME NEW clause \in ClausesOf(b), NEW ref \in References
        PROVE  FoundOf(new, b, clause, ref) = ReadAs(b, clause, ref, result)
    <3>1. FoundOf(extra \union ClauseUses(b, result), b, clause, ref) = ReadAs(b, clause, ref, result)
      BY <2>1, StepReads
    <3>. QED
      BY <2>2, <3>1
  <2>4. ListUses(b, list) \subseteq extra =>
          FoundFor(new, b, ListClause(b)) = UNION {list[i].roots : i \in DOMAIN list}
    BY <2>1, <2>2, StepUsesFacts
  <2>. QED
    BY <2>3, <2>4
<1>3. IsDML(b) => FoundFor(new, b, ListClause(b)) = UNION {c.roots : c \in ToSet(cols[b])}
  <2>1. UNION {list[i].roots : i \in DOMAIN list} = UNION {c.roots : c \in ToSet(list)}
    BY DEF ToSet
  <2>. QED
    BY <1>1, <1>2, <2>1
<1>4. ASSUME NEW clause \in ClausesOf(b), NEW ref \in References,
             ~OutputHidesInput(b, clause, ref, cols), ~Strays(b, ref, cols), ~Confused(b, ref)
      PROVE  Meaning(b, clause, ref, cols) \in {{}, FoundOf(new, b, clause, ref)}
  <2>1. Meaning(b, clause, ref, cols) \in {{}, ReadAs(b, clause, ref, result)}
    BY <1>1, <1>4, ReadAsFacts
  <2>. QED
    BY <1>2, <2>1
<1>5. Understood(new, b, cols)
  BY <1>3, <1>4 DEF Understood
<1>. QED
  BY <1>1, <1>5

Kept(new) == IF flowOnly THEN {} ELSE new

(* For each step that resolves a query, it is resolved right.                *)
LEMMA SelectExact ==
  ASSUME Sound, Followed, Nested, Meaningful, Exact, ResolveSelect
  PROVE  Exact'
<1>. DEFINE list == Projected(Top)
            put == Output(list)
            result == Aliased(put, q[Top].cols)
            recorded == ListUses(Top, list) \union ClauseUses(Top, put)
<1>1. /\ stack # <<>> /\ Top \notin DOMAIN out /\ Before(Top) = {} /\ q[Top].kind = "select"
      /\ Memoize(result) /\ Record(recorded)
      /\ UNCHANGED <<q, metadata, flowOnly, stack>>
  BY DEF ResolveSelect
<1>2. \A u \in recorded : u.at = Top
  BY UsesAtQuery
<1>3. ASSUME NEW both, NEW cols, Ready(cols, both)
      PROVE  result = Output(cols[Top]) /\ (~flowOnly => Understood(recorded, Top, cols))
  <2>1. list = Selected(Top, cols, both)
    BY <1>1, <1>3, ListSolved
  <2>2. result = Output(cols[Top])
    <3>1. Aliased(Output(Selected(Top, cols, both)), q[Top].cols) = Output(cols[Top])
      BY <1>3, AliasSolved
    <3>. QED
      BY <2>1, <3>1
  <2>3. ASSUME ~flowOnly PROVE Understood(recorded, Top, cols)
    <3>1. both = TRUE
      BY <1>3, <2>3 DEF Ready
    <3>2. put = Output(Selected(Top, cols, TRUE)) /\ ~IsDML(Top)
      BY <1>1, <2>1, <3>1 DEF IsDML, DMLKinds
    <3>. HIDE DEF list, put
    <3>. QED
      BY <1>3, <2>3, <3>2, StepUnderstood DEF FromList
  <2>. QED
    BY <2>2, <2>3
<1>. HIDE DEF list, put, result, recorded
<1>4. (\A u \in Kept(recorded) : u.at = Top) /\ uses' = uses \union Kept(recorded)
  BY <1>1, <1>2 DEF Kept, Record
<1>5. \A both, cols : Ready(cols, both) =>
        /\ (IsDML(Top) /\ ~flowOnly) \/ result = Output(cols[Top])
        /\ ~flowOnly => Understood(Kept(recorded), Top, cols)
  BY <1>3 DEF Kept
<1>. QED
  BY <1>1, <1>4, <1>5, ResolveExact DEF Memoize

LEMMA SetOpExact ==
  ASSUME Sound, Followed, Nested, Meaningful, Exact, ResolveSetOp
  PROVE  Exact'
<1>. DEFINE branch == InOrder(Kids(Top, "branch"))
            put == Merged(Top, out[branch[1]], out[branch[2]])
            result == Aliased(put, q[Top].cols)
            recorded == ClauseUses(Top, put)
<1>1. /\ stack # <<>> /\ Top \notin DOMAIN out /\ Before(Top) = {} /\ q[Top].kind = "setop"
      /\ Memoize(result) /\ Record(recorded)
      /\ UNCHANGED <<q, metadata, flowOnly, stack>>
  BY DEF ResolveSetOp
<1>2. \A u \in recorded : u.at = Top
  BY UsesAtQuery
<1>3. ASSUME NEW both, NEW cols, Ready(cols, both)
      PROVE  result = Output(cols[Top]) /\ (~flowOnly => Understood(recorded, Top, cols))
  <2>1. put = Output(Selected(Top, cols, both))
    BY <1>1, <1>3, MergeSolved
  <2>. HIDE DEF put
  <2>2. result = Output(cols[Top])
    <3>1. Aliased(Output(Selected(Top, cols, both)), q[Top].cols) = Output(cols[Top])
      BY <1>3, AliasSolved
    <3>. QED
      BY <2>1, <3>1
  <2>3. ASSUME ~flowOnly PROVE Understood(recorded, Top, cols)
    <3>1. both = TRUE
      BY <1>3, <2>3 DEF Ready
    <3>2. put = Output(Selected(Top, cols, TRUE)) /\ ~IsDML(Top)
      BY <1>1, <2>1, <3>1 DEF IsDML, DMLKinds
    <3>3. PICK extra : extra = {}
      OBVIOUS
    <3>4. Understood(extra \union recorded, Top, cols)
      BY <1>3, <2>3, <3>2, <3>3, StepUnderstood DEF FromList
    <3>. HIDE DEF recorded
    <3>. QED
      BY <3>3, <3>4
  <2>. QED
    BY <2>2, <2>3
<1>. HIDE DEF put, result, recorded
<1>4. (\A u \in Kept(recorded) : u.at = Top) /\ uses' = uses \union Kept(recorded)
  BY <1>1, <1>2 DEF Kept, Record
<1>5. \A both, cols : Ready(cols, both) =>
        /\ (IsDML(Top) /\ ~flowOnly) \/ result = Output(cols[Top])
        /\ ~flowOnly => Understood(Kept(recorded), Top, cols)
  BY <1>3 DEF Kept
<1>. QED
  BY <1>1, <1>4, <1>5, ResolveExact DEF Memoize

LEMMA DMLExact ==
  ASSUME Sound, Followed, Nested, Meaningful, Exact, ResolveDML
  PROVE  Exact'
<1>. DEFINE list == AssignedValues(Top)
            extra == ListUses(Top, list) \union TargetUses(Top)
            recorded == extra \union ClauseUses(Top, EmptyOut)
<1>1. /\ stack # <<>> /\ Top \notin DOMAIN out /\ Before(Top) = {} /\ IsDML(Top) /\ ~flowOnly
      /\ Memoize(EmptyOut) /\ Record(recorded)
      /\ UNCHANGED <<q, metadata, flowOnly, stack>>
  BY DEF ResolveDML
<1>2. \A u \in recorded : u.at = Top
  BY UsesAtQuery
<1>3. ASSUME NEW both, NEW cols, Ready(cols, both)
      PROVE  Understood(recorded, Top, cols)
  <2>1. list = Selected(Top, cols, both)
    BY <1>1, <1>3, ListSolved DEF AssignedValues
  <2>2. Selected(Top, cols, both) = cols[Top]
    BY <1>1, <1>3, AliasSolved
  <2>3. q[Top].kind \notin {"select", "setop"}
    BY <1>1 DEF IsDML, DMLKinds
  <2>4. list = cols[Top]
    BY <2>1, <2>2
  <2>. HIDE DEF list
  <2>. QED
    BY <1>1, <1>3, <2>3, <2>4, StepUnderstood DEF FromList
<1>. HIDE DEF recorded
<1>4. (\A u \in Kept(recorded) : u.at = Top) /\ uses' = uses \union Kept(recorded)
  BY <1>1, <1>2 DEF Kept, Record
<1>5. \A both, cols : Ready(cols, both) =>
        /\ (IsDML(Top) /\ ~flowOnly) \/ EmptyOut = Output(cols[Top])
        /\ ~flowOnly => Understood(Kept(recorded), Top, cols)
  BY <1>1, <1>3 DEF Kept
<1>. QED
  BY <1>1, <1>4, <1>5, ResolveExact DEF Memoize

LEMMA ValueFlowExact ==
  ASSUME Sound, Followed, Nested, Meaningful, Exact, ResolveValueFlow
  PROVE  Exact'
<1>. DEFINE list == AssignedValues(Top)
            result == Output(list)
<1>1. /\ stack # <<>> /\ Top \notin DOMAIN out /\ Before(Top) = {} /\ IsDML(Top) /\ flowOnly
      /\ Memoize(result) /\ uses' = uses \union {}
      /\ UNCHANGED <<q, metadata, flowOnly, stack>>
  BY DEF ResolveValueFlow
<1>2. ASSUME NEW both, NEW cols, Ready(cols, both)
      PROVE  result = Output(cols[Top])
  <2>1. list = Selected(Top, cols, both)
    BY <1>1, <1>2, ListSolved DEF AssignedValues
  <2>2. Selected(Top, cols, both) = cols[Top]
    BY <1>1, <1>2, AliasSolved
  <2>. QED
    BY <2>1, <2>2
<1>. HIDE DEF result
<1>3. \A both, cols : Ready(cols, both) =>
        /\ (IsDML(Top) /\ ~flowOnly) \/ result = Output(cols[Top])
        /\ ~flowOnly => Understood({}, Top, cols)
  BY <1>1, <1>2
<1>. QED
  BY <1>1, <1>3, ResolveExact DEF Memoize

LEMMA RestartExact ==
  ASSUME Restart
  PROVE  Exact'
<1>1. DOMAIN out' = {}
  BY DEF Restart, NewResolver
<1>2. \A cols : Solved(cols)'
  BY <1>1 DEF Solved
<1>. QED
  BY <1>2 DEF Exact

LEMMA ExactInductive ==
  ASSUME Sound, Followed, Nested, Meaningful, Exact, [AnalysisNext]_analysisVars
  PROVE  Exact'
<1>1. CASE EnterSource \/ EnterClause \/ Leave
  <2>1. UNCHANGED <<q, metadata, flowOnly, out, uses>>
    BY <1>1 DEF EnterSource, EnterClause, Enter, Leave
  <2>. QED
    BY <2>1, UnresolvedExact
<1>2. CASE Analyze
  <2>1. HasQuery \/ Kind \in {"update", "merge"} => q # <<>>
    BY DEF HasQuery, Kind
  <2>2. Restart
    BY <1>2, <2>1 DEF Analyze, Restart
  <2>. QED
    BY <2>2, RestartExact
<1>3. CASE Inspect
  <2>1. q # <<>>
    BY <1>3 DEF Inspect, HasQuery, Kind
  <2>2. (\E a : Answered(a)) \/ (\E seq : Unresolved(seq))
    BY <1>3 DEF Inspect
  <2>3. UNCHANGED vars \/ Restart
    BY <2>1, <2>2 DEF Answered, Unresolved, Restart
  <2>. QED
    BY <2>3, UnresolvedExact, RestartExact DEF vars, resolver
<1>4. CASE Credit \/ Analyzed \/ UNCHANGED analysisVars
  <2>1. UNCHANGED vars
    BY <1>4 DEF Credit, Analyzed, analysisVars, allVars
  <2>. QED
    BY <2>1, UnresolvedExact DEF vars, resolver
<1>5. CASE ListedColumns \/ Recover
  <2>1. \E a : Answered(a)
    BY <1>5 DEF ListedColumns, Recover
  <2>2. UNCHANGED vars
    BY <2>1 DEF Answered
  <2>. QED
    BY <2>2, UnresolvedExact DEF vars, resolver
<1>6. Resolution => \/ EnterSource \/ EnterClause \/ Leave
                    \/ ResolveSelect \/ ResolveSetOp \/ ResolveDML \/ ResolveValueFlow
  BY DEF Resolution
<1>. QED
  BY <1>1, <1>2, <1>3, <1>4, <1>5, <1>6, SelectExact, SetOpExact, DMLExact, ValueFlowExact DEF AnalysisNext

LEMMA ExactInit ==
  ASSUME Init
  PROVE  Exact
<1>1. DOMAIN out = {}
  BY DEF Init
<1>. QED
  BY <1>1 DEF Exact, Solved

LEMMA ExactAlways == AnalysisSpec => []Exact
<1>1. ColumnsInit => Exact
  BY ExactInit DEF ColumnsInit, LineageInit
<1>2. Sound /\ Followed /\ Nested /\ Meaningful /\ Exact /\ [AnalysisNext]_analysisVars => Exact'
  BY ExactInductive
<1>. QED
  BY <1>1, <1>2, SoundAlways, FollowedAlways, NestedAlways, MeaningfulAlways, PTL DEF AnalysisSpec

(* With metadata for every table, ReferencedColumns records for a clause,    *)
(* and puts out for a position of a query's result, the physical columns     *)
(* that it reads in SQL and no others, for every statement; but for what     *)
(* Misread, Confused and OutputHidesInput describe.                          *)
THEOREM ReadsAreExact == AnalysisSpec => []ReadsExact
<1>1. Sound /\ Meaningful /\ Exact => ReadsExact
  <2>. SUFFICES ASSUME Sound, Meaningful, Exact, Ended, AllKnown, NEW cols, cols = Cols, NEW b \in DOMAIN out,
                       ListsExact(cols), StarsNamed(cols), BranchesNamed(cols)
                PROVE  /\ ~IsDML(b) => out[b].positions = [i \in DOMAIN cols[b] |-> cols[b][i].roots]
                       /\ IsDML(b) => RootsIn(b, ListClause(b)) = UNION {c.roots : c \in ToSet(cols[b])}
                       /\ \A clause \in ClausesOf(b), ref \in References :
                            \/ Meaning(b, clause, ref, cols) \in {{}, Recorded(b, clause, ref)}
                            \/ OutputHidesInput(b, clause, ref, cols)
                            \/ Misread(b, ref, cols)
                            \/ Confused(b, ref)
    BY DEF ReadsExact
  <2>1. ~flowOnly /\ q \in Statements /\ b \in Nodes
    BY DEF Ended, Sound, QueryNodes
  <2>2. cols = ColsOf(TRUE) /\ TRUE \in BOOLEAN
    BY DEF Cols
  <2>3. Guarded(cols)
    BY ExactIsFixed DEF Guarded, NothingDropped
  <2>4. PutOut(b, cols) /\ Understood(uses, b, cols)
    <3>1. Solved(cols)
      BY <2>1, <2>2, <2>3 DEF Exact
    <3>. QED
      BY <2>1, <3>1 DEF Solved
  <2>5. ASSUME ~IsDML(b) PROVE out[b].positions = [i \in DOMAIN cols[b] |-> cols[b][i].roots]
    <3>1. cols[b] \in Seq(ColumnsOver(Nodes))
      BY <2>1, <2>2, SettledFacts DEF Over
    <3>2. Output(cols[b]).positions = RootsAt(cols[b])
      BY <3>1, OutputFacts
    <3>. QED
      BY <2>4, <2>5, <3>2 DEF PutOut, RootsAt
  <2>6. \A clause, ref : /\ FoundFor(uses, b, clause) = RootsIn(b, clause)
                         /\ FoundOf(uses, b, clause, ref) = Recorded(b, clause, ref)
    BY DEF FoundFor, FoundOf, RootsIn, Recorded
  <2>7. \A ref : Strays(b, ref, cols) => Misread(b, ref, cols)
    BY ExactIsFixed
  <2>8. \A clause \in ClausesOf(b), ref \in References :
          \/ Meaning(b, clause, ref, cols) \in {{}, Recorded(b, clause, ref)}
          \/ OutputHidesInput(b, clause, ref, cols)
          \/ Misread(b, ref, cols)
          \/ Confused(b, ref)
    BY <2>4, <2>6, <2>7 DEF Understood
  <2>9. IsDML(b) => RootsIn(b, ListClause(b)) = UNION {c.roots : c \in ToSet(cols[b])}
    BY <2>4, <2>6 DEF Understood
  <2>. QED
    BY <2>5, <2>8, <2>9
<1>. QED
  BY <1>1, SoundAlways, MeaningfulAlways, ExactAlways, PTL

-----------------------------------------------------------------------------
(* What ReferencedColumns has read.                                          *)

(* The queries around one that is taken up are.                              *)
Surrounded == \A b \in TakenUp : Above[b] \subseteq TakenUp

(* In which stage the resolver is run, and how.                              *)
Staged ==
  /\ stage = "referenced" => ~flowOnly
  /\ stage = "flow" => flowOnly /\ Root \in TakenUp

LEMMA SurroundedInductive ==
  ASSUME Sound, Followed, Surrounded, AnalysisStep
  PROVE  Surrounded'
<1>0. q \in Statements /\ StackOK /\ TakenUp \subseteq QueryNodes
  BY StackFacts DEF Sound, TakenUp
<1>1. q' = q /\ Above' = Above
  <2>1. q' = q
    BY DEF AnalysisStep, ResolverStep, EnterQuery, ResolveQuery, Leave, Restart, vars
  <2>. QED
    BY <2>1, ScopesStay
<1>2. ASSUME NEW k, EnterQuery(k) PROVE Surrounded'
  <2>1. stack # <<>> /\ out' = out /\ Resolving' = Resolving \union {k} /\ k \in QueryNodes \ {Root}
    BY <1>2, EnterIsNew DEF EnterQuery
  <2>2. TakenUp' = TakenUp \union {k}
    BY <2>1 DEF TakenUp
  <2>3. Top \in TakenUp /\ Above[Top] \subseteq TakenUp /\ Top \in Nodes /\ k \in Nodes
    BY <1>0, <2>1, StackFacts DEF TakenUp, Surrounded, QueryNodes
  <2>4. q[k].up \in Above[Top]
    BY <1>0, <1>2, <2>3, EnterFacts, AboveAgain
  <2>5. Above[k] = {k} \union Above[q[k].up] /\ Above[q[k].up] \subseteq Above[Top]
    BY <1>0, <2>1, <2>3, <2>4, AboveFacts, AboveAgain
  <2>. QED
    BY <1>1, <2>2, <2>3, <2>5 DEF Surrounded
<1>3. ASSUME NEW result, NEW new, ResolveQuery(result, new) PROVE Surrounded'
  <2>1. /\ stack # <<>> /\ Resolving' = Resolving /\ DOMAIN out' = DOMAIN out \union {Top}
    BY <1>3, ResolveAdds DEF ResolveQuery, Resolving
  <2>2. TakenUp' = TakenUp
    BY <1>0, <2>1, StackFacts DEF TakenUp
  <2>. QED
    BY <1>1, <2>2 DEF Surrounded
<1>4. CASE Leave
  <2>1. stack # <<>> /\ out' = out /\ Top \in DOMAIN out /\ Resolving' = Resolving \ {Top}
    BY <1>0, <1>1, <1>4, LeaveKeepsStack DEF Leave
  <2>2. TakenUp' = TakenUp
    BY <2>1 DEF TakenUp
  <2>. QED
    BY <1>1, <2>2 DEF Surrounded
<1>5. CASE Restart
  <2>1. TakenUp' = {} \/ (TakenUp' = {Root} /\ q # <<>>)
    <3>1. /\ DOMAIN out' = {}
          /\ stack' = <<>> \/ (stack' = <<Root>> /\ q # <<>>)
      BY <1>5 DEF Restart, NewResolver
    <3>2. Resolving' = {} \/ (Resolving' = {Root} /\ q # <<>>)
      BY <3>1 DEF Resolving, ToSet
    <3>. QED
      BY <3>1, <3>2 DEF TakenUp
  <2>2. q # <<>> => Above[Root] = {Root}
    BY <1>0, StatementFacts, AboveFacts DEF QueryNodes
  <2>. QED
    BY <1>1, <2>1, <2>2 DEF Surrounded
<1>6. CASE UNCHANGED vars
  BY <1>1, <1>6 DEF vars, resolver, Resolving, TakenUp, Surrounded
<1>. QED
  BY <1>2, <1>3, <1>4, <1>5, <1>6 DEF AnalysisStep, ResolverStep

LEMMA SurroundedAlways == AnalysisSpec => []Surrounded
<1>1. ColumnsInit => Surrounded
  <2>. SUFFICES ASSUME ColumnsInit PROVE Surrounded
    OBVIOUS
  <2>1. /\ q \in Statements /\ DOMAIN out = {}
        /\ stack = IF q = <<>> THEN <<>> ELSE <<Root>>
    BY DEF ColumnsInit, LineageInit, Init
  <2>2. TakenUp \subseteq {Root} /\ (TakenUp # {} => q # <<>>)
    BY <2>1 DEF TakenUp, Resolving, ToSet
  <2>3. q # <<>> => Above[Root] = {Root}
    BY <2>1, StatementFacts, AboveFacts DEF QueryNodes
  <2>. QED
    BY <2>2, <2>3 DEF Surrounded
<1>2. Sound /\ Followed /\ Surrounded /\ [AnalysisNext]_analysisVars => Surrounded'
  BY AnalysisSteps, SurroundedInductive DEF Sound
<1>. QED
  BY <1>1, <1>2, SoundAlways, FollowedAlways, PTL DEF AnalysisSpec

(* A new resolver is at the root, or has nothing to do.                      *)
LEMMA StagedInductive ==
  ASSUME Sound, Staged, [AnalysisNext]_analysisVars
  PROVE  Staged'
<1>0. q \in Statements /\ CteNamesDistinct /\ StackOK
  BY DEF Sound
<1>1. CASE Resolution /\ UNCHANGED lineageVars
  <2>1. flowOnly' = flowOnly /\ stage' = stage
    BY <1>1 DEF Resolution, EnterSource, EnterClause, Enter, ResolveSelect, ResolveSetOp, ResolveDML,
                ResolveValueFlow, Leave, lineageVars
  <2>2. TakenUp \subseteq TakenUp'
    <3>1. ResolverStep
      BY <1>0, <1>1, ResolutionSteps
    <3>2. ASSUME NEW k, EnterQuery(k) PROVE TakenUp \subseteq TakenUp'
      BY <3>2, EnterIsNew DEF EnterQuery, TakenUp
    <3>3. ASSUME NEW result, NEW new, ResolveQuery(result, new) PROVE TakenUp \subseteq TakenUp'
      BY <3>3, ResolveAdds DEF ResolveQuery, Resolving, TakenUp
    <3>4. CASE Leave
      <4>1. stack # <<>> /\ out' = out /\ Top \in DOMAIN out /\ Resolving' = Resolving \ {Top}
        BY <1>0, <3>4, LeaveKeepsStack DEF Leave
      <4>. QED
        BY <4>1 DEF TakenUp
    <3>. QED
      BY <3>1, <3>2, <3>3, <3>4 DEF ResolverStep
  <2>. QED
    BY <2>1, <2>2 DEF Staged
<1>2. CASE Analyze
  <2>1. stage' = "done" \/ (stage' = "flow" /\ NewResolver(<<Root>>))
    BY <1>2 DEF Analyze
  <2>2. NewResolver(<<Root>>) => flowOnly' /\ Root \in TakenUp'
    BY DEF NewResolver, TakenUp, Resolving, ToSet
  <2>. QED
    BY <2>1, <2>2 DEF Staged
<1>3. CASE Credit \/ ListedColumns \/ Inspect \/ Recover
  <2>1. stage' \in {"done", "answered", "columns"}
    BY <1>3 DEF Credit, ListedColumns, Inspect, Recover, Answered, Unresolved
  <2>. QED
    BY <2>1 DEF Staged
<1>4. CASE Analyzed \/ UNCHANGED analysisVars
  <2>1. UNCHANGED <<stage, flowOnly, stack, out>>
    BY <1>4 DEF Analyzed, analysisVars, allVars, lineageVars, vars, resolver
  <2>. QED
    BY <2>1 DEF Staged, TakenUp, Resolving
<1>. QED
  BY <1>1, <1>2, <1>3, <1>4 DEF AnalysisNext

LEMMA StagedAlways == AnalysisSpec => []Staged
<1>1. ColumnsInit => Staged
  BY DEF ColumnsInit, LineageInit, Init, Staged
<1>2. Sound /\ Staged /\ [AnalysisNext]_analysisVars => Staged'
  BY StagedInductive
<1>. QED
  BY <1>1, <1>2, SoundAlways, PTL DEF AnalysisSpec

(* The queries that are read, and the tables in them.                        *)
NodesRead == {n \in Nodes : IF n \in QueryNodes THEN n \in DOMAIN out ELSE q[n].up \in DOMAIN out}

LEMMA NodesReadClosed ==
  ASSUME Sound, Surrounded, TablesFollow, Ended, q # <<>>
  PROVE  ClosedUnder(NodesRead) /\ Root \in NodesRead
<1>0. /\ q \in Statements /\ CteNamesDistinct /\ DOMAIN out \subseteq QueryNodes
      /\ \A b \in QueryNodes : b \in DOMAIN out <=> IsRead(b)
      /\ Root \in QueryNodes /\ Root \in Nodes
      /\ \A b \in DOMAIN out : Above[b] \subseteq DOMAIN out
  <2>1. q \in Statements /\ CteNamesDistinct /\ DOMAIN out \subseteq QueryNodes /\ StackOK /\ stack = <<>>
    BY DEF Sound, Ended
  <2>2. TakenUp = DOMAIN out
    BY <2>1, StackFacts DEF TakenUp
  <2>. QED
    BY <2>1, <2>2, StatementFacts DEF TablesFollow, Surrounded, QueryNodes
<1>1. Root \in NodesRead
  BY <1>0 DEF NodesRead, IsRead
<1>2. \A n \in QueryNodes : n \in NodesRead <=> n \in DOMAIN out
  BY DEF NodesRead, QueryNodes
<1>3. \A b \in DOMAIN out : \A n \in Kids(b, "branch") \union Kids(b, "list") \union Sources(b) : n \in NodesRead
  <2>. SUFFICES ASSUME NEW b \in DOMAIN out, NEW n \in Kids(b, "branch") \union Kids(b, "list") \union Sources(b)
                PROVE  n \in NodesRead
    OBVIOUS
  <2>1. n \in Nodes \ {Root} /\ q[n].up = b /\ q[n].place # "cte"
    BY DEF Sources, Kids
  <2>2. n \in QueryNodes => IsRead(n)
    BY <2>1 DEF IsRead
  <2>. QED
    BY <1>0, <2>1, <2>2 DEF NodesRead
<1>4. ASSUME NEW n \in NodesRead, q[n].kind = "table", ~IsTable(n)
      PROVE  (CHOOSE c \in DenotedCte(n) : TRUE) \in NodesRead
  <2>1. n \in Nodes /\ q[n].up \in DOMAIN out
    BY <1>4 DEF NodesRead, QueryNodes
  <2>2. PICK c : c \in DenotedCte(n)
    BY <1>4 DEF IsTable
  <2>3. DenotedCte(n) = {c} /\ c \in QueryNodes
    BY <1>0, <2>1, <2>2, CteOfDenoted, CteOfFacts
  <2>4. c \in DOMAIN out
    BY <1>0, <2>1, <2>3 DEF IsRead
  <2>. QED
    BY <1>2, <2>3, <2>4
<1>5. ASSUME NEW b \in NodesRead
      PROVE  Kids(b, "branch") \union Kids(b, "list") \subseteq NodesRead
  <2>1. ASSUME NEW n \in Kids(b, "branch") \union Kids(b, "list") PROVE n \in NodesRead
    <3>1. b \in QueryNodes
      BY <1>0, <2>1, KidFacts
    <3>. QED
      BY <1>2, <1>3, <1>5, <2>1, <3>1
  <2>. QED
    BY <2>1
<1>6. ASSUME NEW b \in NodesRead \intersect QueryNodes, NEW i \in DOMAIN SqlChain[b], NEW n \in SqlChain[b][i]
      PROVE  n \in NodesRead
  <2>1. b \in DOMAIN out /\ b \in Nodes
    BY <1>2, <1>6 DEF QueryNodes
  <2>2. i \in DOMAIN Chain[b] /\ n \in Chain[b][i] /\ (i = 1 => n \in Sources(b))
    BY <1>0, <1>6, ChainFacts
  <2>3. CASE i = 1
    BY <1>3, <2>1, <2>2, <2>3
  <2>4. CASE i # 1
    <3>1. Visible(n, b)
      BY <1>0, <1>6, <2>2, <2>4, ChainFacts
    <3>2. PICK v \in Above[b] \ {Root} : n \in Sources(q[v].up)
      BY <3>1 DEF Visible
    <3>3. q[v].up \in DOMAIN out
      BY <1>0, <2>1, <3>2, AboveAgain
    <3>. QED
      BY <1>3, <3>2, <3>3
  <2>. QED
    BY <2>3, <2>4
<1>. QED
  BY <1>1, <1>4, <1>5, <1>6 DEF ClosedUnder, NodesRead

(* What flows comes from the tables that are read.                           *)
LEMMA RootsRead ==
  ASSUME Sound, Surrounded, TablesFollow, Ended, q # <<>>, NEW both,
         NEW c \in ToSet(ColsOf(both)[Root]), NEW r \in c.roots
  PROVE  r.table \in BaseTables
<1>. DEFINE R == NodesRead
            cs == ColsOf(both)[Root]
<1>1. ClosedUnder(R) /\ Root \in R /\ q \in Statements /\ TablesExist /\ DOMAIN out \subseteq QueryNodes
  BY NodesReadClosed DEF Sound
<1>. HIDE DEF R
<1>2. cs \in Seq(ColumnsOver(R))
  BY <1>1, ColsTyped DEF Over
<1>. HIDE DEF cs
<1>3. PICK i \in DOMAIN cs : c = cs[i]
  BY DEF ToSet, cs
<1>4. r \in RootsOver(R)
  BY <1>2, <1>3, ColumnFacts
<1>5. PICK m \in R : IsTable(m) /\ r.table = q[m].name
  BY <1>4 DEF RootsOver
<1>6. m \in Nodes /\ q[m].up \in DOMAIN out
  <2>1. m \in Nodes /\ m \notin QueryNodes
    BY <1>5 DEF R, NodesRead, IsTable, QueryNodes
  <2>. QED
    BY <1>5, <2>1 DEF R, NodesRead
<1>. QED
  BY <1>5, <1>6 DEF BaseTables

-----------------------------------------------------------------------------
(* What LineageSourceColumns makes of what flows.                            *)

RootsOf(cs) == UNION {c.roots : c \in ToSet(cs)}

FlowRoots == RootsOf(FlowCols[Root])

ColumnsFor(roots, t) == {r.column : r \in {r \in roots : r.table = t}}

(* The tables of the result are those that values flow from, and no other    *)
(* column is in it yet.                                                      *)
Flowing ==
  stage = "flow" /\ HasQuery /\ AllKnown =>
    /\ \A r \in FlowRoots : r.table \in DOMAIN tableCols
    /\ TablesTold => \A t \in DOMAIN tableCols : tableCols[t] \subseteq ColumnsFor(FlowRoots, t)

(* At the end they all are.                                                  *)
Arrived ==
  stage = "done" /\ q # <<>> /\ AllKnown /\ TablesTold =>
    \A flow : flow = FlowCols /\ ListsFixed(flow) =>
      \A t \in DOMAIN tableCols : tableCols[t] = ColumnsFor(FlowRoots, t)

(* What values flow from is a column of a table, and no star.                *)
LEMMA RootsAreColumns ==
  ASSUME Sound, Meaningful, q # <<>>, NEW both \in BOOLEAN, NEW r \in RootsOf(ColsOf(both)[Root])
  PROVE  r.column # Star /\ r = Ref(r.table, r.column)
<1>. DEFINE cs == ColsOf(both)[Root]
<1>1. q \in Statements /\ Root \in Nodes
  BY StatementFacts DEF Sound, QueryNodes
<1>2. cs \in Seq(ColumnsOver(Nodes))
  BY <1>1, SettledFacts DEF Over
<1>. HIDE DEF cs
<1>3. PICK i \in DOMAIN cs : r \in cs[i].roots
  BY DEF RootsOf, ToSet, cs
<1>4. r \in RootsOver(Nodes)
  BY <1>2, <1>3, ColumnFacts
<1>. QED
  BY <1>4 DEF RootsOver, Ref

LEMMA CreditedFacts ==
  ASSUME NEW seeded, NEW refs
  PROVE  /\ DOMAIN Credited(seeded, refs) = DOMAIN seeded
         /\ \A t \in DOMAIN seeded : \A x :
              x \in Credited(seeded, refs)[t] <=>
                \/ x \in seeded[t]
                \/ \E r \in refs : r.column # Star /\ t \in ScopeTable(DOMAIN seeded, r.table) /\ x = r.column
<1>1. ASSUME NEW t \in DOMAIN seeded
      PROVE  Credited(seeded, refs)[t] =
               seeded[t] \union {r.column : r \in {r \in refs : r.column # Star /\ t \in ScopeTable(DOMAIN seeded, r.table)}}
  BY DEF Credited
<1>2. DOMAIN Credited(seeded, refs) = DOMAIN seeded
  BY DEF Credited
<1>. QED
  BY <1>1, <1>2

(* A field has all of the sources that flow into it, or none.                *)
LEMMA FieldsFacts ==
  ASSUME NEW how, NEW fields \in FieldsFound(how), NEW cs, cs = FlowCols[Root]
  PROVE  /\ \A x \in UNION ToSet(fields) : \E r \in RootsOf(cs) : x = Ref(Called(how, r.table), r.column)
         /\ {} \notin ToSet(fields) =>
              \A r \in RootsOf(cs) : Ref(Called(how, r.table), r.column) \in UNION ToSet(fields)
<1>. DEFINE sources(i) == {Ref(Called(how, r.table), r.column) : r \in cs[i].roots}
<1>1. PICK found : fields = [i \in DOMAIN cs |-> IF i \in found THEN sources(i) ELSE {}]
  BY DEF FieldsFound
<1>2. /\ \A i \in DOMAIN cs : \A r \in cs[i].roots : Ref(Called(how, r.table), r.column) \in sources(i)
      /\ \A i \in DOMAIN cs : \A x \in sources(i) : \E r \in cs[i].roots : x = Ref(Called(how, r.table), r.column)
  OBVIOUS
<1>. HIDE DEF sources
<1>3. /\ \A r : r \in RootsOf(cs) <=> \E i \in DOMAIN cs : r \in cs[i].roots
      /\ \A x : x \in UNION ToSet(fields) <=> \E i \in DOMAIN fields : x \in fields[i]
      /\ \A i \in DOMAIN fields : fields[i] \in ToSet(fields)
  BY DEF RootsOf, ToSet
<1>4. DOMAIN fields = DOMAIN cs /\ \A i \in DOMAIN cs : fields[i] = IF i \in found THEN sources(i) ELSE {}
  BY <1>1
<1>5. ASSUME NEW x \in UNION ToSet(fields)
      PROVE  \E r \in RootsOf(cs) : x = Ref(Called(how, r.table), r.column)
  <2>1. PICK i \in DOMAIN cs : x \in sources(i)
    BY <1>3, <1>4
  <2>. QED
    BY <1>2, <1>3, <2>1
<1>6. ASSUME {} \notin ToSet(fields), NEW r \in RootsOf(cs)
      PROVE  Ref(Called(how, r.table), r.column) \in UNION ToSet(fields)
  <2>1. PICK i \in DOMAIN cs : r \in cs[i].roots
    BY <1>3
  <2>2. fields[i] # {}
    BY <1>3, <1>4, <1>6
  <2>3. fields[i] = sources(i)
    BY <1>4, <2>2
  <2>. QED
    BY <1>2, <1>3, <1>4, <2>1, <2>3
<1>. QED
  BY <1>5, <1>6

(* Tables that can be told by what they are called, and references to them.  *)
Creditable(how, seeded, refs, roots) ==
  /\ \A t \in DOMAIN seeded : ScopeTable(DOMAIN seeded, Called(how, t)) = {t}
  /\ \A r \in roots : r.table \in DOMAIN seeded /\ r.column # Star
  /\ \A x \in refs : \E r \in roots : x = Ref(Called(how, r.table), r.column)
  /\ \A t \in DOMAIN seeded : seeded[t] \subseteq ColumnsFor(roots, t)

LEMMA CreditFacts ==
  ASSUME NEW how, NEW seeded, NEW refs, NEW roots, Creditable(how, seeded, refs, roots)
  PROVE  /\ \A t \in DOMAIN seeded : Credited(seeded, refs)[t] \subseteq ColumnsFor(roots, t)
         /\ (\A r \in roots : Ref(Called(how, r.table), r.column) \in refs) =>
              \A t \in DOMAIN seeded : Credited(seeded, refs)[t] = ColumnsFor(roots, t)
<1>0. /\ \A t \in DOMAIN seeded : ScopeTable(DOMAIN seeded, Called(how, t)) = {t}
      /\ \A r \in roots : r.table \in DOMAIN seeded /\ r.column # Star
      /\ \A x \in refs : \E r \in roots : x = Ref(Called(how, r.table), r.column)
      /\ \A t \in DOMAIN seeded : seeded[t] \subseteq ColumnsFor(roots, t)
  BY DEF Creditable
<1>1. \A table, column : Ref(table, column).table = table /\ Ref(table, column).column = column
  BY DEF Ref
<1>2. \A t, x : x \in ColumnsFor(roots, t) <=> \E r \in roots : r.table = t /\ x = r.column
  BY DEF ColumnsFor
<1>3. ASSUME NEW t \in DOMAIN seeded, NEW x \in Credited(seeded, refs)[t]
      PROVE  x \in ColumnsFor(roots, t)
  <2>1. CASE x \in seeded[t]
    BY <1>0, <2>1
  <2>2. ASSUME NEW y \in refs, t \in ScopeTable(DOMAIN seeded, y.table), x = y.column
        PROVE  x \in ColumnsFor(roots, t)
    <3>1. PICK r \in roots : y = Ref(Called(how, r.table), r.column)
      BY <1>0, <2>2
    <3>2. y.table = Called(how, r.table) /\ y.column = r.column
      BY <1>1, <3>1
    <3>3. t = r.table
      BY <1>0, <2>2, <3>2
    <3>. QED
      BY <1>2, <2>2, <3>2, <3>3
  <2>. QED
    BY <1>3, <2>1, <2>2, CreditedFacts
<1>4. ASSUME \A r \in roots : Ref(Called(how, r.table), r.column) \in refs,
             NEW t \in DOMAIN seeded, NEW x \in ColumnsFor(roots, t)
      PROVE  x \in Credited(seeded, refs)[t]
  <2>1. PICK r \in roots : r.table = t /\ x = r.column
    BY <1>2, <1>4
  <2>2. PICK y : y = Ref(Called(how, r.table), r.column)
    OBVIOUS
  <2>3. y \in refs /\ y.column = x /\ y.table = Called(how, t) /\ y.column # Star
    BY <1>0, <1>1, <1>4, <2>1, <2>2
  <2>4. t \in ScopeTable(DOMAIN seeded, y.table)
    BY <1>0, <1>4, <2>3
  <2>. QED
    BY <2>3, <2>4, CreditedFacts
<1>. QED
  BY <1>3, <1>4

LEMMA LineageStays ==
  ASSUME q \in Statements, TablesExist, UNCHANGED <<q, metadata>>
  PROVE  /\ FlowCols' = FlowCols /\ FlowRoots' = FlowRoots
         /\ AllKnown' = AllKnown /\ HasQuery' = HasQuery /\ Kind' = Kind
         /\ \A cols : ListsFixed(cols)' = ListsFixed(cols)
         /\ \A how, t : Called(how, t)' = Called(how, t)
<1>1. q' = q /\ metadata' = metadata
  OBVIOUS
<1>2. FlowCols' = FlowCols
  BY <1>1, ColumnsStay DEF FlowCols
<1>3. AllKnown' = AllKnown /\ \A cols : ListsFixed(cols)' = ListsFixed(cols)
  BY <1>1, GuardsStay
<1>4. Kind' = Kind /\ HasQuery' = HasQuery
  BY <1>1 DEF Kind, HasQuery
<1>5. \A how, t : Called(how, t)' = Called(how, t)
  BY <1>1 DEF Called, KeyOf
<1>6. FlowRoots' = FlowRoots
  BY <1>2 DEF FlowRoots
<1>. QED
  BY <1>2, <1>3, <1>4, <1>5, <1>6

LEMMA FlowStays ==
  ASSUME Sound, Flowing, Arrived, UNCHANGED <<q, metadata, stage, calls, tableCols>>
  PROVE  Flowing' /\ Arrived'
<1>1. /\ FlowCols' = FlowCols /\ FlowRoots' = FlowRoots
      /\ AllKnown' = AllKnown /\ HasQuery' = HasQuery
      /\ \A cols : ListsFixed(cols)' = ListsFixed(cols)
      /\ \A how, t : Called(how, t)' = Called(how, t)
  BY LineageStays DEF Sound
<1>2. PICK how : how = calls
  OBVIOUS
<1>3. TablesTold' = TablesTold
  <2>1. \A t : Called(calls, t)' = Called(how, t)
    BY <1>1, <1>2
  <2>. QED
    BY <1>2, <2>1 DEF TablesTold
<1>4. Flowing'
  BY <1>1, <1>3 DEF Flowing
<1>5. Arrived'
  BY <1>1, <1>3 DEF Arrived
<1>. QED
  BY <1>4, <1>5


(* The fields that the engine finds sources of are credited.                 *)
LEMMA AnalyzeFlows ==
  ASSUME Sound, Meaningful, Surrounded, Staged, TablesFollow, Analyze
  PROVE  Flowing' /\ Arrived'
<1>0. /\ q \in Statements /\ TablesExist /\ UNCHANGED <<q, metadata>>
      /\ stage = "referenced" /\ stack = <<>> /\ Ended
  BY DEF Sound, Analyze, Staged, Ended
<1>1. /\ FlowCols' = FlowCols /\ FlowRoots' = FlowRoots
      /\ AllKnown' = AllKnown /\ HasQuery' = HasQuery /\ Kind' = Kind
      /\ \A how, t : Called(how, t)' = Called(how, t)
  BY <1>0, LineageStays
<1>2. CASE HasQuery
  <2>0. PICK how \in Calls : \E fields \in FieldsFound(how) :
          /\ calls' = how
          /\ tableCols' = Credited([t \in BaseTables |-> {}], UNION ToSet(fields))
          /\ {} \notin ToSet(fields) \/ stage' = "flow"
    BY <1>2 DEF Analyze, HasQuery
  <2>1. PICK fields \in FieldsFound(how) :
          /\ calls' = how
          /\ tableCols' = Credited([t \in BaseTables |-> {}], UNION ToSet(fields))
          /\ {} \notin ToSet(fields) \/ stage' = "flow"
    BY <2>0
  <2>2. PICK seeded, refs, roots : seeded = [t \in BaseTables |-> {}] /\ refs = UNION ToSet(fields) /\ roots = FlowRoots
    OBVIOUS
  <2>3. q # <<>>
    BY <1>2 DEF HasQuery, Kind
  <2>4. \A r \in roots : r.table \in DOMAIN seeded /\ r.column # Star
    <3>1. ASSUME NEW r \in RootsOf(ColsOf(FALSE)[Root]) PROVE r.table \in BaseTables /\ r.column # Star
      <4>1. PICK c \in ToSet(ColsOf(FALSE)[Root]) : r \in c.roots
        BY <3>1 DEF RootsOf
      <4>2. r.table \in BaseTables
        BY <1>0, <2>3, <4>1, RootsRead
      <4>. QED
        BY <2>3, <3>1, <4>2, RootsAreColumns
    <3>. QED
      BY <2>2, <3>1 DEF FlowRoots, FlowCols
  <2>5. /\ \A x \in refs : \E r \in roots : x = Ref(Called(how, r.table), r.column)
        /\ {} \notin ToSet(fields) => \A r \in roots : Ref(Called(how, r.table), r.column) \in refs
    BY <2>2, FieldsFacts DEF FlowRoots
  <2>6. tableCols' = Credited(seeded, refs) /\ DOMAIN tableCols' = DOMAIN seeded
    BY <2>1, <2>2, CreditedFacts
  <2>7. TablesTold' => \A t \in DOMAIN seeded : ScopeTable(DOMAIN seeded, Called(how, t)) = {t}
    <3>1. \A t : Called(calls, t)' = Called(how, t)
      <4>1. \A t : Called(how, t)' = Called(how, t)
        BY <1>1
      <4>. QED
        BY <2>1, <4>1 DEF Called
    <3>. QED
      BY <2>6, <3>1 DEF TablesTold
  <2>8. \A t \in DOMAIN seeded : seeded[t] \subseteq ColumnsFor(roots, t)
    BY <2>2
  <2>9. ASSUME \A t \in DOMAIN seeded : ScopeTable(DOMAIN seeded, Called(how, t)) = {t}
        PROVE  /\ \A t \in DOMAIN seeded : Credited(seeded, refs)[t] \subseteq ColumnsFor(roots, t)
               /\ {} \notin ToSet(fields) =>
                    \A t \in DOMAIN seeded : Credited(seeded, refs)[t] = ColumnsFor(roots, t)
    <3>1. Creditable(how, seeded, refs, roots)
      BY <2>4, <2>5, <2>8, <2>9 DEF Creditable
    <3>2. /\ \A t \in DOMAIN seeded : Credited(seeded, refs)[t] \subseteq ColumnsFor(roots, t)
          /\ (\A r \in roots : Ref(Called(how, r.table), r.column) \in refs) =>
               \A t \in DOMAIN seeded : Credited(seeded, refs)[t] = ColumnsFor(roots, t)
      BY <3>1, CreditFacts
    <3>. QED
      BY <2>5, <3>2
  <2>10. FlowRoots' = roots
    BY <1>1, <2>2
  <2>11. TablesTold' => \A t \in DOMAIN tableCols' : tableCols'[t] \subseteq ColumnsFor(roots, t)
    BY <2>6, <2>7, <2>9
  <2>12. TablesTold' /\ {} \notin ToSet(fields) => \A t \in DOMAIN tableCols' : tableCols'[t] = ColumnsFor(roots, t)
    BY <2>6, <2>7, <2>9
  <2>13. Flowing'
    BY <2>4, <2>6, <2>10, <2>11 DEF Flowing
  <2>14. Arrived'
    BY <2>1, <2>10, <2>12 DEF Arrived
  <2>. QED
    BY <2>13, <2>14
<1>3. CASE Kind \in {"update", "merge"}
  <2>1. ~HasQuery /\ stage' = "flow"
    BY <1>3 DEF Analyze, HasQuery
  <2>. QED
    BY <1>1, <2>1 DEF Flowing, Arrived
<1>4. CASE Kind \in {"delete", "none"}
  <2>1. ~HasQuery /\ DOMAIN tableCols' = {}
    BY <1>4 DEF Analyze, HasQuery, Nothing
  <2>. QED
    BY <1>1, <2>1 DEF Flowing, Arrived
<1>. QED
  BY <1>2, <1>3, <1>4 DEF Analyze

(* What the resolver finds is credited too.                                  *)
LEMMA CreditFlows ==
  ASSUME Sound, Meaningful, Exact, Staged, Flowing, Credit
  PROVE  Arrived'
<1>0. /\ q \in Statements /\ TablesExist /\ UNCHANGED <<q, metadata, calls>>
      /\ stage = "flow" /\ stage' = "done" /\ flowOnly /\ Root \in DOMAIN out /\ q # <<>>
      /\ Root \in Nodes /\ DOMAIN out \subseteq QueryNodes
  <2>1. /\ q \in Statements /\ TablesExist /\ StackOK /\ DOMAIN out \subseteq QueryNodes
        /\ UNCHANGED <<q, metadata, calls>>
        /\ stage = "flow" /\ stage' = "done" /\ stack = <<>> /\ flowOnly /\ Root \in TakenUp
    BY DEF Sound, Credit, Staged, vars
  <2>2. Root \in DOMAIN out
    BY <2>1, StackFacts DEF TakenUp
  <2>3. Root \in Nodes
    BY <2>1, <2>2 DEF QueryNodes
  <2>4. q # <<>>
    BY <2>1, <2>3, StatementFacts
  <2>. QED
    BY <2>1, <2>2, <2>3, <2>4
<1>1. /\ FlowCols' = FlowCols /\ FlowRoots' = FlowRoots
      /\ AllKnown' = AllKnown /\ HasQuery' = HasQuery
      /\ \A cols : ListsFixed(cols)' = ListsFixed(cols)
      /\ \A how, t : Called(how, t)' = Called(how, t)
  BY <1>0, LineageStays
<1>. DEFINE found == UNION {out[Root].byName[name] : name \in ToSet(out[Root].names)}
<1>2. PICK refs, roots, how : refs = found /\ roots = FlowRoots /\ how = calls
  OBVIOUS
<1>3. tableCols' = IF ~HasQuery THEN Columns({r \in refs : r.column # Star}, tables \union {r.table : r \in refs})
                                ELSE Credited(tableCols, refs)
  BY <1>2 DEF Credit
<1>4. \A r \in roots : r.column # Star /\ r = Ref(r.table, r.column)
  <2>1. \A r \in RootsOf(ColsOf(FALSE)[Root]) : r.column # Star /\ r = Ref(r.table, r.column)
    BY <1>0, RootsAreColumns
  <2>. QED
    BY <1>2, <2>1 DEF FlowRoots, FlowCols
<1>5. ASSUME AllKnown, NEW flow, flow = FlowCols, ListsFixed(flow)
      PROVE  refs = roots
  <2>1. PICK cs : cs = flow[Root]
    OBVIOUS
  <2>2. out[Root] = Output(cs)
    <3>1. flow = ColsOf(FALSE) /\ Guarded(flow)
      BY <1>0, <1>5 DEF FlowCols, Guarded, NothingDropped
    <3>2. Solved(flow)
      BY <1>0, <3>1 DEF Exact
    <3>. QED
      BY <1>0, <2>1, <3>2 DEF Solved, PutOut
  <2>3. cs \in Seq(ColumnsOver(Nodes))
    BY <1>0, <1>5, <2>1, SettledFacts DEF Over, FlowCols
  <2>. DEFINE put == Output(cs)
  <2>4. /\ put.names = ColNames(cs) /\ DOMAIN put.byName = ToSet(put.names)
        /\ \A name \in DOMAIN put.byName : put.byName[name] = RootsNamed(cs, name)
    BY <1>0, <2>3, OutputFacts DEF AllKept
  <2>5. refs = UNION {put.byName[name] : name \in ToSet(put.names)}
    BY <1>2, <2>2
  <2>. HIDE DEF put
  <2>6. \A x : x \in roots <=> \E i \in DOMAIN cs : x \in cs[i].roots
    BY <1>2, <1>5, <2>1 DEF FlowRoots, RootsOf, ToSet
  <2>7. \A x : x \in refs <=> \E name \in DOMAIN put.byName : x \in RootsNamed(cs, name)
    BY <2>4, <2>5
  <2>8. /\ \A i \in DOMAIN cs : cs[i].name \in DOMAIN put.byName
        /\ \A x, name : x \in RootsNamed(cs, name) <=> \E i \in DOMAIN cs : cs[i].name = name /\ x \in cs[i].roots
    <3>1. \A i \in DOMAIN cs : cs[i].name \in ToSet(ColNames(cs))
      BY DEF ColNames, ToSet
    <3>2. \A x, name : x \in RootsNamed(cs, name) <=> \E i \in DOMAIN cs : cs[i].name = name /\ x \in cs[i].roots
      BY DEF RootsNamed, Named
    <3>. QED
      BY <2>4, <3>1, <3>2
  <2>. QED
    BY <2>6, <2>7, <2>8
<1>6. CASE HasQuery
  <2>1. tableCols' = Credited(tableCols, refs) /\ DOMAIN tableCols' = DOMAIN tableCols
    BY <1>3, <1>6, CreditedFacts
  <2>2. TablesTold' = TablesTold
    <3>1. \A t : Called(calls, t)' = Called(how, t)
      BY <1>0, <1>1, <1>2 DEF Called
    <3>. QED
      BY <1>2, <2>1, <3>1 DEF TablesTold
  <2>3. ASSUME AllKnown, TablesTold, NEW flow, flow = FlowCols, ListsFixed(flow), NEW t \in DOMAIN tableCols
        PROVE  Credited(tableCols, refs)[t] = ColumnsFor(roots, t)
    <3>1. refs = roots
      BY <1>5, <2>3
    <3>2. PICK written : written = "as written"
      OBVIOUS
    <3>3. \A table : Called(written, table) = table
      BY <3>2 DEF Called
    <3>4. \A table \in DOMAIN tableCols : ScopeTable(DOMAIN tableCols, Called(written, table)) = {table}
      BY <3>3 DEF ScopeTable
    <3>5. /\ \A r \in roots : r.table \in DOMAIN tableCols /\ r.column # Star
          /\ \A table \in DOMAIN tableCols : tableCols[table] \subseteq ColumnsFor(roots, table)
      BY <1>0, <1>2, <1>4, <1>6, <2>3 DEF Flowing
    <3>6. /\ \A x \in refs : \E r \in roots : x = Ref(Called(written, r.table), r.column)
          /\ \A r \in roots : Ref(Called(written, r.table), r.column) \in refs
      BY <1>4, <3>1, <3>3
    <3>7. Creditable(written, tableCols, refs, roots)
      BY <3>4, <3>5, <3>6 DEF Creditable
    <3>8. \A table \in DOMAIN tableCols : Credited(tableCols, refs)[table] = ColumnsFor(roots, table)
      BY <3>6, <3>7, CreditFacts
    <3>. QED
      BY <2>3, <3>8
  <2>4. FlowRoots' = roots
    BY <1>1, <1>2
  <2>. QED
    BY <1>1, <2>1, <2>2, <2>3, <2>4 DEF Arrived
<1>7. CASE ~HasQuery
  <2>. DEFINE kept == {r \in refs : r.column # Star}
              names == tables \union {r.table : r \in refs}
  <2>1. tableCols' = Columns(kept, names)
    BY <1>3, <1>7
  <2>2. ASSUME AllKnown, NEW flow, flow = FlowCols, ListsFixed(flow)
        PROVE  kept = roots
    BY <1>4, <1>5, <2>2
  <2>. HIDE DEF kept, names
  <2>3. DOMAIN tableCols' = names /\ \A t \in names : tableCols'[t] = ColumnsFor(kept, t)
    BY <2>1 DEF Columns, ColumnsFor
  <2>4. FlowRoots' = roots
    BY <1>1, <1>2
  <2>. QED
    BY <1>1, <2>2, <2>3, <2>4 DEF Arrived
<1>. QED
  BY <1>6, <1>7

LEMMA FlowInductive ==
  ASSUME Sound, Meaningful, Exact, Surrounded, Staged, TablesFollow, Flowing, Arrived,
         [AnalysisNext]_analysisVars
  PROVE  Flowing' /\ Arrived'
<1>1. CASE (Resolution /\ UNCHANGED lineageVars) \/ Analyzed \/ UNCHANGED analysisVars
  <2>1. UNCHANGED <<q, metadata, stage, calls, tableCols>>
    BY <1>1 DEF Resolution, EnterSource, EnterClause, Enter, ResolveSelect, ResolveSetOp, ResolveDML,
                ResolveValueFlow, Leave, lineageVars, Analyzed, analysisVars, allVars, vars
  <2>. QED
    BY <2>1, FlowStays
<1>2. CASE Analyze
  BY <1>2, AnalyzeFlows
<1>3. CASE Credit
  <2>1. stage' = "done"
    BY <1>3 DEF Credit
  <2>. QED
    BY <1>3, <2>1, CreditFlows DEF Flowing
<1>4. CASE ListedColumns \/ Inspect \/ Recover
  <2>1. stage' \in {"answered", "columns"}
    BY <1>4 DEF ListedColumns, Inspect, Recover, Answered, Unresolved
  <2>. QED
    BY <2>1 DEF Flowing, Arrived
<1>. QED
  BY <1>1, <1>2, <1>3, <1>4 DEF AnalysisNext

(* LineageSourceColumns returns, with metadata for every table, the columns  *)
(* whose values flow into the result and no others, for every statement,     *)
(* whichever fields the engine finds no source of and however it calls the   *)
(* tables; if no two tables go by one name and no SELECT list holds what     *)
(* ListsExact excludes.                                                      *)
THEOREM LineageIsExact == AnalysisSpec => []LineageExact
<1>1. ColumnsInit => Flowing /\ Arrived
  BY DEF ColumnsInit, LineageInit, Flowing, Arrived
<1>2. /\ Sound /\ Meaningful /\ Exact /\ Surrounded /\ Staged /\ TablesFollow
      /\ Flowing /\ Arrived
      /\ [AnalysisNext]_analysisVars
      => Flowing' /\ Arrived'
  BY FlowInductive
<1>3. Arrived => LineageExact
  <2>. SUFFICES ASSUME Arrived, stage = "done", q # <<>>, AllKnown, TablesTold,
                       NEW flow, flow = FlowCols, ListsExact(flow),
                       NEW roots, roots = UNION {c.roots : c \in ToSet(flow[Root])},
                       NEW t \in DOMAIN tableCols
                PROVE  tableCols[t] = {r.column : r \in {r \in roots : r.table = t}}
    BY DEF LineageExact
  <2>1. roots = FlowRoots
    BY DEF FlowRoots, RootsOf
  <2>2. tableCols[t] = ColumnsFor(FlowRoots, t)
    BY ExactIsFixed DEF Arrived
  <2>. QED
    BY <2>1, <2>2 DEF ColumnsFor
<1>. QED
  BY <1>1, <1>2, <1>3, SoundAlways, MeaningfulAlways, ExactAlways, SurroundedAlways, StagedAlways,
     TablesFollowAlways, PTL DEF AnalysisSpec
=============================================================================
