-------------------------- MODULE TableRewriteProofs --------------------------
(***************************************************************************)
(* The table rewrite gives every match an alias of its own, and references  *)
(* keep their meaning but for the gaps TableRewrite names, for every plan   *)
(* and for statements of any size.                                          *)
(***************************************************************************)
EXTENDS TableRewrite, TreeRecursion, SequenceTheorems

-----------------------------------------------------------------------------
(* Statements, names and qualifiers.                                         *)

Size == Len(q)

LEMMA StatementFacts ==
  ASSUME q \in Statements
  PROVE  /\ Size \in Nat \ {0} /\ DOMAIN q = 1 .. Size /\ IsFiniteSet(DOMAIN q)
         /\ DOMAIN q \subseteq Nat
         /\ \A n \in DOMAIN q : IsNode(q[n])
         /\ Root \in Queries /\ Queries \subseteq DOMAIN q
         /\ \A n \in DOMAIN q \ {Root} :
              /\ q[n].up \in Queries /\ q[n].up \in Nat /\ q[n].up < n
              /\ q[n].place = "cte" => q[n].alias # <<>>
<1>1. Size \in Nat \ {0} /\ DOMAIN q = 1 .. Size
  BY StatementsAssumption DEF Size
<1>2. IsFiniteSet(DOMAIN q)
  BY <1>1, FS_Interval
<1>3. \A n \in DOMAIN q : IsNode(q[n])
  BY StatementsAssumption
<1>4. Root \in Queries /\ Queries \subseteq DOMAIN q
  <2>1. q[Root].kind # "table"
    BY StatementsAssumption
  <2>. QED
    BY <1>1, <2>1 DEF Queries, Root
<1>5. ASSUME NEW n \in DOMAIN q \ {Root}
      PROVE  /\ q[n].up \in Queries /\ q[n].up \in Nat /\ q[n].up < n
             /\ q[n].place = "cte" => q[n].alias # <<>>
  <2>1. /\ q[n].up \in 1 .. n - 1 /\ q[q[n].up].kind # "table"
        /\ q[n].place = "cte" => q[n].alias # <<>>
    BY StatementsAssumption
  <2>2. q[n].up \in Nat /\ q[n].up < n /\ q[n].up \in 1 .. Size
    BY <1>1, <2>1
  <2>. QED
    BY <1>1, <2>1, <2>2 DEF Queries
<1>. QED
  BY <1>1, <1>2, <1>3, <1>4, <1>5

(* What is in a FROM is below the query; a FROM holds finitely many.         *)
LEMMA EntryFacts ==
  ASSUME q \in Statements, NEW b, NEW n \in Entries(b)
  PROVE  n \in DOMAIN q \ {Root} /\ n \in Nodes /\ q[n].up = b /\ q[n].place = "from" /\ IsNode(q[n])
BY StatementFacts DEF Entries, Nodes

LEMMA FiniteEntries ==
  ASSUME q \in Statements, NEW b, NEW S, S \subseteq Entries(b)
  PROVE  IsFiniteSet(S) /\ (Cardinality(S) = 1 <=> \E n : S = {n})
<1>1. S \in SUBSET DOMAIN q
  BY DEF Entries
<1>2. IsFiniteSet(S)
  BY <1>1, StatementFacts, FS_Subset
<1>. QED
  BY <1>2, FS_Singleton

LEMMA LowerFacts ==
  ASSUME NEW text \in Texts
  PROVE  Lower(text) \in Texts /\ Lower(Lower(text)) = Lower(text)
<1>1. ASSUME NEW word \in Words \union Nat
      PROVE  LET low == IF word \in Words THEN Fold[word] ELSE word
             IN  low \in Words \union Nat /\ low = IF low \in Words THEN Fold[low] ELSE low
  BY WordsAssumption
<1>2. text \in [1 .. Len(text) -> Words \union Nat] /\ Len(text) \in Nat
  BY DEF Texts
<1>3. Lower(text) \in [1 .. Len(text) -> Words \union Nat]
  BY <1>1, <1>2 DEF Lower
<1>4. Lower(text) \in Texts
  BY <1>2, <1>3 DEF Texts
<1>5. Lower(Lower(text)) = Lower(text)
  BY <1>1, <1>2 DEF Lower
<1>. QED
  BY <1>4, <1>5

LEMMA KeyFacts ==
  ASSUME NEW id \in Identifiers
  PROVE  Key(id) \in Texts /\ Lower(Key(id)) = Lower(id.text)
<1>1. id.text \in Texts
  BY DEF Identifiers
<1>. QED
  BY <1>1, LowerFacts DEF Key

(* Identifiers whose keys agree agree but for letter case.                   *)
LEMMA KeysTellApart ==
  ASSUME NEW id \in Identifiers, NEW other \in Identifiers, Key(id) = Key(other)
  PROVE  Lower(id.text) = Lower(other.text)
BY KeyFacts

LEMMA TableFacts ==
  ASSUME q \in Statements, NEW n \in DOMAIN q, q[n].kind = "table"
  PROVE  LET k == Len(q[n].name)
         IN  /\ k \in 1 .. 3 /\ q[n].name \in Seq(Identifiers) /\ q[n].name[k] \in Identifiers
             /\ Keys(n) \in Seq(Texts) /\ Len(Keys(n)) = k
             /\ Last(Keys(n)) = Key(q[n].name[k])
             /\ BareName(n) \in Texts /\ Lower(Last(Keys(n))) = Lower(BareName(n))
<1>. DEFINE k == Len(q[n].name)
<1>1. k \in 1 .. 3 /\ q[n].name \in Seq(Identifiers)
  BY StatementFacts DEF IsNode
<1>2. k \in DOMAIN q[n].name /\ q[n].name[k] \in Identifiers
  <2>1. k \in 1 .. k
    <3>1. \A i \in 1 .. 3 : i \in 1 .. i
      OBVIOUS
    <3>. QED
      BY <1>1, <3>1, Zenon
  <2>2. DOMAIN q[n].name = 1 .. k /\ \A i \in 1 .. k : q[n].name[i] \in Identifiers
    BY <1>1
  <2>. HIDE DEF k
  <2>. QED
    BY <2>1, <2>2
<1>3. Keys(n) \in Seq(Texts) /\ Len(Keys(n)) = k
  <2>1. \A i \in 1 .. k : Key(q[n].name[i]) \in Texts
    BY <1>1, KeyFacts
  <2>. HIDE DEF k
  <2>2. Keys(n) = [i \in 1 .. k |-> Key(q[n].name[i])]
    BY <1>1 DEF Keys, k
  <2>. QED
    BY <1>1, <2>1, <2>2
<1>4. Last(Keys(n)) = Key(q[n].name[k])
  BY <1>2, <1>3 DEF Last, Keys
<1>5. BareName(n) \in Texts /\ Lower(Last(Keys(n))) = Lower(BareName(n))
  BY <1>2, <1>4, KeyFacts DEF BareName, Identifiers
<1>. QED
  BY <1>1, <1>2, <1>3, <1>4, <1>5

(* The suffixes of a name end in its last word.                              *)
LEMMA SuffixFacts ==
  ASSUME NEW S, NEW s \in Seq(S), s # <<>>
  PROVE  /\ \A c \in Suffixes(s) : c # <<>> => Len(c) \in Nat \ {0} /\ Last(c) = Last(s)
         /\ \A c \in Suffixes(s) : Len(c) = 1 => c = <<Last(s)>>
         /\ <<Last(s)>> \in Suffixes(s)
<1>. DEFINE k == Len(s)
<1>1. k \in Nat \ {0} /\ Last(s) = s[k] /\ s[k] \in S
  BY DEF Last
<1>2. ASSUME NEW l \in 1 .. k
      PROVE  LET c == SubSeq(s, l, k)
             IN  c \in Seq(S) /\ Len(c) = k - l + 1 /\ c[Len(c)] = s[k]
  <2>1. \A i \in l .. k : s[i] \in S
    BY <1>1
  <2>. DEFINE c == SubSeq(s, l, k)
  <2>2. /\ c \in Seq(S) /\ Len(c) = IF l <= k THEN k - l + 1 ELSE 0
        /\ \A i \in 1 .. k - l + 1 : c[i] = s[l + i - 1]
    BY <1>1, <2>1, SubSeqProperties
  <2>. HIDE DEF c
  <2>3. Len(c) = k - l + 1 /\ Len(c) \in 1 .. k - l + 1 /\ l + Len(c) - 1 = k
    BY <1>1, <2>2
  <2>4. c[Len(c)] = s[k]
    BY <2>2, <2>3
  <2>. QED
    BY <2>2, <2>3, <2>4 DEF c
<1>3. ASSUME NEW c \in Suffixes(s), c # <<>>
      PROVE  c \in Seq(S) /\ Len(c) \in Nat \ {0} /\ c[Len(c)] = s[k]
  <2>1. PICK l \in 1 .. k : c = SubSeq(s, l, k)
    BY <1>3 DEF Suffixes
  <2>. QED
    BY <1>1, <1>2, <2>1
<1>4. \A c \in Seq(S) : Len(c) = 1 => c = <<c[1]>>
  OBVIOUS
<1>5. ASSUME NEW c \in Suffixes(s), Len(c) = 1
      PROVE  c = <<s[k]>>
  <2>1. c # <<>>
    <3>1. Len(<<>>) # 1
      BY EmptySeq
    <3>. QED
      BY <1>5, <3>1, Zenon
  <2>2. c \in Seq(S) /\ c[1] = s[k]
    BY <1>3, <1>5, <2>1
  <2>. QED
    BY <1>4, <1>5, <2>2
<1>6. <<s[k]>> \in Suffixes(s)
  <2>1. k \in 1 .. k /\ Len(SubSeq(s, k, k)) = 1
    BY <1>1, <1>2
  <2>2. SubSeq(s, k, k) \in Suffixes(s)
    BY <2>1 DEF Suffixes
  <2>. QED
    BY <1>5, <2>1, <2>2
<1>. QED
  BY <1>1, <1>3, <1>5, <1>6 DEF Last

-----------------------------------------------------------------------------
(* The recursive functions of the model are what their definitions say.      *)

LEMMA OutwardFacts ==
  ASSUME q \in Statements
  PROVE  \A b \in Queries :
           /\ Outward[b] = IF b = Root THEN 0 ELSE IF q[b].place = "clause" THEN q[b].up
                                                                           ELSE Outward[q[b].up]
           /\ Outward[b] \in Queries \union {0} /\ Outward[b] \in Nat /\ Outward[b] < b
<1>. DEFINE Vals == Queries \union {0}
            Stop == {b \in Queries : b = Root \/ q[b].place = "clause"}
            base == [b \in Queries |-> IF b = Root THEN 0 ELSE q[b].up]
            next == [b \in Queries |-> q[b].up]
            step == [b \in Queries |-> [v \in Vals |-> v]]
            Body(f) == [b \in Queries |->
                          CASE b = Root                            -> 0
                            [] b # Root /\ q[b].place = "clause"   -> q[b].up
                            [] OTHER                               -> f[q[b].up]]
<1>1. /\ Queries \in SUBSET Nat /\ Size \in Nat /\ \A b \in Queries : b <= Size
      /\ \A b \in Queries \ {Root} : q[b].up \in Queries /\ q[b].up < b
  BY StatementFacts
<1>n. \A v \in Vals : v \in Nat
  BY <1>1
<1>2. PICK f : Solves(f, Queries, Vals, Stop, base, next, step)
  <2>1. \A b \in Queries : b \in Stop => base[b] \in Vals
    BY <1>1
  <2>2. \A b \in Queries : b \notin Stop => next[b] \in Queries /\ next[b] < b /\ step[b] \in [Vals -> Vals]
    BY <1>1
  <2>. HIDE DEF Vals, Stop, base, next, step
  <2>. QED
    BY <1>1, <2>1, <2>2, ChainRecursion
<1>3. \A b \in Queries : f[b] = IF b = Root THEN 0 ELSE IF q[b].place = "clause" THEN q[b].up
                                                                          ELSE f[q[b].up]
  BY <1>1, <1>2 DEF Solves
<1>4. f = Body(f)
  <2>1. \A b \in Queries : f[b] = Body(f)[b]
    BY <1>3
  <2>. QED
    BY <1>2, <2>1 DEF Solves
<1>5. Outward = Body(Outward)
  BY <1>4 DEF Outward
<1>. DEFINE g == Outward
<1>. HIDE DEF g
<1>6. \A b \in Queries : g[b] = IF b = Root THEN 0 ELSE IF q[b].place = "clause" THEN q[b].up
                                                                          ELSE g[q[b].up]
  BY <1>5 DEF g
<1>7. Queries \subseteq {b \in Queries : g[b] \in Vals /\ g[b] < b}
  <2>. DEFINE Fine == {b \in Queries : g[b] \in Vals /\ g[b] < b}
  <2>1. ASSUME NEW b \in Queries, \A m \in Queries : m < b => m \in Fine
        PROVE  b \in Fine
    <3>1. CASE b = Root
      BY <1>6, <3>1 DEF Root
    <3>2. CASE b # Root /\ q[b].place = "clause"
      BY <1>1, <1>6, <3>2
    <3>3. CASE b # Root /\ q[b].place # "clause"
      <4>1. g[b] = g[q[b].up] /\ q[b].up \in Fine /\ q[b].up < b
        BY <1>1, <1>6, <2>1, <3>3
      <4>2. g[b] \in Vals /\ g[b] < q[b].up
        BY <4>1
      <4>3. g[b] \in Nat /\ q[b].up \in Nat /\ b \in Nat
        BY <1>1, <1>n, <4>1, <4>2
      <4>. QED
        BY <4>1, <4>2, <4>3
    <3>. QED
      BY <3>1, <3>2, <3>3
  <2>. HIDE DEF Fine
  <2>2. Queries \subseteq Fine
    BY <1>1, <2>1, SmallerFirst
  <2>. QED
    BY <2>2 DEF Fine
<1>8. \A b \in Queries : g[b] \in Queries \union {0} /\ g[b] \in Nat /\ g[b] < b
  <2>. HIDE DEF Vals
  <2>1. \A b \in Queries : g[b] \in Vals /\ g[b] < b
    BY <1>7
  <2>2. \A b \in Queries : g[b] \in Nat
    BY <1>n, <2>1
  <2>. QED
    BY <2>1, <2>2 DEF Vals
<1>. QED
  BY <1>6, <1>8 DEF g

(* What answers to c in the FROM of b.                                       *)
Here(exposed, c, b) == {n \in Entries(b) : c \in exposed[n]}

LEMMA DenotedFacts ==
  ASSUME q \in Statements, NEW exposed, NEW c
  PROVE  \A b \in Queries :
           Denoted(exposed, c)[b] = IF Here(exposed, c, b) # {} \/ Outward[b] = 0
                                      THEN Here(exposed, c, b) ELSE Denoted(exposed, c)[Outward[b]]
<1>. DEFINE here(b) == Here(exposed, c, b)
            Vals == SUBSET Nodes
            Stop == {b \in Queries : here(b) # {} \/ Outward[b] = 0}
            base == [b \in Queries |-> here(b)]
            next == [b \in Queries |-> Outward[b]]
            step == [b \in Queries |-> [v \in Vals |-> v]]
            Body(f) == [b \in Queries |->
                          IF here(b) # {} \/ Outward[b] = 0 THEN here(b) ELSE f[Outward[b]]]
<1>1. /\ Queries \in SUBSET Nat /\ Size \in Nat /\ \A b \in Queries : b <= Size
      /\ \A b \in Queries : Outward[b] # 0 => Outward[b] \in Queries /\ Outward[b] < b
  BY StatementFacts, OutwardFacts
<1>2. PICK f : Solves(f, Queries, Vals, Stop, base, next, step)
  <2>1. \A b \in Queries : b \in Stop => base[b] \in Vals
    BY EntryFacts DEF Here
  <2>2. \A b \in Queries : b \notin Stop => next[b] \in Queries /\ next[b] < b /\ step[b] \in [Vals -> Vals]
    BY <1>1
  <2>. HIDE DEF Vals, Stop, base, next, step
  <2>. QED
    BY <1>1, <2>1, <2>2, ChainRecursion
<1>3. ASSUME NEW b \in Queries
      PROVE  f[b] = IF here(b) # {} \/ Outward[b] = 0 THEN here(b) ELSE f[Outward[b]]
  <2>1. f[b] = IF b \in Stop THEN base[b] ELSE step[b][f[next[b]]]
    BY <1>2 DEF Solves
  <2>2. b \in Stop <=> here(b) # {} \/ Outward[b] = 0
    OBVIOUS
  <2>3. b \notin Stop => f[Outward[b]] \in Vals
    BY <1>1, <1>2 DEF Solves
  <2>4. base[b] = here(b) /\ next[b] = Outward[b] /\ \A v \in Vals : step[b][v] = v
    OBVIOUS
  <2>. HIDE DEF here, Vals, Stop, base, next, step
  <2>. QED
    BY <2>1, <2>2, <2>3, <2>4
<1>4. f = Body(f)
  <2>1. \A b \in Queries : f[b] = Body(f)[b]
    BY <1>3
  <2>. QED
    BY <1>2, <2>1 DEF Solves
<1>5. Denoted(exposed, c) = Body(Denoted(exposed, c))
  BY <1>4 DEF Denoted, Here
<1>. DEFINE g == Denoted(exposed, c)
<1>. HIDE DEF g
<1>6. g = Body(g)
  BY <1>5 DEF g
<1>7. \A b \in Queries : g[b] = IF here(b) # {} \/ Outward[b] = 0 THEN here(b) ELSE g[Outward[b]]
  BY <1>6
<1>. QED
  BY <1>7 DEF g

LEMMA WithinFacts ==
  ASSUME q \in Statements
  PROVE  \A b \in Queries :
           /\ Within[b] = {b} \union IF b = Root THEN {} ELSE Within[q[b].up]
           /\ Within[b] \subseteq {i \in Queries : i <= b}
<1>. DEFINE Vals == SUBSET Queries
            Stop == {Root}
            base == [b \in Queries |-> {b}]
            next == [b \in Queries |-> q[b].up]
            step == [b \in Queries |-> [v \in Vals |-> {b} \union v]]
            Body(f) == [b \in Queries |-> {b} \union IF b = Root THEN {} ELSE f[q[b].up]]
<1>1. /\ Queries \in SUBSET Nat /\ Size \in Nat /\ \A b \in Queries : b <= Size
      /\ \A b \in Queries \ {Root} : q[b].up \in Queries /\ q[b].up < b
  BY StatementFacts
<1>2. PICK f : Solves(f, Queries, Vals, Stop, base, next, step)
  <2>1. \A b \in Queries : b \in Stop => base[b] \in Vals
    OBVIOUS
  <2>2. \A b \in Queries : b \notin Stop => next[b] \in Queries /\ next[b] < b /\ step[b] \in [Vals -> Vals]
    BY <1>1
  <2>. HIDE DEF Vals, Stop, base, next, step
  <2>. QED
    BY <1>1, <2>1, <2>2, ChainRecursion
<1>3. \A b \in Queries : f[b] = {b} \union IF b = Root THEN {} ELSE f[q[b].up]
  BY <1>1, <1>2 DEF Solves
<1>4. f = Body(f)
  <2>1. \A b \in Queries : f[b] = Body(f)[b]
    BY <1>3
  <2>. QED
    BY <1>2, <2>1 DEF Solves
<1>5. Within = Body(Within)
  BY <1>4 DEF Within
<1>. DEFINE g == Within
<1>. HIDE DEF g
<1>6. \A b \in Queries : g[b] = {b} \union IF b = Root THEN {} ELSE g[q[b].up]
  BY <1>5 DEF g
<1>7. Queries \subseteq {b \in Queries : g[b] \subseteq {i \in Queries : i <= b}}
  <2>. DEFINE Fine == {b \in Queries : g[b] \subseteq {i \in Queries : i <= b}}
  <2>1. ASSUME NEW b \in Queries, \A m \in Queries : m < b => m \in Fine
        PROVE  b \in Fine
    <3>1. b \in Nat /\ b <= b
      BY <1>1
    <3>2. b # Root => q[b].up \in Fine /\ q[b].up \in Nat /\ q[b].up < b
      BY <1>1, <2>1
    <3>3. ASSUME b # Root, NEW i \in g[q[b].up] PROVE i \in Queries /\ i <= b
      <4>1. i \in Queries /\ i <= q[b].up
        BY <3>2, <3>3
      <4>2. i \in Nat
        BY <1>1, <4>1
      <4>. QED
        BY <3>1, <3>2, <3>3, <4>1, <4>2
    <3>. QED
      BY <1>6, <3>1, <3>3
  <2>. HIDE DEF Fine
  <2>2. Queries \subseteq Fine
    BY <1>1, <2>1, SmallerFirst
  <2>. QED
    BY <2>2 DEF Fine
<1>. QED
  BY <1>6, <1>7 DEF g

LEMMA SeenFacts ==
  ASSUME q \in Statements
  PROVE  \A b \in Queries :
           /\ Seen[b] = {b} \union IF Outward[b] = 0 THEN {} ELSE Seen[Outward[b]]
           /\ Seen[b] \subseteq {i \in Queries : i <= b}
<1>. DEFINE Vals == SUBSET Queries
            Stop == {b \in Queries : Outward[b] = 0}
            base == [b \in Queries |-> {b}]
            next == [b \in Queries |-> Outward[b]]
            step == [b \in Queries |-> [v \in Vals |-> {b} \union v]]
            Body(f) == [b \in Queries |-> {b} \union IF Outward[b] = 0 THEN {} ELSE f[Outward[b]]]
<1>1. /\ Queries \in SUBSET Nat /\ Size \in Nat /\ \A b \in Queries : b <= Size
      /\ \A b \in Queries : Outward[b] # 0 => Outward[b] \in Queries /\ Outward[b] < b
  BY StatementFacts, OutwardFacts
<1>2. PICK f : Solves(f, Queries, Vals, Stop, base, next, step)
  <2>1. \A b \in Queries : b \in Stop => base[b] \in Vals
    OBVIOUS
  <2>2. \A b \in Queries : b \notin Stop => next[b] \in Queries /\ next[b] < b /\ step[b] \in [Vals -> Vals]
    BY <1>1
  <2>. HIDE DEF Vals, Stop, base, next, step
  <2>. QED
    BY <1>1, <2>1, <2>2, ChainRecursion
<1>3. \A b \in Queries : f[b] = {b} \union IF Outward[b] = 0 THEN {} ELSE f[Outward[b]]
  BY <1>1, <1>2 DEF Solves
<1>4. f = Body(f)
  <2>1. \A b \in Queries : f[b] = Body(f)[b]
    BY <1>3
  <2>. QED
    BY <1>2, <2>1 DEF Solves
<1>5. Seen = Body(Seen)
  BY <1>4 DEF Seen
<1>. DEFINE g == Seen
<1>. HIDE DEF g
<1>6. \A b \in Queries : g[b] = {b} \union IF Outward[b] = 0 THEN {} ELSE g[Outward[b]]
  BY <1>5 DEF g
<1>7. Queries \subseteq {b \in Queries : g[b] \subseteq {i \in Queries : i <= b}}
  <2>. DEFINE Fine == {b \in Queries : g[b] \subseteq {i \in Queries : i <= b}}
  <2>1. ASSUME NEW b \in Queries, \A m \in Queries : m < b => m \in Fine
        PROVE  b \in Fine
    <3>1. b \in Nat /\ b <= b
      BY <1>1
    <3>2. Outward[b] # 0 => Outward[b] \in Fine /\ Outward[b] \in Nat /\ Outward[b] < b
      BY <1>1, <2>1
    <3>3. ASSUME Outward[b] # 0, NEW i \in g[Outward[b]] PROVE i \in Queries /\ i <= b
      <4>1. i \in Queries /\ i <= Outward[b]
        BY <3>2, <3>3
      <4>2. i \in Nat
        BY <1>1, <4>1
      <4>. QED
        BY <3>1, <3>2, <3>3, <4>1, <4>2
    <3>. QED
      BY <1>6, <3>1, <3>3
  <2>. HIDE DEF Fine
  <2>2. Queries \subseteq Fine
    BY <1>1, <2>1, SmallerFirst
  <2>. QED
    BY <2>2 DEF Fine
<1>. QED
  BY <1>6, <1>7 DEF g

-----------------------------------------------------------------------------
(* What depends on the statement alone does not change with the step.        *)

LEMMA StatementStays ==
  ASSUME q' = q
  PROVE  /\ Queries' = Queries /\ Unaliased' = Unaliased /\ Identities' = Identities
         /\ \A n : (Occupied(n))' = Occupied(n)
         /\ \A id : (Group(id))' = Group(id)
<1>1. Queries' = Queries /\ \A b : (Entries(b))' = Entries(b) /\ (CteNames(b))' = CteNames(b)
  BY DEF Queries, Entries, CteNames
<1>2. \A n : (BareName(n))' = BareName(n) /\ (SchemaOf(n))' = SchemaOf(n) /\ (Identity(n))' = Identity(n)
  BY DEF BareName, SchemaOf, Identity, Keys
<1>3. Unaliased' = Unaliased
  BY <1>2 DEF Unaliased, Matches, IsMatch
<1>4. Identities' = Identities /\ \A id : (Group(id))' = Group(id)
  BY <1>2, <1>3 DEF Identities, Group
<1>5. CtesAround' = CtesAround
  BY <1>1 DEF CtesAround
<1>6. \A n : (EntryNames(n))' = EntryNames(n)
  BY <1>2 DEF EntryNames
<1>7. \A n : (Occupied(n))' = Occupied(n)
  BY <1>1, <1>5, <1>6 DEF Occupied
<1>. QED
  BY <1>1, <1>3, <1>4, <1>7

-----------------------------------------------------------------------------
(* The search for a free alias finds one.                                    *)

LEMMA FiniteRange ==
  ASSUME NEW S, IsFiniteSet(S), NEW T, NEW f \in [S -> T]
  PROVE  IsFiniteSet({f[x] : x \in S})
<1>1. f \in Surjection(S, {f[x] : x \in S})
  BY DEF Surjection
<1>. QED
  BY <1>1, FS_Surjection

(* Numbering makes a name of its own of every number.                        *)
LEMMA NumberedFacts ==
  ASSUME NEW default \in Texts, NEW taken, IsFiniteSet(taken)
  PROVE  Numbered(default, taken) \in Texts /\ Lower(Numbered(default, taken)) \notin taken
<1>. DEFINE N == 2 .. Cardinality(taken) + 2
            name(i) == default \o <<i>>
            Free == {i \in N : Lower(name(i)) \notin taken}
            k == Len(default)
<1>1. Cardinality(taken) \in Nat /\ N \subseteq Nat /\ k \in Nat
  BY FS_CardinalityType DEF Texts
<1>2. ASSUME NEW i \in Nat
      PROVE  name(i) \in Texts /\ Lower(name(i))[k + 1] = i
  <2>1. default \in Seq(Words \union Nat) /\ <<i>> \in Seq(Words \union Nat)
    BY DEF Texts
  <2>2. name(i) \in Seq(Words \union Nat) /\ Len(name(i)) = k + 1
    BY <1>1, <2>1
  <2>3. name(i)[k + 1] = i
    BY <1>1, <2>1
  <2>4. k + 1 \in DOMAIN name(i) /\ i \notin Words
    BY <1>1, <2>2, WordsAssumption
  <2>. HIDE DEF name, k
  <2>5. Lower(name(i))[k + 1] = i
    BY <2>3, <2>4 DEF Lower
  <2>. QED
    BY <2>2, <2>5 DEF Texts
<1>3. Free # {}
  <2>1. SUFFICES ASSUME Free = {} PROVE FALSE
    OBVIOUS
  <2>. DEFINE f == [i \in N |-> Lower(name(i))]
  <2>2. f \in [N -> taken]
    BY <2>1
  <2>3. IsFiniteSet(N) /\ Cardinality(N) = Cardinality(taken) + 1
    <3>1. /\ 2 \in Int /\ Cardinality(taken) + 2 \in Int /\ ~(2 > Cardinality(taken) + 2)
          /\ (Cardinality(taken) + 2) - 2 + 1 = Cardinality(taken) + 1
      BY <1>1
    <3>. QED
      BY <3>1, FS_Interval
  <2>4. Cardinality(taken) < Cardinality(N)
    BY <1>1, <2>3
  <2>. HIDE DEF N, f
  <2>5. PICK i, j \in N : i # j /\ f[i] = f[j]
    BY <2>2, <2>3, <2>4, FS_PigeonHole
  <2>6. Lower(name(i)) = Lower(name(j))
    BY <2>5 DEF f
  <2>. QED
    BY <1>1, <1>2, <2>5, <2>6
<1>4. Min(Free) \in Free /\ Min(Free) \in Nat
  <2>1. Free \in SUBSET Nat
    BY <1>1
  <2>. HIDE DEF Free
  <2>. QED
    BY <1>3, <2>1, MinFacts
<1>5. Numbered(default, taken) = name(Min(Free))
  BY DEF Numbered
<1>. QED
  BY <1>2, <1>4, <1>5

LEMMA MatchFacts ==
  ASSUME q \in Statements, NEW n \in Matches
  PROVE  /\ n \in DOMAIN q /\ q[n].kind = "table" /\ Len(q[n].name) \in 2 .. 3
         /\ Target(n) \in Seq(Texts) /\ Len(Target(n)) <= 1
         /\ DefaultAlias(n) \in Identifiers
<1>1. n \in DOMAIN q /\ q[n].kind = "table" /\ Len(q[n].name) > 1
  BY DEF Matches, IsMatch
<1>. DEFINE k == Len(q[n].name)
<1>2. k \in 2 .. 3 /\ q[n].name[k] \in Identifiers
  BY <1>1, TableFacts
<1>3. Target(n) \in Seq(Texts) /\ Len(Target(n)) <= 1
  BY PlanAssumption DEF Matches, IsMatch, Target
<1>4. ASSUME Target(n) # <<>>
      PROVE  Target(n)[1] \in Texts
  <2>1. Len(Target(n)) \in Nat \ {0}
    BY <1>3, <1>4, EmptySeq
  <2>. QED
    BY <1>3, <2>1
<1>5. DefaultAlias(n) \in Identifiers
  BY <1>2, <1>4 DEF DefaultAlias, Identifiers, NeedsQuote
<1>. QED
  BY <1>1, <1>2, <1>3, <1>5

LEMMA DisambiguatedFacts ==
  ASSUME NEW identity \in Seq(Texts), Len(identity) \in 2 .. 3,
         NEW default \in Identifiers, NEW taken, IsFiniteSet(taken)
  PROVE  LET alias == Disambiguated(identity, default, taken)
         IN  alias \in Identifiers /\ Lower(alias.text) \notin taken
<1>. DEFINE names == Candidates(identity)
            free == {i \in DOMAIN names : Lower(names[i]) \notin taken}
            text == IF free # {} THEN names[Min(free)] ELSE Numbered(default.text, taken)
<1>1. names \in Seq(Texts)
  <2>. DEFINE k == Len(identity)
  <2>1. \A x, y \in Texts : x \o y \in Texts
    BY DEF Texts
  <2>2. k - 1 \in 1 .. k /\ k \in 1 .. k /\ (k = 3 => 1 \in 1 .. k /\ 2 \in 1 .. k /\ 3 \in 1 .. k)
    OBVIOUS
  <2>3. \A i \in 1 .. k : identity[i] \in Texts
    OBVIOUS
  <2>. HIDE DEF k
  <2>4. /\ identity[k - 1] \in Texts /\ identity[k] \in Texts
        /\ k = 3 => identity[1] \in Texts /\ identity[2] \in Texts /\ identity[3] \in Texts
    BY <2>2, <2>3
  <2>5. identity[k - 1] \o identity[k] \in Texts
    BY <2>1, <2>4
  <2>6. k = 3 => identity[1] \o identity[2] \o identity[3] \in Texts
    BY <2>1, <2>4
  <2>7. \A x, y : x \in Texts /\ (k = 3 => y \in Texts) =>
          <<x>> \o (IF k = 3 THEN <<y>> ELSE <<>>) \in Seq(Texts)
    OBVIOUS
  <2>. QED
    BY <2>5, <2>6, <2>7 DEF Candidates, k
<1>2. text \in Texts /\ Lower(text) \notin taken
  <2>1. CASE free # {}
    <3>1. free \in SUBSET Nat
      BY <1>1
    <3>. HIDE DEF free, names
    <3>2. Min(free) \in free
      BY <2>1, <3>1, MinFacts
    <3>. QED
      BY <1>1, <2>1, <3>2 DEF free
  <2>2. CASE free = {}
    <3>1. default.text \in Texts
      BY DEF Identifiers
    <3>. QED
      BY <2>2, <3>1, NumberedFacts
  <2>. QED
    BY <2>1, <2>2
<1>3. Disambiguated(identity, default, taken) = [text |-> text, quoted |-> NeedsQuote(text)]
  BY DEF Disambiguated
<1>. HIDE DEF text
<1>. QED
  BY <1>2, <1>3 DEF Identifiers, NeedsQuote

-----------------------------------------------------------------------------
(* The aliases.                                                              *)

(* The texts that can be taken around a match are finitely many.             *)
LEMMA FiniteNames ==
  ASSUME q \in Statements
  PROVE  \E names : /\ IsFiniteSet(names)
                    /\ \A n \in Unaliased :
                         Occupied(n) \subseteq names /\ Lower(DefaultAlias(n).text) \in names
<1>. DEFINE aliases == [n \in DOMAIN q |-> Lower(q[n].alias[1].text)]
            bares == [n \in DOMAIN q |-> Lower(BareName(n))]
            defaults == [n \in DOMAIN q |-> Lower(DefaultAlias(n).text)]
            A == {aliases[n] : n \in DOMAIN q}
            B == {bares[n] : n \in DOMAIN q}
            D == {defaults[n] : n \in DOMAIN q}
<1>1. IsFiniteSet(A) /\ IsFiniteSet(B) /\ IsFiniteSet(D)
  <2>1. aliases \in [DOMAIN q -> A] /\ bares \in [DOMAIN q -> B] /\ defaults \in [DOMAIN q -> D]
    OBVIOUS
  <2>2. IsFiniteSet(DOMAIN q)
    BY StatementFacts
  <2>. HIDE DEF aliases, bares, defaults
  <2>3. \A T, f : f \in [DOMAIN q -> T] => IsFiniteSet({f[n] : n \in DOMAIN q})
    BY <2>2, FiniteRange
  <2>. HIDE DEF A, B, D
  <2>4. IsFiniteSet({aliases[n] : n \in DOMAIN q})
    BY <2>1, <2>3
  <2>5. IsFiniteSet({bares[n] : n \in DOMAIN q})
    BY <2>1, <2>3
  <2>6. IsFiniteSet({defaults[n] : n \in DOMAIN q})
    BY <2>1, <2>3
  <2>. QED
    BY <2>4, <2>5, <2>6 DEF A, B, D
<1>2. IsFiniteSet(A \union B \union D)
  <2>. HIDE DEF A, B, D
  <2>. QED
    BY <1>1, FS_Union
<1>3. \A b : CteNames(b) \subseteq A
  BY DEF CteNames
<1>4. \A n \in DOMAIN q : EntryNames(n) \subseteq A \union B
  BY DEF EntryNames
<1>5. \A b \in DOMAIN q : CtesAround[b] \subseteq A
  <2>. DEFINE Vals == SUBSET A
              base == [b \in DOMAIN q |-> {}]
              next == [b \in DOMAIN q |-> q[b].up]
              step == [b \in DOMAIN q |-> [v \in Vals |->
                         IF q[b].place = "cte" THEN v ELSE v \union CteNames(q[b].up)]]
              Body(f) == [b \in DOMAIN q |->
                            CASE b = Root                       -> {}
                              [] b # Root /\ q[b].place = "cte" -> f[q[b].up]
                              [] OTHER                          -> f[q[b].up] \union CteNames(q[b].up)]
  <2>1. /\ DOMAIN q \in SUBSET Nat /\ Size \in Nat /\ \A b \in DOMAIN q : b <= Size
        /\ \A b \in DOMAIN q : b \notin {Root} => q[b].up \in DOMAIN q /\ q[b].up < b
    BY StatementFacts
  <2>2. PICK f : Solves(f, DOMAIN q, Vals, {Root}, base, next, step)
    <3>1. \A b \in DOMAIN q : b \in {Root} => base[b] \in Vals
      OBVIOUS
    <3>2. \A b \in DOMAIN q : step[b] \in [Vals -> Vals]
      <4>. HIDE DEF A
      <4>. QED
        BY <1>3
    <3>3. \A b \in DOMAIN q : b \notin {Root} =>
            next[b] \in DOMAIN q /\ next[b] < b /\ step[b] \in [Vals -> Vals]
      BY <2>1, <3>2
    <3>. HIDE DEF Vals, base, next, step
    <3>. QED
      BY <2>1, <3>1, <3>3, ChainRecursion
  <2>. HIDE DEF A
  <2>3. \A b \in DOMAIN q : f[b] = Body(f)[b]
    BY <2>1, <2>2 DEF Solves
  <2>4. f = Body(f)
    BY <2>2, <2>3 DEF Solves
  <2>5. CtesAround = Body(CtesAround)
    BY <2>4 DEF CtesAround
  <2>. DEFINE g == CtesAround
              Fine == {b \in DOMAIN q : g[b] \subseteq A}
  <2>. HIDE DEF g
  <2>6. g = Body(g)
    BY <2>5 DEF g
  <2>7. ASSUME NEW b \in DOMAIN q, \A m \in DOMAIN q : m < b => m \in Fine
        PROVE  b \in Fine
    <3>1. b # Root => g[q[b].up] \subseteq A
      BY <2>1, <2>7
    <3>2. g[b] = CASE b = Root                       -> {}
                   [] b # Root /\ q[b].place = "cte" -> g[q[b].up]
                   [] OTHER                          -> g[q[b].up] \union CteNames(q[b].up)
      BY <2>6
    <3>. QED
      BY <1>3, <3>1, <3>2
  <2>. HIDE DEF Fine
  <2>8. DOMAIN q \subseteq Fine
    BY <2>1, <2>7, SmallerFirst
  <2>. QED
    BY <2>8 DEF Fine, g
<1>6. ASSUME NEW n \in Unaliased, n # Root
      PROVE  Occupied(n) \subseteq A \union B
  <2>1. n \in DOMAIN q \ {Root} /\ q[n].up \in DOMAIN q
    BY <1>6, StatementFacts DEF Unaliased, Matches
  <2>2. Entries(q[n].up) \subseteq DOMAIN q
    BY DEF Entries
  <2>3. /\ CtesAround[q[n].up] \subseteq A /\ CteNames(q[n].up) \subseteq A
        /\ \A m \in Entries(q[n].up) : EntryNames(m) \subseteq A \union B
    BY <1>3, <1>4, <1>5, <2>1, <2>2
  <2>. HIDE DEF A, B
  <2>4. UNION {EntryNames(m) : m \in Entries(q[n].up) \ {n}} \subseteq A \union B
    BY <2>3
  <2>. QED
    BY <2>3, <2>4 DEF Occupied
<1>7. ASSUME NEW n \in Unaliased
      PROVE  n # Root /\ Lower(DefaultAlias(n).text) \in D
  <2>1. n \in DOMAIN q /\ q[n].kind = "table"
    BY MatchFacts DEF Unaliased
  <2>2. q[Root].kind # "table"
    BY StatementFacts DEF Queries
  <2>. QED
    BY <2>1, <2>2
<1>. HIDE DEF A, B, D
<1>. QED
  BY <1>2, <1>6, <1>7

(* Every alias given out is in no use around any of the tables it is for,    *)
(* and in none anywhere for another table.                                   *)
Kept(id) ==
  /\ assigned[id] \in Identifiers
  /\ Lower(assigned[id].text) \in used
  /\ \A n \in Group(id) : Lower(assigned[id].text) \notin Occupied(n)

Aliasing ==
  /\ q \in Statements
  /\ pc \in {"match", "unchanged", "reserve", "disambiguate", "rebind", "rewritten"}
  /\ pc \in {"match", "unchanged", "reserve"} => DOMAIN assigned = {}
  /\ pc \in {"disambiguate", "rebind", "rewritten"} =>
       /\ DOMAIN assigned \union todo = Identities /\ DOMAIN assigned \intersect todo = {}
       /\ IsFiniteSet(used)
       /\ \A n \in Unaliased : Occupied(n) \subseteq used
       /\ \A id \in DOMAIN assigned : Kept(id)
       /\ \A x, y \in DOMAIN assigned : Lower(assigned[x].text) = Lower(assigned[y].text) => x = y
  /\ pc \in {"rebind", "rewritten"} => todo = {}
  /\ IF pc = "rebind" THEN at \in Queries ELSE at = 0

LEMMA IdentityFacts ==
  ASSUME q \in Statements, NEW id \in Identities
  PROVE  /\ id \in Seq(Texts) /\ Len(id) \in 2 .. 3
         /\ Group(id) # {} /\ First(id) \in Group(id)
         /\ Default(id) \in Identifiers
<1>1. PICK n \in Unaliased : Keys(n) = id
  BY DEF Identities, Identity
<1>2. n \in DOMAIN q /\ q[n].kind = "table" /\ Len(q[n].name) \in 2 .. 3
  BY MatchFacts DEF Unaliased
<1>3. id \in Seq(Texts) /\ Len(id) \in 2 .. 3
  BY <1>1, <1>2, TableFacts
<1>4. n \in Group(id) /\ Group(id) \in SUBSET Nat
  BY <1>1, StatementFacts DEF Group, Identity, Unaliased, Matches
<1>5. First(id) \in Group(id)
  BY <1>4, MinFacts DEF First
<1>6. Default(id) \in Identifiers
  BY <1>5, MatchFacts DEF Default, Group, Unaliased
<1>. QED
  BY <1>3, <1>4, <1>5, <1>6

LEMMA AliasingInit == ASSUME Init PROVE Aliasing
BY DEF Init, Aliasing, NoMap

LEMMA ReserveKeepsAliasing == ASSUME Aliasing, Reserve PROVE Aliasing'
<1>. DEFINE keeping == {id \in Identities : ~Clashes(id)}
            defaults == {Lower(Default(id).text) : id \in keeping}
            around == UNION {Occupied(n) : n \in Unaliased}
<1>1. /\ q \in Statements /\ q' = q /\ pc' = "disambiguate" /\ at = 0 /\ at' = 0
      /\ assigned' = [id \in keeping |-> Default(id)]
      /\ used' = around \union defaults
      /\ todo' = Identities \ keeping
  <2>1. q \in Statements /\ at = 0 /\ at' = 0 /\ q' = q /\ pc' = "disambiguate"
    BY DEF Reserve, Aliasing
  <2>2. assigned' = [id \in keeping |-> Default(id)] /\ todo' = Identities \ keeping
    BY DEF Reserve
  <2>3. used' = around \union defaults
    BY Zenon DEF Reserve
  <2>. QED
    BY <2>1, <2>2, <2>3
<1>2. /\ Queries' = Queries /\ Unaliased' = Unaliased /\ Identities' = Identities
      /\ \A n : (Occupied(n))' = Occupied(n)
      /\ \A id : (Group(id))' = Group(id)
  BY <1>1, StatementStays
<1>3. \A n \in Unaliased : Occupied(n) \subseteq used'
  BY <1>1
<1>4. IsFiniteSet(used')
  <2>1. PICK names : /\ IsFiniteSet(names)
                     /\ \A n \in Unaliased :
                          Occupied(n) \subseteq names /\ Lower(DefaultAlias(n).text) \in names
    BY <1>1, FiniteNames
  <2>2. \A id \in keeping : First(id) \in Unaliased
    BY <1>1, IdentityFacts DEF Group
  <2>3. defaults \subseteq names
    BY <2>1, <2>2 DEF Default
  <2>4. around \subseteq names
    BY <2>1
  <2>. HIDE DEF defaults, around
  <2>5. used' \in SUBSET names
    BY <1>1, <2>3, <2>4
  <2>. QED
    BY <2>1, <2>5, FS_Subset
<1>5. ASSUME NEW id \in keeping
      PROVE  /\ Default(id) \in Identifiers /\ Lower(Default(id).text) \in used'
             /\ \A n \in Group(id) : Lower(Default(id).text) \notin Occupied(n)
             /\ \A other \in Identities : Lower(Default(other).text) = Lower(Default(id).text) => other = id
  <2>1. Default(id) \in Identifiers
    BY <1>1, IdentityFacts
  <2>2. Lower(Default(id).text) \in defaults
    OBVIOUS
  <2>. HIDE DEF defaults, around
  <2>3. /\ \A n \in Group(id) : Lower(Default(id).text) \notin Occupied(n)
        /\ \A other \in Identities : Lower(Default(other).text) = Lower(Default(id).text) => other = id
    <3>1. ~Clashes(id)
      OBVIOUS
    <3>. QED
      BY <3>1 DEF Clashes
  <2>. QED
    BY <1>1, <2>1, <2>2, <2>3
<1>6. DOMAIN assigned' = keeping /\ \A id \in keeping : assigned'[id] = Default(id)
  BY <1>1
<1>7. \A id \in keeping : Kept(id)'
  BY <1>2, <1>5, <1>6 DEF Kept
<1>8. \A x, y \in keeping : Lower(assigned'[x].text) = Lower(assigned'[y].text) => x = y
  BY <1>5, <1>6
<1>9. keeping \subseteq Identities
  OBVIOUS
<1>. HIDE DEF keeping, defaults
<1>10. DOMAIN assigned' \union todo' = Identities /\ DOMAIN assigned' \intersect todo' = {}
  BY <1>1, <1>6, <1>9
<1>. QED
  BY <1>1, <1>2, <1>3, <1>4, <1>6, <1>7, <1>8, <1>10 DEF Aliasing, Lower

LEMMA DisambiguateKeepsAliasing == ASSUME Aliasing, Disambiguate PROVE Aliasing'
<1>1. PICK id \in todo :
        LET alias == Disambiguated(id, Default(id), used)
        IN  Assign(id, alias) /\ used' = used \union {Lower(alias.text)}
  BY DEF Disambiguate
<1>. DEFINE alias == Disambiguated(id, Default(id), used)
<1>2. /\ q \in Statements /\ q' = q /\ pc = "disambiguate" /\ pc' = "disambiguate" /\ at = 0 /\ at' = 0
      /\ DOMAIN assigned \union todo = Identities /\ DOMAIN assigned \intersect todo = {}
      /\ IsFiniteSet(used)
  BY DEF Disambiguate, Aliasing
<1>3. /\ Queries' = Queries /\ Unaliased' = Unaliased /\ Identities' = Identities
      /\ \A n : (Occupied(n))' = Occupied(n)
      /\ \A i : (Group(i))' = Group(i)
  BY <1>2, StatementStays
<1>4. alias \in Identifiers /\ Lower(alias.text) \notin used
  BY <1>2, IdentityFacts, DisambiguatedFacts
<1>. HIDE DEF alias
<1>5. /\ assigned' = [i \in DOMAIN assigned \union {id} |-> IF i = id THEN alias ELSE assigned[i]]
      /\ todo' = todo \ {id} /\ used' = used \union {Lower(alias.text)}
  BY <1>1 DEF Assign, alias
<1>6. /\ DOMAIN assigned' = DOMAIN assigned \union {id} /\ assigned'[id] = alias
      /\ id \notin DOMAIN assigned /\ \A i \in DOMAIN assigned : assigned'[i] = assigned[i]
  BY <1>2, <1>5
<1>7. /\ \A n \in Unaliased : Occupied(n) \subseteq used
      /\ \A i \in DOMAIN assigned : Kept(i)
      /\ \A i, j \in DOMAIN assigned : Lower(assigned[i].text) = Lower(assigned[j].text) => i = j
  BY <1>2 DEF Aliasing
<1>8. \A i \in DOMAIN assigned' : Kept(i)'
  <2>1. \A n \in Group(id) : Lower(alias.text) \notin Occupied(n)
    BY <1>4, <1>7 DEF Group
  <2>2. Kept(id)'
    BY <1>3, <1>4, <1>5, <1>6, <2>1 DEF Kept
  <2>3. \A i \in DOMAIN assigned : Kept(i)'
    BY <1>3, <1>5, <1>6, <1>7 DEF Kept
  <2>. QED
    BY <1>6, <2>2, <2>3
<1>9. \A i, j \in DOMAIN assigned' : Lower(assigned'[i].text) = Lower(assigned'[j].text) => i = j
  <2>1. \A i \in DOMAIN assigned : Lower(assigned[i].text) # Lower(alias.text)
    BY <1>4, <1>7 DEF Kept
  <2>. QED
    BY <1>6, <1>7, <2>1
<1>10. IsFiniteSet(used')
  BY <1>2, <1>5, FS_Singleton, FS_Union
<1>11. DOMAIN assigned' \union todo' = Identities /\ DOMAIN assigned' \intersect todo' = {}
  BY <1>2, <1>5, <1>6
<1>12. \A n \in Unaliased : Occupied(n) \subseteq used'
  BY <1>5, <1>7
<1>. QED
  BY <1>2, <1>3, <1>8, <1>9, <1>10, <1>11, <1>12 DEF Aliasing, Lower

LEMMA AliasingInductive == Aliasing /\ [Next]_vars => Aliasing'
<1>. SUFFICES ASSUME Aliasing, [Next]_vars PROVE Aliasing'
  OBVIOUS
<1>1. CASE Reserve
  BY <1>1, ReserveKeepsAliasing
<1>2. CASE Disambiguate
  BY <1>2, DisambiguateKeepsAliasing
<1>3. ASSUME UNCHANGED <<q, assigned, todo, used>>
      PROVE  /\ Queries' = Queries /\ Unaliased' = Unaliased /\ Identities' = Identities
             /\ \A n : (Occupied(n))' = Occupied(n)
             /\ \A id : (Kept(id))' = Kept(id)
  BY <1>3, StatementStays DEF Kept, Lower
<1>4. CASE Match
  BY <1>3, <1>4 DEF Match, Aliasing
<1>5. CASE Replace
  <2>1. Root \in Queries
    BY StatementFacts DEF Aliasing
  <2>. QED
    BY <1>3, <1>5, <2>1 DEF Replace, Aliasing, Lower
<1>6. CASE Rebind
  <2>. DEFINE later == {b \in Queries : b > at}
  <2>1. /\ pc = "rebind" /\ UNCHANGED <<q, assigned, todo, used>>
        /\ IF later = {} THEN pc' = "rewritten" /\ at' = 0 ELSE at' = Min(later) /\ pc' = pc
    BY <1>6 DEF Rebind
  <2>2. later # {} => Min(later) \in Queries
    <3>1. later \in SUBSET Nat
      BY StatementFacts DEF Aliasing
    <3>. HIDE DEF later
    <3>2. later # {} => Min(later) \in later
      BY <3>1, MinFacts
    <3>. QED
      BY <3>2 DEF later
  <2>. HIDE DEF later
  <2>. QED
    BY <1>3, <2>1, <2>2 DEF Aliasing, Lower
<1>7. CASE UNCHANGED vars
  BY <1>3, <1>7 DEF vars, Aliasing, Lower
<1>. QED
  BY <1>1, <1>2, <1>4, <1>5, <1>6, <1>7 DEF Next

LEMMA AliasingAlways == Spec => []Aliasing
BY AliasingInit, AliasingInductive, PTL DEF Spec

(* Types; every identity has its alias or waits for one, and no alias is     *)
(* given out twice.                                                          *)
THEOREM RewriteTypeCorrect == Spec => []TypeOK
<1>1. Aliasing => TypeOK
  BY DEF Aliasing, Kept, TypeOK
<1>. QED
  BY <1>1, AliasingAlways, PTL

-----------------------------------------------------------------------------
(* The relations of one FROM.                                                *)

(* By whichever key a relation is addressed, it has that name there.         *)
LEMMA ExposedName ==
  ASSUME q \in Statements, NEW b, NEW m \in Entries(b), NEW text, <<text>> \in Exposes(m)
  PROVE  EntryNames(m) = {Lower(text)}
<1>1. m \in DOMAIN q /\ IsNode(q[m])
  BY EntryFacts
<1>2. CASE q[m].alias # <<>>
  <2>1. text = Key(q[m].alias[1]) /\ q[m].alias[1] \in Identifiers
    <3>1. Len(q[m].alias) \in Nat \ {0} /\ q[m].alias \in Seq(Identifiers)
      BY <1>1, <1>2, EmptySeq DEF IsNode
    <3>. QED
      BY <1>2, <3>1 DEF Exposes
  <2>. QED
    BY <1>2, <2>1, KeyFacts DEF EntryNames
<1>3. CASE q[m].alias = <<>>
  <2>1. q[m].kind = "table" /\ <<text>> \in Suffixes(Keys(m))
    BY <1>3 DEF Exposes
  <2>2. /\ Keys(m) \in Seq(Texts) /\ Len(Keys(m)) \in 1 .. 3
        /\ Lower(Last(Keys(m))) = Lower(BareName(m))
    BY <1>1, <2>1, TableFacts
  <2>3. Keys(m) # <<>>
    BY <2>2, EmptySeq
  <2>4. <<text>> = <<Last(Keys(m))>>
    BY <2>1, <2>2, <2>3, SuffixFacts
  <2>. QED
    BY <1>3, <2>1, <2>2, <2>4 DEF EntryNames
<1>. QED
  BY <1>2, <1>3

(* A match without an alias of its own has the one assigned to its identity. *)
LEMMA OwnAlias ==
  ASSUME Aliasing, pc \in {"rebind", "rewritten"}, NEW n \in Unaliased
  PROVE  /\ Identity(n) \in DOMAIN assigned /\ n \in Group(Identity(n))
         /\ AliasOf(n) = assigned[Identity(n)] /\ AliasOf(n) \in Identifiers
         /\ Lower(AliasOf(n).text) \notin Occupied(n)
         /\ NowExposes(n) = {<<Key(AliasOf(n))>>}
<1>1. Identity(n) \in DOMAIN assigned /\ n \in Group(Identity(n))
  BY DEF Aliasing, Identities, Group
<1>2. AliasOf(n) = assigned[Identity(n)] /\ n \in Matches
  BY DEF AliasOf, Unaliased
<1>3. Kept(Identity(n))
  BY <1>1 DEF Aliasing
<1>. QED
  BY <1>1, <1>2, <1>3 DEF Kept, NowExposes

(* The names next to a match are occupied for it.                            *)
LEMMA NeighbourOccupies ==
  ASSUME q \in Statements, NEW b, NEW n \in Own(b), NEW m \in Entries(b), m # n
  PROVE  EntryNames(m) \subseteq Occupied(n)
<1>1. q[n].up = b /\ m \in Entries(q[n].up) \ {n}
  BY DEF Own, Entries
<1>. QED
  BY <1>1 DEF Occupied

(* A relation that keeps its own names keeps them all.                       *)
LEMMA OthersKeepNames ==
  ASSUME q \in Statements, NEW b, NEW m \in Entries(b), m \notin Unaliased
  PROVE  NowExposes(m) = Exposes(m)
BY EntryFacts DEF NowExposes, Exposes, AliasOf, Unaliased

(* The new alias of a match names none of the relations next to it.          *)
LEMMA AliasApart ==
  ASSUME Aliasing, pc \in {"rebind", "rewritten"}, NEW b, NEW n \in Own(b), NEW m \in Entries(b), m # n,
         m \in Unaliased => Keys(m) # Keys(n)
  PROVE  NowExposes(n) \intersect NowExposes(m) = {}
<1>. DEFINE text == Key(AliasOf(n))
<1>1. q \in Statements /\ n \in Unaliased
  BY DEF Aliasing, Own
<1>2. /\ NowExposes(n) = {<<text>>} /\ AliasOf(n) \in Identifiers
      /\ Lower(text) = Lower(AliasOf(n).text) /\ Lower(text) \notin Occupied(n)
  BY <1>1, OwnAlias, KeyFacts
<1>3. SUFFICES ASSUME <<text>> \in NowExposes(m) PROVE FALSE
  BY <1>2
<1>4. CASE m \in Unaliased
  <2>1. AliasOf(m) \in Identifiers /\ Key(AliasOf(m)) = text
    BY <1>3, <1>4, OwnAlias
  <2>2. Lower(AliasOf(m).text) = Lower(AliasOf(n).text)
    BY <1>2, <2>1, KeysTellApart
  <2>3. Identity(m) = Identity(n)
    BY <1>1, <1>4, <2>2, OwnAlias DEF Aliasing
  <2>. QED
    BY <1>4, <2>3 DEF Identity
<1>5. CASE m \notin Unaliased
  <2>1. <<text>> \in Exposes(m)
    BY <1>1, <1>3, <1>5, OthersKeepNames
  <2>. HIDE DEF text
  <2>2. Lower(text) \in EntryNames(m)
    BY <1>1, <2>1, ExposedName
  <2>. QED
    BY <1>1, <1>2, <2>2, NeighbourOccupies
<1>. QED
  BY <1>4, <1>5

(* No alias of a rewritten FROM names two of its relations, unless the table *)
(* itself is read there twice.                                               *)
THEOREM AliasesAreDistinct == Spec => []AliasesDistinct
<1>1. Aliasing => AliasesDistinct
  BY AliasApart DEF AliasesDistinct, Rewritten
<1>. QED
  BY <1>1, AliasingAlways, PTL

-----------------------------------------------------------------------------
(* The rules and the references of the queries that have been bound.         *)

LEMMA RulesStay ==
  ASSUME q' = q, assigned' = assigned
  PROVE  /\ Queries' = Queries /\ Chains' = Chains
         /\ \A b, context : (QualifiedIn(b, context))' = QualifiedIn(b, context)
         /\ \A b, context, c : (Rebound(b, context, c))' = Rebound(b, context, c)
<1>1. /\ Queries' = Queries /\ Unaliased' = Unaliased
      /\ \A b : (Entries(b))' = Entries(b)
  BY StatementStays DEF Entries
<1>2. \A n : /\ (Keys(n))' = Keys(n) /\ (BareName(n))' = BareName(n) /\ (Target(n))' = Target(n)
             /\ (EntryNames(n))' = EntryNames(n) /\ (Exposes(n))' = Exposes(n)
  <2>1. \A n : (Keys(n))' = Keys(n) /\ (BareName(n))' = BareName(n) /\ (SchemaOf(n))' = SchemaOf(n)
    BY DEF Keys, BareName, SchemaOf
  <2>. QED
    BY <2>1 DEF Target, EntryNames, Exposes
<1>3. \A n : (AliasOf(n))' = AliasOf(n) /\ (Claims(n))' = Claims(n) /\ (n \in Matches)' = (n \in Matches)
  <2>1. \A n : (IsMatch(n))' = IsMatch(n)
    BY DEF IsMatch, SchemaOf, BareName
  <2>. QED
    BY <1>2, <2>1 DEF AliasOf, Claims, Identity, Matches
<1>4. \A b : (Own(b))' = Own(b) /\ (Relations(b))' = Relations(b)
  BY <1>1, <1>2, <1>3 DEF Own, Relations
<1>5. \A b, name : (Bare(b, name))' = Bare(b, name)
  BY <1>2, <1>3, <1>4 DEF Bare
<1>6. \A b, context : (QualifiedIn(b, context))' = QualifiedIn(b, context)
  <2>1. \A id : (Key(id))' = Key(id)
    BY DEF Key, Lower
  <2>2. \A b, c : (Owners(b, c))' = Owners(b, c)
    BY <1>3, <1>4 DEF Owners
  <2>3. \A b, c : (OwnerAlias(b, c))' = OwnerAlias(b, c)
    <3>. SUFFICES ASSUME NEW b, NEW c PROVE (OwnerAlias(b, c))' = OwnerAlias(b, c)
      OBVIOUS
    <3>1. (CHOOSE n \in Owners(b, c) : TRUE)' = CHOOSE n \in Owners(b, c) : TRUE
      BY <2>2
    <3>2. \A n : (Key(AliasOf(n)))' = Key(AliasOf(n))
      BY <1>3 DEF Key, Lower
    <3>. QED
      BY <3>1, <3>2 DEF OwnerAlias
  <2>. SUFFICES ASSUME NEW b, NEW context PROVE (QualifiedIn(b, context))' = QualifiedIn(b, context)
    OBVIOUS
  <2>. QED
    BY <1>3, <1>4, <2>2, <2>3 DEF QualifiedIn
<1>7. \A b, context, c : (Rebound(b, context, c))' = Rebound(b, context, c)
  <2>. SUFFICES ASSUME NEW b, NEW context, NEW c
                PROVE  (Rebound(b, context, c))' = Rebound(b, context, c)
    OBVIOUS
  <2>1. (Bare(b, c[1]))' = Bare(b, c[1])
    BY <1>5
  <2>2. (CHOOSE n \in Bare(b, c[1]) : TRUE)' = CHOOSE n \in Bare(b, c[1]) : TRUE
    BY <2>1
  <2>3. \A n : (Key(AliasOf(n)))' = Key(AliasOf(n))
    BY <1>3 DEF Key, Lower
  <2>4. (b \in Selects)' <=> b \in Selects
    BY <1>1 DEF Selects
  <2>. QED
    BY <2>1, <2>2, <2>3, <2>4 DEF Rebound
<1>8. Chains' = Chains
  BY <1>2 DEF Chains
<1>. QED
  BY <1>1, <1>6, <1>7, <1>8

(* The context around the query b.                                           *)
Inherited(b) == IF b = Root THEN NoMap ELSE qualified[q[b].up]

BoundAsRuled(b) ==
  /\ \A context : context = Inherited(b) => qualified[b] = QualifiedIn(b, context)
  /\ \A context : context = qualified[b] => bound[b] = [c \in Chains |-> Rebound(b, context, c)]

Rebinding ==
  /\ DOMAIN qualified = Queries /\ DOMAIN bound = Queries
  /\ pc = "rebind" => \A b \in Queries : b < at => BoundAsRuled(b)
  /\ pc = "rewritten" => \A b \in Queries : BoundAsRuled(b)

LEMMA RebindingInit == ASSUME Init PROVE Rebinding
BY DEF Init, Rebinding

LEMMA RebindKeepsRebinding == ASSUME Aliasing, Rebinding, Rebind PROVE Rebinding'
<1>1. PICK a \in Queries : a = at
  BY DEF Aliasing, Rebind
<1>. DEFINE context == QualifiedIn(a, Inherited(a))
            later == {b \in Queries : b > a}
<1>2. /\ q \in Statements /\ pc = "rebind"
      /\ DOMAIN qualified = Queries /\ DOMAIN bound = Queries
      /\ \A b \in Queries : b < a => BoundAsRuled(b)
  BY <1>1 DEF Aliasing, Rebinding, Rebind
<1>3. /\ UNCHANGED <<q, assigned>>
      /\ qualified' = [qualified EXCEPT ![a] = context]
      /\ bound' = [bound EXCEPT ![a] = [c \in Chains |-> Rebound(a, context, c)]]
      /\ IF later = {} THEN pc' = "rewritten" /\ at' = 0 ELSE at' = Min(later) /\ pc' = pc
  BY <1>1 DEF Rebind, Inherited
<1>4. /\ Queries' = Queries /\ Chains' = Chains
      /\ \A b, k : (QualifiedIn(b, k))' = QualifiedIn(b, k)
      /\ \A b, k, c : (Rebound(b, k, c))' = Rebound(b, k, c)
  BY <1>3, RulesStay
<1>5. /\ Queries \in SUBSET Nat
      /\ \A b \in Queries : b \in Nat /\ (b # Root => q[b].up \in Queries /\ q[b].up \in Nat /\ q[b].up < b)
  BY <1>2, StatementFacts
<1>6. ASSUME NEW b \in Queries, b <= a
      PROVE  (Inherited(b))' = Inherited(b)
  <2>1. b # Root => q[b].up \in Queries /\ q[b].up # a
    BY <1>5, <1>6
  <2>2. b # Root => qualified'[q[b].up] = qualified[q[b].up]
    BY <1>2, <1>3, <2>1
  <2>. QED
    BY <1>3, <2>2 DEF Inherited, NoMap
<1>7. ASSUME NEW b \in Queries, b < a
      PROVE  BoundAsRuled(b)'
  <2>1. qualified'[b] = qualified[b] /\ bound'[b] = bound[b] /\ b # a /\ b <= a
    BY <1>2, <1>3, <1>5, <1>7
  <2>2. (Inherited(b))' = Inherited(b) /\ BoundAsRuled(b)
    BY <1>2, <1>6, <1>7, <2>1
  <2>. QED
    BY <1>4, <2>1, <2>2 DEF BoundAsRuled
<1>8. BoundAsRuled(a)'
  <2>1. qualified'[a] = context /\ bound'[a] = [c \in Chains |-> Rebound(a, context, c)]
    BY <1>2, <1>3
  <2>2. (Inherited(a))' = Inherited(a)
    BY <1>5, <1>6
  <2>. QED
    BY <1>4, <2>1, <2>2 DEF BoundAsRuled
<1>9. DOMAIN qualified' = Queries /\ DOMAIN bound' = Queries
  BY <1>2, <1>3
<1>10. CASE later = {}
  <2>1. \A b \in Queries : b < a \/ b = a
    BY <1>5, <1>10
  <2>. QED
    BY <1>3, <1>4, <1>7, <1>8, <1>9, <1>10, <2>1 DEF Rebinding
<1>11. CASE later # {}
  <2>1. later \in SUBSET Nat
    BY <1>5
  <2>2. Min(later) \in later /\ \A b \in later : Min(later) <= b
    <3>. HIDE DEF later
    <3>. QED
      BY <1>11, <2>1, MinFacts
  <2>3. ASSUME NEW b \in Queries, b < Min(later)
        PROVE  b < a \/ b = a
    <3>1. b \in Nat /\ a \in Nat /\ Min(later) \in Nat
      BY <1>5, <2>1, <2>2
    <3>2. b > a => b \in later
      OBVIOUS
    <3>. HIDE DEF later
    <3>3. b > a => Min(later) <= b
      BY <2>2, <3>2
    <3>. QED
      BY <2>3, <3>1, <3>3
  <2>4. at' = Min(later) /\ pc' = "rebind"
    BY <1>2, <1>3, <1>11
  <2>. HIDE DEF later
  <2>. QED
    BY <1>4, <1>7, <1>8, <1>9, <2>3, <2>4 DEF Rebinding
<1>. QED
  BY <1>10, <1>11

LEMMA RebindingInductive == Aliasing /\ Rebinding /\ [Next]_vars => Rebinding'
<1>. SUFFICES ASSUME Aliasing, Rebinding, [Next]_vars PROVE Rebinding'
  OBVIOUS
<1>1. CASE Rebind
  BY <1>1, RebindKeepsRebinding
<1>2. ASSUME UNCHANGED <<q, qualified, bound>>
      PROVE  Queries' = Queries /\ DOMAIN qualified' = Queries /\ DOMAIN bound' = Queries
  BY <1>2, StatementStays DEF Rebinding
<1>3. CASE Match
  BY <1>2, <1>3 DEF Match, Rebinding
<1>4. CASE Reserve
  BY <1>2, <1>4 DEF Reserve, Rebinding
<1>5. CASE Disambiguate
  BY <1>2, <1>5 DEF Disambiguate, Rebinding
<1>6. CASE Replace
  <2>1. \A b \in Queries : ~(b < Root)
    BY StatementFacts DEF Aliasing, Root
  <2>. QED
    BY <1>2, <1>6, <2>1 DEF Replace, Rebinding
<1>7. CASE UNCHANGED vars
  <2>1. \A b : BoundAsRuled(b)' = BoundAsRuled(b)
    <3>1. /\ Chains' = Chains
          /\ \A b, k : (QualifiedIn(b, k))' = QualifiedIn(b, k)
          /\ \A b, k, c : (Rebound(b, k, c))' = Rebound(b, k, c)
      BY <1>7, RulesStay DEF vars
    <3>2. \A b : (Inherited(b))' = Inherited(b)
      BY <1>7 DEF vars, Inherited, NoMap
    <3>. QED
      BY <1>7, <3>1, <3>2 DEF vars, BoundAsRuled
  <2>. QED
    BY <1>2, <1>7, <2>1 DEF vars, Rebinding
<1>. QED
  BY <1>1, <1>3, <1>4, <1>5, <1>6, <1>7 DEF Next

LEMMA RebindingAlways == Spec => []Rebinding
<1>1. Init => Rebinding
  BY RebindingInit
<1>2. Aliasing /\ Rebinding /\ [Next]_vars => Rebinding'
  BY RebindingInductive
<1>. QED
  BY <1>1, <1>2, AliasingAlways, PTL DEF Spec

(* What Rebinding says of a rewritten statement.                             *)
LEMMA RewrittenBound ==
  ASSUME Rebinding, Rewritten, NEW b \in Queries
  PROVE  /\ qualified[b] = QualifiedIn(b, Inherited(b))
         /\ \A c \in Chains : bound[b][c] = Rebound(b, qualified[b], c)
BY DEF Rebinding, Rewritten, BoundAsRuled


-----------------------------------------------------------------------------
(* What a qualifier denotes.                                                 *)

(* The relations of the FROM of b that answer to the qualifier c.            *)
Answering(b, c) == {n \in Entries(b) : c \in Exposes(n)}

NowAnswering(b, c) == {n \in Entries(b) : c \in NowExposes(n)}

LEMMA Resolution ==
  ASSUME q \in Statements, NEW b \in Queries, NEW c
  PROVE  /\ Denoted([n \in Nodes |-> Exposes(n)], c)[b]
              = IF Answering(b, c) # {} \/ Outward[b] = 0
                  THEN Answering(b, c) ELSE Denoted([n \in Nodes |-> Exposes(n)], c)[Outward[b]]
         /\ Denoted([n \in Nodes |-> NowExposes(n)], c)[b]
              = IF NowAnswering(b, c) # {} \/ Outward[b] = 0
                  THEN NowAnswering(b, c) ELSE Denoted([n \in Nodes |-> NowExposes(n)], c)[Outward[b]]
<1>. DEFINE before == [n \in Nodes |-> Exposes(n)]
            now == [n \in Nodes |-> NowExposes(n)]
<1>1. Entries(b) \subseteq Nodes
  BY EntryFacts
<1>2. Here(before, c, b) = Answering(b, c) /\ Here(now, c, b) = NowAnswering(b, c)
  BY <1>1 DEF Here, Answering, NowAnswering
<1>. HIDE DEF before, now
<1>3. \A exposed :
        Denoted(exposed, c)[b] = IF Here(exposed, c, b) # {} \/ Outward[b] = 0
                                   THEN Here(exposed, c, b) ELSE Denoted(exposed, c)[Outward[b]]
  BY DenotedFacts
<1>4. /\ Denoted(before, c)[b] = IF Answering(b, c) # {} \/ Outward[b] = 0
                                   THEN Answering(b, c) ELSE Denoted(before, c)[Outward[b]]
      /\ Denoted(now, c)[b] = IF NowAnswering(b, c) # {} \/ Outward[b] = 0
                                THEN NowAnswering(b, c) ELSE Denoted(now, c)[Outward[b]]
  BY <1>2, <1>3
<1>. QED
  BY <1>4 DEF before, now

(* A qualifier denotes what answers to it in one of the queries seen, when   *)
(* nothing in between does.                                                  *)
LEMMA FoundOutwards ==
  ASSUME q \in Statements, NEW c
  PROVE  \A b \in Queries : \E e \in Seen[b] :
           /\ e \in Queries
           /\ Before(b, c) = Answering(e, c)
           /\ \A i \in Seen[b] \ Seen[e] : Answering(i, c) = {}
<1>. DEFINE Found == {b \in Queries : \E e \in Seen[b] :
                        /\ e \in Queries
                        /\ Before(b, c) = Answering(e, c)
                        /\ \A i \in Seen[b] \ Seen[e] : Answering(i, c) = {}}
<1>1. ASSUME NEW b \in Queries, \A m \in Queries : m < b => m \in Found
      PROVE  b \in Found
  <2>. DEFINE out == Outward[b]
  <2>1. Before(b, c) = IF Answering(b, c) # {} \/ out = 0 THEN Answering(b, c) ELSE Before(out, c)
    BY Resolution DEF Before
  <2>2. Seen[b] = {b} \union IF out = 0 THEN {} ELSE Seen[out]
    BY SeenFacts
  <2>3. CASE Answering(b, c) # {} \/ out = 0
    BY <2>1, <2>2, <2>3
  <2>4. CASE Answering(b, c) = {} /\ out # 0
    <3>1. out \in Found
      BY <1>1, <2>4, OutwardFacts
    <3>. HIDE DEF out
    <3>2. PICK e \in Seen[out] : /\ e \in Queries
                                 /\ Before(out, c) = Answering(e, c)
                                 /\ \A i \in Seen[out] \ Seen[e] : Answering(i, c) = {}
      BY <3>1
    <3>3. e \in Seen[b] /\ Before(b, c) = Answering(e, c)
      BY <2>1, <2>2, <2>4, <3>2
    <3>4. \A i \in Seen[b] \ Seen[e] : Answering(i, c) = {}
      BY <2>2, <2>4, <3>2
    <3>. QED
      BY <3>2, <3>3, <3>4
  <2>. QED
    BY <2>3, <2>4
<1>2. Queries \in SUBSET Nat
  BY StatementFacts
<1>. HIDE DEF Found
<1>3. Queries \subseteq Found
  BY <1>1, <1>2, SmallerFirst
<1>. QED
  BY <1>3 DEF Found

(* A reference denotes one relation, which alone answers to it in its FROM.  *)
LEMMA ReferenceFacts ==
  ASSUME q \in Statements, NEW b, NEW c, <<b, c>> \in References
  PROVE  LET d == Denotee(b, c)
         IN  /\ b \in Selects /\ b \in Queries /\ c \in Chains
             /\ d \in Nodes /\ d \in Entries(q[d].up) /\ q[d].up \in Queries /\ q[d].up \in Seen[b]
             /\ Before(b, c) = {d} /\ Answering(q[d].up, c) = {d}
             /\ \A i \in Inside(b, c) : Answering(i, c) = {}
<1>1. b \in Selects /\ b \in Queries /\ c \in Chains /\ Cardinality(Before(b, c)) = 1
  BY DEF References, Selects
<1>2. PICK e \in Seen[b] : /\ e \in Queries
                           /\ Before(b, c) = Answering(e, c)
                           /\ \A i \in Seen[b] \ Seen[e] : Answering(i, c) = {}
  BY <1>1, FoundOutwards
<1>3. PICK d : Answering(e, c) = {d}
  <2>1. Answering(e, c) \subseteq Entries(e)
    BY DEF Answering
  <2>. QED
    BY <1>1, <1>2, <2>1, FiniteEntries
<1>4. Denotee(b, c) = d
  BY <1>2, <1>3 DEF Denotee
<1>5. d \in Entries(e) /\ d \in Nodes /\ q[d].up = e
  <2>1. d \in Entries(e)
    BY <1>3 DEF Answering
  <2>. QED
    BY <2>1, EntryFacts
<1>. QED
  BY <1>1, <1>2, <1>3, <1>4, <1>5 DEF Inside

LEMMA KeysNonEmpty ==
  ASSUME q \in Statements, NEW n \in DOMAIN q, q[n].kind = "table"
  PROVE  Keys(n) \in Seq(Texts) /\ Keys(n) # <<>>
<1>1. Keys(n) \in Seq(Texts) /\ Len(Keys(n)) \in 1 .. 3
  BY TableFacts
<1>2. Len(Keys(n)) # 0
  <2>1. \A k \in 1 .. 3 : k # 0
    OBVIOUS
  <2>. QED
    BY <1>1, <2>1, Zenon
<1>3. Keys(n) # <<>>
  BY <1>2, EmptySeq, Zenon
<1>. QED
  BY <1>1, <1>3

LEMMA ExposedFacts ==
  ASSUME q \in Statements, NEW b, NEW m \in Entries(b), NEW c \in Exposes(m)
  PROVE  /\ Len(c) \in Nat \ {0}
         /\ Len(c) = 1 => c = <<c[1]>>
         /\ Len(c) > 1 => q[m].kind = "table" /\ q[m].alias = <<>> /\ c \in Claims(m)
<1>1. m \in DOMAIN q
  BY EntryFacts
<1>2. CASE q[m].alias # <<>>
  <2>1. c = <<Key(q[m].alias[1])>>
    BY <1>2 DEF Exposes
  <2>2. \A x : Len(<<x>>) = 1 /\ <<x>>[1] = x
    OBVIOUS
  <2>3. Len(c) = 1 /\ c = <<c[1]>>
    BY <2>1, <2>2
  <2>. QED
    BY <2>3
<1>3. CASE q[m].alias = <<>>
  <2>1. q[m].kind = "table" /\ c \in Suffixes(Keys(m)) /\ c # <<>>
    BY <1>3 DEF Exposes
  <2>2. Keys(m) \in Seq(Texts) /\ Keys(m) # <<>>
    BY <1>1, <2>1, KeysNonEmpty
  <2>3. Len(c) \in Nat \ {0} /\ (Len(c) = 1 => c = <<Last(Keys(m))>>)
    BY <2>1, <2>2, SuffixFacts
  <2>4. \A x : <<x>>[1] = x
    OBVIOUS
  <2>5. Len(c) = 1 => c = <<c[1]>>
    BY <2>3, <2>4
  <2>. QED
    BY <1>3, <2>1, <2>3, <2>5 DEF Claims
<1>. QED
  BY <1>2, <1>3

(* What a match claims it answers to as it is written.                       *)
LEMMA ClaimsExposed ==
  ASSUME q \in Statements, NEW n \in Unaliased, NEW c \in Claims(n)
  PROVE  c \in Exposes(n) /\ Last(c) = Last(Keys(n)) /\ Len(c) > 1
<1>1. n \in DOMAIN q /\ q[n].kind = "table" /\ q[n].alias = <<>>
  BY DEF Unaliased, Matches, IsMatch
<1>2. Keys(n) \in Seq(Texts) /\ Keys(n) # <<>>
  BY <1>1, KeysNonEmpty
<1>3. c \in Suffixes(Keys(n)) /\ Len(c) > 1
  BY DEF Claims
<1>4. c # <<>>
  <2>1. ~(Len(<<>>) > 1)
    BY EmptySeq
  <2>. QED
    BY <1>3, <2>1, Zenon
<1>. QED
  BY <1>1, <1>2, <1>3, <1>4, SuffixFacts DEF Exposes

-----------------------------------------------------------------------------
(* What answers to a qualifier once the matches are replaced.                *)

(* The new alias of a match that alone answered to a qualifier is its own.   *)
LEMMA AliasFound ==
  ASSUME Aliasing, pc \in {"rebind", "rewritten"}, NEW e, NEW c, NEW d \in Unaliased,
         Answering(e, c) = {d}
  PROVE  NowAnswering(e, <<Key(AliasOf(d))>>) = {d}
<1>1. q \in Statements /\ d \in Own(e) /\ d \in Entries(e) /\ c \in Exposes(d)
  BY DEF Aliasing, Answering, Own
<1>2. NowExposes(d) = {<<Key(AliasOf(d))>>}
  BY OwnAlias
<1>3. ASSUME NEW m \in Entries(e), m # d
      PROVE  <<Key(AliasOf(d))>> \notin NowExposes(m)
  <2>1. m \in Unaliased => Keys(m) # Keys(d)
    <3>1. SUFFICES ASSUME m \in Unaliased, Keys(m) = Keys(d) PROVE FALSE
      OBVIOUS
    <3>2. q[m].alias = <<>> /\ q[m].kind = "table" /\ q[d].alias = <<>> /\ q[d].kind = "table"
      BY <3>1 DEF Unaliased, Matches, IsMatch
    <3>3. c \in Exposes(m)
      BY <1>1, <3>1, <3>2 DEF Exposes
    <3>. QED
      BY <1>3, <3>3 DEF Answering
  <2>2. NowExposes(d) \intersect NowExposes(m) = {}
    BY <1>1, <1>3, <2>1, AliasApart
  <2>. QED
    BY <1>2, <2>2
<1>. QED
  BY <1>1, <1>2, <1>3 DEF NowAnswering

(* A relation that still answers to the qualifier it alone answered to does  *)
(* so alone.                                                                 *)
LEMMA NameKept ==
  ASSUME Aliasing, pc \in {"rebind", "rewritten"}, NEW e, NEW c, NEW d,
         Answering(e, c) = {d}, c \in NowExposes(d)
  PROVE  NowAnswering(e, c) = {d}
<1>1. q \in Statements /\ d \in Entries(e) /\ c \in Exposes(d)
  BY DEF Aliasing, Answering
<1>2. ASSUME NEW m \in Entries(e), m # d, c \in NowExposes(m)
      PROVE  FALSE
  <2>1. CASE m \notin Unaliased
    <3>1. c \in Exposes(m)
      BY <1>1, <1>2, <2>1, OthersKeepNames
    <3>. QED
      BY <1>2, <3>1 DEF Answering
  <2>2. CASE m \in Unaliased
    <3>. DEFINE text == Key(AliasOf(m))
    <3>1. c = <<text>> /\ Lower(text) \notin Occupied(m)
      BY <1>2, <2>2, OwnAlias, KeyFacts
    <3>. HIDE DEF text
    <3>2. EntryNames(d) = {Lower(text)}
      BY <1>1, <3>1, ExposedName
    <3>3. EntryNames(d) \subseteq Occupied(m)
      BY <1>1, <1>2, <2>2, NeighbourOccupies DEF Own
    <3>. QED
      BY <3>1, <3>2, <3>3
  <2>. QED
    BY <2>1, <2>2
<1>. QED
  BY <1>1, <1>2 DEF NowAnswering

(* The key of a table that an unrenamed match keeps.                         *)
LEMMA UnrenamedKeeps ==
  ASSUME Aliasing, pc \in {"rebind", "rewritten"}, NEW e, NEW d \in Entries(e), NEW c \in Exposes(d),
         Len(c) = 1, ~IsRenamed(d)
  PROVE  c \in NowExposes(d)
<1>1. q \in Statements
  BY DEF Aliasing
<1>2. CASE d \notin Unaliased
  BY <1>1, <1>2, OthersKeepNames
<1>3. CASE d \in Unaliased
  <2>1. d \in DOMAIN q /\ q[d].kind = "table" /\ q[d].alias = <<>>
    BY <1>3 DEF Unaliased, Matches, IsMatch
  <2>2. c \in Suffixes(Keys(d))
    BY <2>1 DEF Exposes
  <2>3. c = <<Last(Keys(d))>>
    BY <1>1, <2>1, <2>2, KeysNonEmpty, SuffixFacts
  <2>4. Key(AliasOf(d)) = Last(Keys(d))
    BY <1>3 DEF IsRenamed
  <2>. QED
    BY <1>3, <2>3, <2>4, OwnAlias
<1>. QED
  BY <1>2, <1>3

-----------------------------------------------------------------------------
(* Bare references.                                                          *)

(* The name a match is written with.                                         *)
LEMMA WrittenName ==
  ASSUME q \in Statements, NEW n \in Unaliased
  PROVE  EntryNames(n) = {Lower(BareName(n))} /\ BareName(n) \in Texts
<1>1. n \in DOMAIN q /\ q[n].kind = "table" /\ q[n].alias = <<>>
  BY DEF Unaliased, Matches, IsMatch
<1>. QED
  BY <1>1, TableFacts DEF EntryNames

(* What a relation that is not renamed is called there is among the names of *)
(* the rewritten FROM.                                                       *)
LEMMA RelationNames ==
  ASSUME q \in Statements, NEW b, NEW m \in Entries(b), m \notin Unaliased
  PROVE  EntryNames(m) \subseteq Relations(b)
<1>1. CASE m \in Matches
  <2>1. q[m].alias # <<>>
    BY <1>1 DEF Unaliased
  <2>2. EntryNames(m) = {Lower(AliasOf(m).text)}
    BY <2>1 DEF EntryNames, AliasOf
  <2>. QED
    BY <1>1, <2>2 DEF Relations
<1>2. CASE m \notin Matches
  BY <1>2 DEF Relations
<1>. QED
  BY <1>1, <1>2

(* A bare reference that is rebound is to a match of this FROM, to the very  *)
(* one it denoted if that was here.                                          *)
LEMMA BareFound ==
  ASSUME Aliasing, pc \in {"rebind", "rewritten"}, NEW b, NEW d, NEW text,
         Answering(b, <<text>>) = {d}, NEW w \in Bare(b, text)
  PROVE  w = d /\ d \in Unaliased
<1>1. q \in Statements /\ d \in Entries(b) /\ <<text>> \in Exposes(d)
  BY DEF Aliasing, Answering
<1>2. /\ w \in Own(b) /\ Lower(BareName(w)) = text /\ text \notin Relations(b)
      /\ \A m \in Own(b) \ {w} : Lower(BareName(m)) # text
  BY DEF Bare
<1>3. Lower(text) = text
  BY <1>1, <1>2, WrittenName, LowerFacts DEF Own
<1>4. EntryNames(d) = {text}
  BY <1>1, <1>3, ExposedName
<1>5. d \in Unaliased
  BY <1>1, <1>2, <1>4, RelationNames
<1>6. d \in Own(b) /\ Lower(BareName(d)) = text
  BY <1>1, <1>4, <1>5, WrittenName DEF Own
<1>. QED
  BY <1>2, <1>5, <1>6

(* A renamed match is rebound unless letter case or another name in the FROM *)
(* stands in the way.                                                        *)
LEMMA BareRebound ==
  ASSUME Aliasing, pc \in {"rebind", "rewritten"}, NEW b, NEW d \in Unaliased, NEW text,
         Answering(b, <<text>>) = {d}, Lower(text) = text,
         Lower(AliasOf(d).text) # text,
         \A m \in Entries(b) \ {d} : text \notin EntryNames(m)
  PROVE  d \in Bare(b, text)
<1>1. q \in Statements /\ d \in Entries(b) /\ <<text>> \in Exposes(d) /\ d \in Own(b)
  BY DEF Aliasing, Answering, Own
<1>2. EntryNames(d) = {text}
  BY <1>1, ExposedName
<1>3. Lower(BareName(d)) = text
  BY <1>1, <1>2, WrittenName
<1>4. \A m \in Own(b) \ {d} : Lower(BareName(m)) # text
  <2>1. \A m \in Own(b) \ {d} : m \in Unaliased /\ m \in Entries(b) \ {d}
    BY DEF Own
  <2>. QED
    BY <1>1, <2>1, WrittenName
<1>5. ASSUME text \in Relations(b)
      PROVE  FALSE
  <2>1. PICK n \in Entries(b) :
          text \in IF n \in Matches THEN {Lower(AliasOf(n).text)} ELSE EntryNames(n)
    BY <1>5 DEF Relations
  <2>2. CASE n = d
    BY <2>1, <2>2 DEF Unaliased
  <2>3. CASE n # d /\ n \in Unaliased
    <3>1. text = Lower(AliasOf(n).text)
      BY <2>1, <2>3 DEF Unaliased
    <3>2. EntryNames(d) \subseteq Occupied(n)
      BY <1>1, <2>3, NeighbourOccupies DEF Own
    <3>. QED
      BY <1>2, <2>3, <3>1, <3>2, OwnAlias
  <2>4. CASE n # d /\ n \in Matches /\ n \notin Unaliased
    <3>1. q[n].alias # <<>>
      BY <2>4 DEF Unaliased
    <3>2. text \in EntryNames(n)
      BY <2>1, <2>4, <3>1 DEF AliasOf, EntryNames
    <3>. QED
      BY <2>4, <3>2
  <2>5. CASE n # d /\ n \notin Matches
    BY <2>1, <2>5
  <2>. QED
    BY <2>2, <2>3, <2>4, <2>5
<1>. QED
  BY <1>1, <1>3, <1>4, <1>5 DEF Bare

LEMMA LocalBareReference ==
  ASSUME Aliasing, Rebinding, Rewritten, NEW b \in Queries, NEW c \in Chains, Len(c) = 1,
         Answering(b, c) = {Denotee(b, c)}
  PROVE  NowAnswering(b, bound[b][c]) = {Denotee(b, c)} \/ LeftBehind(b, c)
<1>. DEFINE d == Denotee(b, c)
            text == c[1]
<1>1. q \in Statements /\ d \in Entries(b) /\ c \in Exposes(d) /\ pc \in {"rebind", "rewritten"}
  BY DEF Aliasing, Answering, Rewritten
<1>2. c = <<text>>
  BY <1>1, ExposedFacts
<1>3. bound[b][c] = IF Bare(b, text) = {} THEN c
                                          ELSE <<Key(AliasOf(CHOOSE n \in Bare(b, text) : TRUE))>>
  BY RewrittenBound DEF Rebound
<1>. HIDE DEF text
<1>4. CASE Bare(b, text) # {}
  <2>1. PICK w : w = CHOOSE n \in Bare(b, text) : TRUE
    OBVIOUS
  <2>2. w \in Bare(b, text)
    BY <1>4, <2>1
  <2>3. Answering(b, <<text>>) = {d}
    BY <1>2
  <2>. HIDE DEF d
  <2>4. w = d /\ d \in Unaliased
    BY <1>1, <2>2, <2>3, BareFound
  <2>5. bound[b][c] = <<Key(AliasOf(d))>>
    BY <1>3, <1>4, <2>1, <2>4
  <2>6. NowAnswering(b, bound[b][c]) = {d}
    BY <1>1, <1>2, <2>3, <2>4, <2>5, AliasFound
  <2>. QED
    BY <2>6 DEF d
<1>5. CASE Bare(b, text) = {} /\ c \in NowExposes(d)
  <2>1. bound[b][c] = c
    BY <1>3, <1>5
  <2>2. Answering(b, c) = {d}
    OBVIOUS
  <2>. HIDE DEF d
  <2>3. NowAnswering(b, c) = {d}
    BY <1>1, <1>5, <2>2, NameKept
  <2>. QED
    BY <2>1, <2>3 DEF d
<1>6. CASE Bare(b, text) = {} /\ c \notin NowExposes(d)
  <2>1. bound[b][c] = c
    BY <1>3, <1>6
  <2>2. IsRenamed(d)
    <3>. HIDE DEF d
    <3>. QED
      BY <1>1, <1>6, UnrenamedKeeps
  <2>3. d \in Unaliased
    BY <2>2 DEF IsRenamed
  <2>4. ASSUME c = <<Lower(text)>>, Lower(AliasOf(d).text) # text,
               \A m \in Entries(b) \ {d} : Lower(text) \notin EntryNames(m)
        PROVE  FALSE
    <3>1. Lower(text) = text
      <4>1. \A x, y : <<x>> = <<y>> => x = y
        OBVIOUS
      <4>. QED
        BY <1>2, <2>4, <4>1
    <3>2. Answering(b, <<text>>) = {d}
      BY <1>2
    <3>. HIDE DEF d
    <3>3. d \in Bare(b, text)
      BY <1>1, <2>3, <2>4, <3>1, <3>2, BareRebound
    <3>. QED
      BY <1>6, <3>3
  <2>. QED
    BY <2>1, <2>2, <2>4 DEF LeftBehind, text
<1>. QED
  BY <1>4, <1>5, <1>6

-----------------------------------------------------------------------------
(* Qualified references.                                                     *)

(* The rule of a query for a qualifier: that of the one table there that     *)
(* claims it, the inherited one if none does.                                *)
LEMMA RuleFacts ==
  ASSUME Aliasing, Rebinding, Rewritten, NEW b \in Queries, NEW c
  PROVE  /\ \A d : Owners(b, c) = {d} =>
              c \in DOMAIN qualified[b] /\ qualified[b][c] = Key(AliasOf(d))
         /\ Owners(b, c) = {} =>
              /\ c \in DOMAIN qualified[b] <=> c \in DOMAIN Inherited(b)
              /\ c \in DOMAIN qualified[b] => qualified[b][c] = Inherited(b)[c]
         /\ c \in DOMAIN qualified[b] => Owners(b, c) = {} \/ \E d : Owners(b, c) = {d}
<1>. DEFINE keys == {k \in DOMAIN Inherited(b) \union UNION {Claims(n) : n \in Own(b)} :
                       Cardinality(Owners(b, k)) < 2}
<1>1. qualified[b] = [k \in keys |-> IF Owners(b, k) = {} THEN Inherited(b)[k] ELSE OwnerAlias(b, k)]
  BY RewrittenBound DEF QualifiedIn
<1>2. /\ IsFiniteSet(Owners(b, c))
      /\ Cardinality(Owners(b, c)) = 1 <=> \E d : Owners(b, c) = {d}
      /\ Cardinality(Owners(b, c)) = 0 <=> Owners(b, c) = {}
      /\ Cardinality(Owners(b, c)) \in Nat
  <2>1. Owners(b, c) \subseteq Entries(b) /\ q \in Statements
    BY DEF Owners, Own, Aliasing
  <2>2. IsFiniteSet(Owners(b, c)) /\ (Cardinality(Owners(b, c)) = 1 <=> \E d : Owners(b, c) = {d})
    BY <2>1, FiniteEntries
  <2>. QED
    BY <2>2, FS_EmptySet, FS_CardinalityType
<1>3. c \in UNION {Claims(n) : n \in Own(b)} <=> Owners(b, c) # {}
  BY DEF Owners
<1>4. ASSUME NEW d, Owners(b, c) = {d}
      PROVE  c \in DOMAIN qualified[b] /\ qualified[b][c] = Key(AliasOf(d))
  <2>1. Cardinality(Owners(b, c)) = 1
    BY <1>2, <1>4
  <2>2. c \in keys
    BY <1>3, <1>4, <2>1
  <2>3. OwnerAlias(b, c) = Key(AliasOf(d))
    BY <1>4 DEF OwnerAlias
  <2>. HIDE DEF keys
  <2>. QED
    BY <1>1, <1>4, <2>2, <2>3
<1>5. ASSUME Owners(b, c) = {}
      PROVE  c \in keys <=> c \in DOMAIN Inherited(b)
  <2>1. Cardinality(Owners(b, c)) < 2
    BY <1>2, <1>5
  <2>. QED
    BY <1>3, <1>5, <2>1
<1>6. c \in keys => Owners(b, c) = {} \/ \E d : Owners(b, c) = {d}
  <2>1. c \in keys => Cardinality(Owners(b, c)) < 2
    OBVIOUS
  <2>2. Cardinality(Owners(b, c)) < 2 => Cardinality(Owners(b, c)) = 0 \/ Cardinality(Owners(b, c)) = 1
    BY <1>2
  <2>. QED
    BY <1>2, <2>1, <2>2
<1>. HIDE DEF keys
<1>. QED
  BY <1>1, <1>4, <1>5, <1>6

(* A match that alone answers to a qualifier is the one that claims it.      *)
LEMMA OwnersFound ==
  ASSUME q \in Statements, NEW b, NEW c, Len(c) > 1, NEW d, Answering(b, c) = {d}
  PROVE  Owners(b, c) = IF d \in Unaliased THEN {d} ELSE {}
<1>1. d \in Entries(b) /\ c \in Exposes(d)
  BY DEF Answering
<1>2. c \in Claims(d)
  BY <1>1, ExposedFacts
<1>3. ASSUME NEW n \in Owners(b, c)
      PROVE  n = d
  <2>1. n \in Entries(b) /\ n \in Unaliased /\ c \in Claims(n)
    BY DEF Owners, Own
  <2>2. c \in Exposes(n)
    BY <2>1, ClaimsExposed
  <2>. QED
    BY <2>1, <2>2 DEF Answering
<1>4. d \in Unaliased => d \in Owners(b, c)
  BY <1>1, <1>2 DEF Owners, Own
<1>5. Owners(b, c) \subseteq Unaliased
  BY DEF Owners, Own
<1>. QED
  BY <1>3, <1>4, <1>5

LEMMA LocalQualifiedReference ==
  ASSUME Aliasing, Rebinding, Rewritten, NEW b \in Selects, NEW c \in Chains, Len(c) > 1,
         Answering(b, c) = {Denotee(b, c)}
  PROVE  NowAnswering(b, bound[b][c]) = {Denotee(b, c)} \/ TakenForOuter(b, c)
<1>. DEFINE d == Denotee(b, c)
<1>1. b \in Queries /\ q \in Statements /\ d \in Entries(b) /\ c \in Exposes(d) /\ pc \in {"rebind", "rewritten"}
  BY DEF Aliasing, Answering, Rewritten, Selects
<1>2. bound[b][c] = IF c \in DOMAIN qualified[b] THEN <<qualified[b][c]>> ELSE c
  <2>1. Len(c) # 1
    <3>1. \A k \in Nat : k > 1 => k # 1
      OBVIOUS
    <3>2. Len(c) \in Nat
      BY <1>1, ExposedFacts
    <3>. QED
      BY <3>1, <3>2, Zenon
  <2>. QED
    BY <1>1, <2>1, RewrittenBound DEF Rebound
<1>3. Answering(b, c) = {d}
  OBVIOUS
<1>4. CASE d \in Unaliased
  <2>. HIDE DEF d
  <2>1. Owners(b, c) = {d}
    BY <1>1, <1>3, <1>4, OwnersFound
  <2>2. bound[b][c] = <<Key(AliasOf(d))>>
    BY <1>1, <1>2, <2>1, RuleFacts
  <2>3. NowAnswering(b, bound[b][c]) = {d}
    BY <1>1, <1>3, <1>4, <2>2, AliasFound
  <2>. QED
    BY <2>3 DEF d
<1>5. CASE d \notin Unaliased /\ c \in DOMAIN qualified[b]
  BY <1>5 DEF TakenForOuter
<1>6. CASE d \notin Unaliased /\ c \notin DOMAIN qualified[b]
  <2>. HIDE DEF d
  <2>1. c \in NowExposes(d) /\ bound[b][c] = c
    BY <1>1, <1>2, <1>6, OthersKeepNames
  <2>2. NowAnswering(b, c) = {d}
    BY <1>1, <1>3, <2>1, NameKept
  <2>. QED
    BY <2>1, <2>2 DEF d
<1>. QED
  BY <1>4, <1>5, <1>6

(* A rule is the new alias of a match of the query or of one around it.      *)
LEMMA RulesCome ==
  ASSUME Aliasing, Rebinding, Rewritten
  PROVE  \A b \in Queries : \A c \in DOMAIN qualified[b] : \E m \in Unaliased :
           q[m].up \in Within[b] /\ c \in Claims(m) /\ qualified[b][c] = Key(AliasOf(m))
<1>. DEFINE Come == {b \in Queries : \A c \in DOMAIN qualified[b] : \E m \in Unaliased :
                       q[m].up \in Within[b] /\ c \in Claims(m) /\ qualified[b][c] = Key(AliasOf(m))}
<1>1. q \in Statements
  BY DEF Aliasing
<1>2. ASSUME NEW b \in Queries, \A k \in Queries : k < b => k \in Come
      PROVE  b \in Come
  <2>. SUFFICES ASSUME NEW c \in DOMAIN qualified[b]
                PROVE  \E m \in Unaliased : /\ q[m].up \in Within[b] /\ c \in Claims(m)
                                            /\ qualified[b][c] = Key(AliasOf(m))
    OBVIOUS
  <2>1. Within[b] = {b} \union IF b = Root THEN {} ELSE Within[q[b].up]
    BY <1>1, WithinFacts
  <2>2. CASE Owners(b, c) = {}
    <3>1. c \in DOMAIN Inherited(b) /\ qualified[b][c] = Inherited(b)[c]
      BY <2>2, RuleFacts
    <3>2. b # Root
      <4>1. DOMAIN NoMap = {}
        BY DEF NoMap
      <4>. QED
        BY <3>1, <4>1 DEF Inherited
    <3>3. q[b].up \in Come
      BY <1>1, <1>2, <3>2, StatementFacts
    <3>4. Inherited(b) = qualified[q[b].up]
      BY <3>2 DEF Inherited
    <3>. QED
      BY <2>1, <3>1, <3>2, <3>3, <3>4
  <2>3. CASE \E d : Owners(b, c) = {d}
    <3>1. PICK d : Owners(b, c) = {d}
      BY <2>3
    <3>2. d \in Unaliased /\ q[d].up = b /\ c \in Claims(d)
      BY <3>1 DEF Owners, Own, Entries
    <3>3. qualified[b][c] = Key(AliasOf(d))
      BY <3>1, RuleFacts
    <3>. QED
      BY <2>1, <3>2, <3>3
  <2>. QED
    BY <2>2, <2>3, RuleFacts
<1>3. Queries \in SUBSET Nat
  BY <1>1, StatementFacts
<1>. HIDE DEF Come
<1>4. Queries \subseteq Come
  BY <1>2, <1>3, SmallerFirst
<1>. QED
  BY <1>4 DEF Come

LEMMA PredicateReference ==
  ASSUME Aliasing, Rebinding, Rewritten, NEW n \in Matches, NEW c \in Suffixes(Keys(n)) \ {<<>>}
  PROVE  PredicateBound(n, c) \in Suffixes(Keys(n)) \/ RenamedInPredicate(n, c)
<1>1. q \in Statements /\ n \in DOMAIN q /\ q[n].kind = "table"
  BY DEF Aliasing, Matches, IsMatch
<1>2. /\ Last(c) = Last(Keys(n)) /\ <<Last(Keys(n))>> \in Suffixes(Keys(n))
  BY <1>1, KeysNonEmpty, SuffixFacts
<1>. DEFINE b == q[n].up
<1>3. b \in Queries
  <2>1. n # Root
    BY <1>1, StatementFacts DEF Queries
  <2>. QED
    BY <1>1, <2>1, StatementFacts
<1>4. CASE ~(Len(c) > 1 /\ c \in DOMAIN qualified[b])
  BY <1>4 DEF PredicateBound
<1>5. CASE Len(c) > 1 /\ c \in DOMAIN qualified[b]
  <2>1. PICK m \in Unaliased : /\ q[m].up \in Within[b] /\ c \in Claims(m)
                               /\ qualified[b][c] = Key(AliasOf(m))
    BY <1>3, <1>5, RulesCome
  <2>2. Last(c) = Last(Keys(m))
    BY <1>1, <2>1, ClaimsExposed
  <2>3. PredicateBound(n, c) = <<Key(AliasOf(m))>>
    BY <1>5, <2>1 DEF PredicateBound
  <2>4. CASE IsRenamed(m)
    BY <2>1, <2>4 DEF RenamedInPredicate
  <2>5. CASE ~IsRenamed(m)
    <3>1. Key(AliasOf(m)) = Last(Keys(n))
      BY <1>2, <2>1, <2>2, <2>5 DEF IsRenamed
    <3>. QED
      BY <1>2, <2>3, <3>1
  <2>. QED
    BY <2>4, <2>5
<1>. QED
  BY <1>4, <1>5

-----------------------------------------------------------------------------
(* References to the relations of the FROM they stand with.                  *)

(* A reference to a relation of its own FROM denotes it still, but for the   *)
(* bare references that are left behind and the tables taken for another     *)
(* catalog's; a row filter's predicate still names the table it filters, but *)
(* where a renaming around it reaches in.                                    *)
THEOREM LocalReferencesKeepTheirMeaning == Spec => []LocalReferencesKeepMeaning
<1>1. ASSUME Aliasing, Rebinding, Rewritten, NEW r \in References, IsLocal(r[1], r[2])
      PROVE  \/ KeepsMeaning(r[1], r[2])
             \/ LeftBehind(r[1], r[2]) \/ TakenForOuter(r[1], r[2])
  <2>1. PICK b, c : r = <<b, c>> /\ b = r[1] /\ c = r[2]
    BY DEF References
  <2>. DEFINE d == Denotee(b, c)
              k == bound[b][c]
  <2>2. q \in Statements /\ <<b, c>> \in References
    BY <1>1, <2>1 DEF Aliasing
  <2>3. /\ b \in Selects /\ b \in Queries /\ c \in Chains /\ Before(b, c) = {d}
        /\ d \in Entries(q[d].up) /\ Answering(q[d].up, c) = {d}
    BY <2>2, ReferenceFacts
  <2>4. d \in Entries(b)
    BY <1>1, <2>1 DEF IsLocal
  <2>5. q[d].up = b
    <3>. HIDE DEF d
    <3>. QED
      BY <2>2, <2>4, EntryFacts
  <2>6. Answering(b, c) = {d}
    BY <2>3, <2>5
  <2>7. c \in Exposes(d)
    BY <2>6 DEF Answering
  <2>8. Len(c) = 1 \/ Len(c) > 1
    <3>. HIDE DEF d
    <3>1. \A i \in Nat \ {0} : i = 1 \/ i > 1
      OBVIOUS
    <3>2. Len(c) \in Nat \ {0}
      BY <2>2, <2>4, <2>7, ExposedFacts
    <3>. QED
      BY <3>1, <3>2, Zenon
  <2>9. NowAnswering(b, k) = {d} \/ LeftBehind(b, c) \/ TakenForOuter(b, c)
    BY <1>1, <2>3, <2>6, <2>8, LocalBareReference, LocalQualifiedReference
  <2>10. NowAnswering(b, k) = {d} => KeepsMeaning(b, c)
    <3>1. SUFFICES ASSUME NowAnswering(b, k) = {d} PROVE After(b, c) = Before(b, c)
      BY DEF KeepsMeaning
    <3>2. After(b, c) = Denoted([n \in Nodes |-> NowExposes(n)], k)[b]
      BY DEF After
    <3>. HIDE DEF d, k
    <3>3. After(b, c) = NowAnswering(b, k)
      BY <2>2, <2>3, <3>1, <3>2, Resolution
    <3>. QED
      BY <2>3, <3>1, <3>3
  <2>. QED
    BY <2>1, <2>9, <2>10
<1>2. Aliasing /\ Rebinding => LocalReferencesKeepMeaning
  BY <1>1, PredicateReference DEF LocalReferencesKeepMeaning
<1>. QED
  BY <1>2, AliasingAlways, RebindingAlways, PTL

-----------------------------------------------------------------------------
(* References to the relations of the queries around.                        *)

(* What is seen is around.                                                   *)
LEMMA SeenWithin ==
  ASSUME q \in Statements
  PROVE  \A b \in Queries : Seen[b] \subseteq Within[b]
<1>. DEFINE Fine == {b \in Queries : Seen[b] \subseteq Within[b]}
<1>1. ASSUME NEW b \in Queries, \A m \in Queries : m < b => m \in Fine
      PROVE  b \in Fine
  <2>1. /\ Seen[b] = {b} \union IF Outward[b] = 0 THEN {} ELSE Seen[Outward[b]]
        /\ Within[b] = {b} \union IF b = Root THEN {} ELSE Within[q[b].up]
        /\ Outward[b] = IF b = Root THEN 0 ELSE IF q[b].place = "clause" THEN q[b].up
                                                                         ELSE Outward[q[b].up]
    BY SeenFacts, WithinFacts, OutwardFacts
  <2>2. CASE b = Root
    BY <2>1, <2>2
  <2>3. CASE b # Root
    <3>1. q[b].up \in Queries /\ q[b].up < b
      BY <2>3, StatementFacts
    <3>2. Seen[q[b].up] \subseteq Within[q[b].up]
      BY <1>1, <3>1
    <3>3. Outward[b] # 0 => Seen[Outward[b]] \subseteq Seen[q[b].up]
      <4>1. Seen[q[b].up] = {q[b].up} \union IF Outward[q[b].up] = 0 THEN {} ELSE Seen[Outward[q[b].up]]
        BY <3>1, SeenFacts
      <4>. QED
        BY <2>1, <2>3, <4>1
    <3>. QED
      BY <2>1, <2>3, <3>2, <3>3
  <2>. QED
    BY <2>2, <2>3
<1>2. Queries \in SUBSET Nat
  BY StatementFacts
<1>. HIDE DEF Fine
<1>3. Queries \subseteq Fine
  BY <1>1, <1>2, SmallerFirst
<1>. QED
  BY <1>3 DEF Fine

(* When nothing in between answers to a qualifier, it reaches the query that *)
(* does.                                                                     *)
LEMMA ReachesOutwards ==
  ASSUME q \in Statements, NEW k, NEW e \in Queries, NowAnswering(e, k) # {}
  PROVE  \A b \in Queries :
           e \in Seen[b] /\ (\A i \in Seen[b] \ Seen[e] : NowAnswering(i, k) = {}) =>
             Denoted([n \in Nodes |-> NowExposes(n)], k)[b] = NowAnswering(e, k)
<1>. DEFINE now == [n \in Nodes |-> NowExposes(n)]
            Clear(b) == e \in Seen[b] /\ \A i \in Seen[b] \ Seen[e] : NowAnswering(i, k) = {}
            Reach == {b \in Queries : Clear(b) => Denoted(now, k)[b] = NowAnswering(e, k)}
<1>1. ASSUME NEW b \in Queries, \A m \in Queries : m < b => m \in Reach
      PROVE  b \in Reach
  <2>. SUFFICES ASSUME Clear(b) PROVE Denoted(now, k)[b] = NowAnswering(e, k)
    OBVIOUS
  <2>. DEFINE out == Outward[b]
  <2>1. Denoted(now, k)[b] = IF NowAnswering(b, k) # {} \/ out = 0
                               THEN NowAnswering(b, k) ELSE Denoted(now, k)[out]
    BY Resolution
  <2>2. Seen[b] = {b} \union IF out = 0 THEN {} ELSE Seen[out]
    BY SeenFacts
  <2>3. CASE b = e
    BY <2>1, <2>3
  <2>4. CASE b # e
    <3>1. out # 0 /\ e \in Seen[out]
      BY <2>2, <2>4
    <3>2. out \in Queries /\ out < b /\ out \in Nat /\ b \in Nat /\ e \in Nat
      BY <3>1, OutwardFacts, StatementFacts
    <3>3. out \in Reach
      BY <1>1, <3>2
    <3>. HIDE DEF out
    <3>4. e <= out
      BY <3>1, <3>2, SeenFacts
    <3>5. ~(b <= e)
      BY <3>2, <3>4
    <3>6. b \notin Seen[e]
      BY <3>5, SeenFacts
    <3>7. NowAnswering(b, k) = {}
      BY <2>2, <3>6
    <3>8. Clear(out)
      BY <2>2, <3>1
    <3>. QED
      BY <2>1, <3>1, <3>3, <3>7, <3>8
  <2>. QED
    BY <2>3, <2>4
<1>2. Queries \in SUBSET Nat
  BY StatementFacts
<1>. HIDE DEF Reach
<1>3. Queries \subseteq Reach
  BY <1>1, <1>2, SmallerFirst
<1>. QED
  BY <1>3 DEF Reach

(* No table from the query a outwards up to the query e claims c.            *)
Unclaimed(a, e, c) == \A i \in Within[a] \ Within[e] : Owners(i, c) = {}

(* The rule of a query for a qualifier reaches the queries in it, but for    *)
(* those in a query that has its own.                                        *)
LEMMA RuleReachesInwards ==
  ASSUME Aliasing, Rebinding, Rewritten, NEW e \in Queries, NEW c \in DOMAIN qualified[e],
         NEW a \in Queries, e \in Within[a], Unclaimed(a, e, c)
  PROVE  c \in DOMAIN qualified[a] /\ qualified[a][c] = qualified[e][c]
<1>. DEFINE Clear(b) == e \in Within[b] /\ \A i \in Within[b] \ Within[e] : Owners(i, c) = {}
            Ruled == {b \in Queries : Clear(b) => /\ c \in DOMAIN qualified[b]
                                                  /\ qualified[b][c] = qualified[e][c]}
<1>1. q \in Statements
  BY DEF Aliasing
<1>2. ASSUME NEW b \in Queries, \A m \in Queries : m < b => m \in Ruled
      PROVE  b \in Ruled
  <2>. SUFFICES ASSUME Clear(b)
                PROVE  c \in DOMAIN qualified[b] /\ qualified[b][c] = qualified[e][c]
    OBVIOUS
  <2>1. Within[b] = {b} \union IF b = Root THEN {} ELSE Within[q[b].up]
    BY <1>1, WithinFacts
  <2>2. CASE b = e
    BY <2>2
  <2>3. CASE b # e
    <3>1. b # Root /\ e \in Within[q[b].up]
      BY <2>1, <2>3
    <3>2. q[b].up \in Queries /\ q[b].up < b /\ q[b].up \in Nat /\ b \in Nat /\ e \in Nat
      BY <1>1, <3>1, StatementFacts
    <3>3. q[b].up \in Ruled
      BY <1>2, <3>2
    <3>4. e <= q[b].up
      BY <1>1, <3>1, <3>2, WithinFacts
    <3>5. ~(b <= e)
      BY <3>2, <3>4
    <3>6. b \notin Within[e]
      BY <1>1, <3>5, WithinFacts
    <3>7. Owners(b, c) = {}
      BY <2>1, <3>6
    <3>8. Clear(q[b].up)
      BY <2>1, <3>1
    <3>9. Inherited(b) = qualified[q[b].up]
      BY <3>1 DEF Inherited
    <3>. QED
      BY <3>3, <3>7, <3>8, <3>9, RuleFacts
  <2>. QED
    BY <2>2, <2>3
<1>3. Queries \in SUBSET Nat
  BY <1>1, StatementFacts
<1>. HIDE DEF Ruled
<1>4. a \in Ruled
  BY <1>2, <1>3, SmallerFirst
<1>. QED
  BY <1>4 DEF Ruled, Unclaimed

(* A qualifier that is kept reaches the relation it denoted unless a match   *)
(* in between has taken it for its alias.                                    *)
LEMMA KeptReaches ==
  ASSUME Aliasing, Rebinding, Rewritten, NEW b, NEW c, <<b, c>> \in References,
         c \in NowExposes(Denotee(b, c)), ~Captured(b, c)
  PROVE  Denoted([n \in Nodes |-> NowExposes(n)], c)[b] = Before(b, c)
<1>. DEFINE d == Denotee(b, c)
            e == q[d].up
<1>1. q \in Statements /\ pc \in {"rebind", "rewritten"}
  BY DEF Aliasing, Rewritten
<1>2. /\ b \in Queries /\ e \in Queries /\ e \in Seen[b]
      /\ Before(b, c) = {d} /\ Answering(e, c) = {d}
      /\ \A i \in Inside(b, c) : Answering(i, c) = {}
  BY <1>1, ReferenceFacts
<1>3. Inside(b, c) = Seen[b] \ Seen[e]
  BY DEF Inside
<1>4. NowAnswering(e, c) = {d}
  <2>1. c \in NowExposes(d)
    OBVIOUS
  <2>. HIDE DEF d, e
  <2>. QED
    BY <1>1, <1>2, <2>1, NameKept
<1>5. ASSUME NEW i \in Inside(b, c), NEW m \in Entries(i), c \in NowExposes(m)
      PROVE  FALSE
  <2>1. CASE m \notin Unaliased
    <3>1. c \in Exposes(m)
      BY <1>1, <1>5, <2>1, OthersKeepNames
    <3>. QED
      BY <1>2, <3>1 DEF Answering
  <2>2. CASE m \in Unaliased
    <3>1. c = <<Key(AliasOf(m))>>
      BY <1>1, <1>5, <2>2, OwnAlias
    <3>. QED
      BY <2>2, <3>1 DEF Captured
  <2>. QED
    BY <2>1, <2>2
<1>6. \A i \in Inside(b, c) : NowAnswering(i, c) = {}
  BY <1>5 DEF NowAnswering
<1>. HIDE DEF d, e
<1>. QED
  BY <1>1, <1>2, <1>3, <1>4, <1>6, ReachesOutwards

(* A reference bound to the new alias of the match it denoted reaches it     *)
(* unless a relation in between answers to that alias.                       *)
LEMMA AliasReaches ==
  ASSUME Aliasing, Rebinding, Rewritten, NEW b, NEW c, <<b, c>> \in References,
         Denotee(b, c) \in Unaliased, ~Captured(b, c)
  PROVE  Denoted([n \in Nodes |-> NowExposes(n)], <<Key(AliasOf(Denotee(b, c)))>>)[b] = Before(b, c)
<1>. DEFINE d == Denotee(b, c)
            e == q[d].up
            k == <<Key(AliasOf(d))>>
<1>1. q \in Statements /\ pc \in {"rebind", "rewritten"} /\ d \in Unaliased
  BY DEF Aliasing, Rewritten
<1>2. /\ b \in Queries /\ e \in Queries /\ e \in Seen[b]
      /\ Before(b, c) = {d} /\ Answering(e, c) = {d}
  BY <1>1, ReferenceFacts
<1>3. Inside(b, c) = Seen[b] \ Seen[e]
  BY DEF Inside
<1>4. \A i \in Inside(b, c) : NowAnswering(i, k) = {}
  BY DEF Captured, NowAnswering
<1>5. NowAnswering(e, k) = {d}
  <2>. HIDE DEF d, e
  <2>. QED
    BY <1>1, <1>2, AliasFound
<1>6. Denoted([n \in Nodes |-> NowExposes(n)], k)[b] = Before(b, c)
  <2>. HIDE DEF d, e, k
  <2>. QED
    BY <1>1, <1>2, <1>3, <1>4, <1>5, ReachesOutwards
<1>. QED
  BY <1>6

LEMMA CorrelatedBareReference ==
  ASSUME Aliasing, Rebinding, Rewritten, NEW b, NEW c, <<b, c>> \in References,
         ~IsLocal(b, c), Len(c) = 1
  PROVE  \/ KeepsMeaning(b, c)
         \/ LeftBehind(b, c) \/ TakenForTwin(b, c) \/ Captured(b, c)
<1>. DEFINE d == Denotee(b, c)
            e == q[d].up
            text == c[1]
<1>1. q \in Statements /\ pc \in {"rebind", "rewritten"}
  BY DEF Aliasing, Rewritten
<1>2. /\ b \in Queries /\ c \in Chains /\ d \in Entries(e)
      /\ Answering(e, c) = {d}
  BY <1>1, ReferenceFacts
<1>3. bound[b][c] = IF Bare(b, text) = {} THEN c
                                          ELSE <<Key(AliasOf(CHOOSE n \in Bare(b, text) : TRUE))>>
  BY <1>2, RewrittenBound DEF Rebound
<1>4. CASE Bare(b, text) # {}
  <2>1. PICK w \in Own(b) : Lower(BareName(w)) = text
    BY <1>4 DEF Bare
  <2>2. w \in Entries(b)
    BY DEF Own
  <2>3. d \notin Entries(b)
    BY DEF IsLocal
  <2>. QED
    BY <2>1, <2>2, <2>3 DEF TakenForTwin
<1>5. CASE Bare(b, text) = {} /\ IsRenamed(d)
  BY <1>3, <1>5 DEF LeftBehind
<1>6. CASE Bare(b, text) = {} /\ ~IsRenamed(d)
  <2>1. bound[b][c] = c
    BY <1>3, <1>6
  <2>2. c \in Exposes(d)
    BY <1>2 DEF Answering
  <2>3. c \in NowExposes(d)
    <3>. HIDE DEF d, e
    <3>. QED
      BY <1>1, <1>2, <1>6, <2>2, UnrenamedKeeps
  <2>4. ~Captured(b, c) => After(b, c) = Before(b, c)
    BY <2>1, <2>3, KeptReaches DEF After
  <2>. QED
    BY <2>4 DEF KeepsMeaning
<1>. QED
  BY <1>4, <1>5, <1>6

LEMMA CorrelatedQualifiedReference ==
  ASSUME Aliasing, Rebinding, Rewritten, NEW b, NEW c, <<b, c>> \in References, Len(c) > 1
  PROVE  \/ KeepsMeaning(b, c)
         \/ TakenForOuter(b, c) \/ TakenForNeighbour(b, c) \/ Captured(b, c)
<1>. DEFINE d == Denotee(b, c)
            e == q[d].up
<1>1. q \in Statements /\ pc \in {"rebind", "rewritten"}
  BY DEF Aliasing, Rewritten
<1>2. /\ b \in Selects /\ b \in Queries /\ c \in Chains /\ d \in Entries(e) /\ e \in Queries /\ e \in Seen[b]
      /\ Answering(e, c) = {d}
  BY <1>1, ReferenceFacts
<1>3. bound[b][c] = IF c \in DOMAIN qualified[b] THEN <<qualified[b][c]>> ELSE c
  <2>1. c \in Exposes(d)
    BY <1>2 DEF Answering
  <2>2. Len(c) \in Nat
    <3>. HIDE DEF d, e
    <3>. QED
      BY <1>1, <1>2, <2>1, ExposedFacts
  <2>3. \A i \in Nat : i > 1 => i # 1
    OBVIOUS
  <2>4. Len(c) # 1
    BY <2>2, <2>3, Zenon
  <2>. QED
    BY <1>2, <2>4, RewrittenBound DEF Rebound
<1>4. CASE d \notin Unaliased
  <2>1. c \in NowExposes(d)
    <3>1. c \in Exposes(d)
      BY <1>2 DEF Answering
    <3>. HIDE DEF d, e
    <3>. QED
      BY <1>1, <1>2, <1>4, <3>1, OthersKeepNames
  <2>2. CASE c \in DOMAIN qualified[b]
    BY <1>4, <2>2 DEF TakenForOuter
  <2>3. CASE c \notin DOMAIN qualified[b]
    <3>1. ~Captured(b, c) => After(b, c) = Before(b, c)
      BY <1>3, <2>1, <2>3, KeptReaches DEF After
    <3>. QED
      BY <3>1 DEF KeepsMeaning
  <2>. QED
    BY <2>2, <2>3
<1>5. CASE d \in Unaliased
  <2>1. SUFFICES ASSUME ~TakenForNeighbour(b, c), ~Captured(b, c)
                 PROVE  After(b, c) = Before(b, c)
    BY DEF KeepsMeaning
  <2>2. Unclaimed(b, e, c)
    BY <2>1 DEF TakenForNeighbour, Unclaimed
  <2>3. c \in DOMAIN qualified[b] /\ qualified[b][c] = Key(AliasOf(d))
    <3>. HIDE DEF d, e
    <3>1. Owners(e, c) = {d}
      BY <1>1, <1>2, <1>5, OwnersFound
    <3>2. e \in Within[b]
      BY <1>1, <1>2, SeenWithin
    <3>3. c \in DOMAIN qualified[e] /\ qualified[e][c] = Key(AliasOf(d))
      BY <1>2, <3>1, RuleFacts
    <3>. QED
      BY <1>2, <2>2, <3>2, <3>3, RuleReachesInwards
  <2>4. bound[b][c] = <<Key(AliasOf(d))>>
    BY <1>3, <2>3
  <2>. QED
    BY <1>5, <2>1, <2>4, AliasReaches DEF After
<1>. QED
  BY <1>4, <1>5

(* A reference of a subquery to a relation of a query around it denotes it   *)
(* still, but for the references left behind, those taken for a table of     *)
(* another query, and those a new alias in between captures.                 *)
THEOREM CorrelatedReferencesKeepTheirMeaning == Spec => []CorrelatedReferencesKeepMeaning
<1>1. ASSUME Aliasing, Rebinding, Rewritten, NEW r \in References, ~IsLocal(r[1], r[2])
      PROVE  \/ KeepsMeaning(r[1], r[2])
             \/ LeftBehind(r[1], r[2]) \/ TakenForTwin(r[1], r[2]) \/ TakenForOuter(r[1], r[2])
             \/ TakenForNeighbour(r[1], r[2]) \/ Captured(r[1], r[2])
  <2>1. PICK b, c : r = <<b, c>> /\ b = r[1] /\ c = r[2]
    BY DEF References
  <2>2. q \in Statements /\ <<b, c>> \in References
    BY <1>1, <2>1 DEF Aliasing
  <2>3. Len(c) = 1 \/ Len(c) > 1
    <3>. DEFINE d == Denotee(b, c)
    <3>1. d \in Entries(q[d].up) /\ Answering(q[d].up, c) = {d}
      BY <2>2, ReferenceFacts
    <3>2. c \in Exposes(d)
      BY <3>1 DEF Answering
    <3>. HIDE DEF d
    <3>3. \A i \in Nat \ {0} : i = 1 \/ i > 1
      OBVIOUS
    <3>4. Len(c) \in Nat \ {0}
      BY <2>2, <3>1, <3>2, ExposedFacts
    <3>. QED
      BY <3>3, <3>4, Zenon
  <2>. QED
    BY <1>1, <2>1, <2>2, <2>3, CorrelatedBareReference, CorrelatedQualifiedReference
<1>2. Aliasing /\ Rebinding => CorrelatedReferencesKeepMeaning
  BY <1>1 DEF CorrelatedReferencesKeepMeaning
<1>. QED
  BY <1>2, AliasingAlways, RebindingAlways, PTL
=============================================================================
