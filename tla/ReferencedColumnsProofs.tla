----------------------- MODULE ReferencedColumnsProofs ------------------------
(***************************************************************************)
(* The resolver of ReferencedColumns takes up no query twice and finds the  *)
(* tables of exactly the queries that are read, with every CTE name         *)
(* denoting what it does in SQL, for statements of any size and depth.      *)
(***************************************************************************)
EXTENDS OutputColumns, TreeRecursion, SequenceTheorems

-----------------------------------------------------------------------------
(* Statements.                                                               *)

LEMMA StatementFacts ==
  ASSUME q \in Statements
  PROVE  /\ Len(q) \in Nat /\ Nodes = 1 .. Len(q) /\ Nodes \subseteq Nat
         /\ q # <<>> => Root \in QueryNodes
         /\ \A n \in Nodes : /\ q[n].kind \in {"table", "select", "setop"} \union DMLKinds
                             /\ q[n].name \in Seq(STRING) /\ q[n].alias \in STRING
         /\ \A n \in Nodes \ {Root} : q[n].up \in QueryNodes /\ q[n].up \in Nat /\ q[n].up < n
         /\ \A n \in Nodes : q[n].kind = "table" =>
              n # Root /\ n \in Sources(q[n].up) /\ q[q[n].up].kind # "setop"
         /\ \A n \in Nodes : NamedWell(q, n) /\ (n # Root => ~IsDML(n))
         /\ \A b, n, m : n \in Kids(b, "list") /\ m \in Sources(b) => m < n
         /\ \A b \in Nodes : q[b].kind = "setop" => Cardinality(Kids(b, "branch")) = 2 /\ Sources(b) = {}
         /\ \A b, n : n \in Kids(b, "branch") => q[b].kind = "setop"
<1>1. q \in Seq(ParsedNodes)
  BY StatementsAssumption
<1>2. Len(q) \in Nat /\ Nodes = 1 .. Len(q) /\ \A n \in Nodes : q[n] \in ParsedNodes /\ n \in Nat
  BY <1>1 DEF Nodes
<1>3. ASSUME q # <<>> PROVE Root \in QueryNodes
  <2>1. q[Root].kind # "table"
    BY <1>3, StatementsAssumption
  <2>2. Len(q) # 0
    BY <1>1, <1>3, EmptySeq
  <2>3. Root \in Nodes
    BY <1>2, <2>2 DEF Root
  <2>. QED
    BY <2>1, <2>3 DEF QueryNodes
<1>4. ASSUME NEW n \in Nodes
      PROVE  /\ q[n].kind \in {"table", "select", "setop"} \union DMLKinds
             /\ q[n].name \in Seq(STRING) /\ q[n].alias \in STRING
  BY <1>2 DEF ParsedNodes
<1>5. ASSUME NEW n \in Nodes \ {Root}
      PROVE  q[n].up \in QueryNodes /\ q[n].up \in Nat /\ q[n].up < n
  <2>1. q[n].up \in 1 .. n - 1 /\ q[q[n].up].kind # "table"
    BY StatementsAssumption DEF Nodes, Placed
  <2>2. n \in Nat /\ n \in 1 .. Len(q)
    BY <1>2
  <2>3. q[n].up \in Nodes /\ q[n].up \in Nat /\ q[n].up < n
    BY <1>2, <2>1, <2>2
  <2>. QED
    BY <2>1, <2>3 DEF QueryNodes
<1>6. ASSUME NEW n \in Nodes, q[n].kind = "table"
      PROVE  n # Root /\ n \in Sources(q[n].up) /\ q[q[n].up].kind # "setop"
  <2>1. q # <<>>
    BY DEF Nodes
  <2>2. n # Root
    BY <1>6, <2>1, StatementsAssumption
  <2>3. q[n].place = "from" /\ q[q[n].up].kind # "setop"
    BY <1>6, <2>2, StatementsAssumption DEF Nodes, Placed
  <2>. QED
    BY <2>2, <2>3 DEF Sources, Kids
<1>7. ASSUME NEW n \in Nodes
      PROVE  NamedWell(q, n) /\ (n # Root => ~IsDML(n))
  <2>1. NamedWell(q, n)
    BY StatementsAssumption DEF Nodes
  <2>2. n # Root => Placed(q, n)
    BY StatementsAssumption DEF Nodes
  <2>. QED
    BY <2>1, <2>2 DEF Placed, IsDML
<1>8. ASSUME NEW b, NEW n \in Kids(b, "list"), NEW m \in Sources(b)
      PROVE  m < n
  <2>1. n \in Nodes \ {Root} /\ q[n].up = b /\ q[n].place = "list" /\ m \in Nodes /\ q[m].up = b /\ q[m].place = "from"
    BY DEF Sources, Kids
  <2>2. Placed(q, n)
    BY <2>1, StatementsAssumption DEF Nodes
  <2>. QED
    BY <2>1, <2>2 DEF Placed, Nodes
<1>9. ASSUME NEW b \in Nodes, q[b].kind = "setop"
      PROVE  Cardinality(Kids(b, "branch")) = 2 /\ Sources(b) = {}
  <2>1. Cardinality({m \in DOMAIN q \ {Root} : q[m].up = b /\ q[m].place = "branch"}) = 2
    BY <1>9, StatementsAssumption DEF Nodes
  <2>2. ASSUME NEW n \in Sources(b) PROVE FALSE
    <3>1. n \in Nodes \ {Root} /\ q[n].up = b /\ q[n].place = "from"
      BY <2>2 DEF Sources, Kids
    <3>2. Placed(q, n)
      BY <3>1, StatementsAssumption DEF Nodes
    <3>. QED
      BY <1>9, <3>1, <3>2 DEF Placed
  <2>. QED
    BY <2>1, <2>2 DEF Kids, Nodes
<1>10. ASSUME NEW b, NEW n \in Kids(b, "branch")
       PROVE  q[b].kind = "setop"
  <2>1. n \in Nodes \ {Root} /\ q[n].up = b /\ q[n].place = "branch"
    BY DEF Kids
  <2>2. Placed(q, n)
    BY <2>1, StatementsAssumption DEF Nodes
  <2>. QED
    BY <2>1, <2>2 DEF Placed, Nodes
<1>. QED
  BY <1>2, <1>3, <1>4, <1>5, <1>6, <1>7, <1>8, <1>9, <1>10

LEMMA KidFacts ==
  ASSUME q \in Statements, NEW b, NEW place, NEW n \in Kids(b, place)
  PROVE  /\ n \in Nodes \ {Root} /\ q[n].up = b /\ q[n].place = place
         /\ b \in QueryNodes /\ b \in Nat /\ n \in Nat /\ b < n
         /\ place # "from" => n \in QueryNodes
<1>1. n \in Nodes \ {Root} /\ q[n].up = b /\ q[n].place = place
  BY DEF Kids
<1>2. q[n].kind = "table" => place = "from"
  <2>1. q[n].kind = "table" => n \in Kids(q[n].up, "from")
    BY <1>1, StatementFacts DEF Sources
  <2>. QED
    BY <1>1, <2>1 DEF Kids
<1>. QED
  BY <1>1, <1>2, StatementFacts DEF QueryNodes

(* What is known of the statement stays as it is.                            *)
LEMMA StatementStays ==
  ASSUME q' = q
  PROVE  /\ Nodes' = Nodes /\ QueryNodes' = QueryNodes
         /\ \A b, place : Kids(b, place)' = Kids(b, place)
         /\ \A b : Sources(b)' = Sources(b)
         /\ \A n : CteOf(n)' = CteOf(n) /\ IsPhysical(n)' = IsPhysical(n)
         /\ \A n : DenotedCte(n)' = DenotedCte(n) /\ IsTable(n)' = IsTable(n)
         /\ \A b : Inputs(b)' = Inputs(b)
         /\ \A n : Reads(n)' = Reads(n)
         /\ TablesExist' = TablesExist /\ CteNamesDistinct' = CteNamesDistinct
<1>1. Nodes' = Nodes /\ QueryNodes' = QueryNodes /\ \A b, place : Kids(b, place)' = Kids(b, place)
  BY DEF Nodes, QueryNodes, Kids
<1>2. \A b : Sources(b)' = Sources(b)
  BY <1>1 DEF Sources
<1>3. Ctes' = Ctes
  <2>1. \A n : Siblings(n)' = Siblings(n)
    BY <1>1 DEF Siblings
  <2>2. \A base, ctes : Overlaid(base, ctes)' = Overlaid(base, ctes)
    BY DEF Overlaid
  <2>. QED
    BY <1>1, <2>1, <2>2 DEF Ctes
<1>4. \A n : CteOf(n)' = CteOf(n) /\ IsPhysical(n)' = IsPhysical(n)
  BY <1>3 DEF CteOf, IsPhysical
<1>5. Above' = Above
  BY <1>1 DEF Above
<1>6. \A n : DenotedCte(n)' = DenotedCte(n) /\ IsTable(n)' = IsTable(n)
  BY <1>1, <1>5 DEF DenotedCte, IsTable, NamedLike, Declared
<1>7. (\A b : Inputs(b)' = Inputs(b)) /\ (\A n : Reads(n)' = Reads(n))
  BY <1>1, <1>2, <1>4 DEF Inputs, Reads
<1>8. TablesExist' = TablesExist /\ CteNamesDistinct' = CteNamesDistinct
  BY <1>1, <1>6 DEF TablesExist, CteNamesDistinct
<1>. QED
  BY <1>1, <1>2, <1>4, <1>6, <1>7, <1>8

-----------------------------------------------------------------------------
(* The scoping of CTE names.                                                 *)

LEMMA AboveFacts ==
  ASSUME q \in Statements
  PROVE  \A n \in Nodes :
           /\ Above[n] = {n} \union IF n = Root THEN {} ELSE Above[q[n].up]
           /\ Above[n] \subseteq {m \in Nodes : m <= n}
<1>. DEFINE Vals == SUBSET Nodes
            Stop == {Root}
            base == [n \in Nodes |-> {n}]
            next == [n \in Nodes |-> q[n].up]
            step == [n \in Nodes |-> [v \in Vals |-> {n} \union v]]
            Body(f) == [n \in Nodes |-> {n} \union IF n = Root THEN {} ELSE f[q[n].up]]
<1>1. /\ Nodes \in SUBSET Nat /\ Len(q) \in Nat /\ \A n \in Nodes : n <= Len(q)
      /\ \A n \in Nodes \ {Root} : q[n].up \in Nodes /\ q[n].up < n
  BY StatementFacts DEF QueryNodes
<1>2. PICK f : Solves(f, Nodes, Vals, Stop, base, next, step)
  <2>1. \A n \in Nodes : n \in Stop => base[n] \in Vals
    OBVIOUS
  <2>2. \A n \in Nodes : n \notin Stop => next[n] \in Nodes /\ next[n] < n /\ step[n] \in [Vals -> Vals]
    BY <1>1
  <2>. HIDE DEF Vals, Stop, base, next, step
  <2>. QED
    BY <1>1, <2>1, <2>2, ChainRecursion
<1>3. \A n \in Nodes : f[n] = {n} \union IF n = Root THEN {} ELSE f[q[n].up]
  BY <1>1, <1>2 DEF Solves
<1>4. f = Body(f)
  <2>1. \A n \in Nodes : f[n] = Body(f)[n]
    BY <1>3
  <2>. QED
    BY <1>2, <2>1 DEF Solves
<1>5. Above = Body(Above)
  BY <1>4 DEF Above
<1>. DEFINE g == Above
<1>. HIDE DEF g
<1>6. \A n \in Nodes : g[n] = {n} \union IF n = Root THEN {} ELSE g[q[n].up]
  BY <1>5 DEF g
<1>7. Nodes \subseteq {n \in Nodes : g[n] \subseteq {m \in Nodes : m <= n}}
  <2>. DEFINE Fine == {n \in Nodes : g[n] \subseteq {m \in Nodes : m <= n}}
  <2>1. ASSUME NEW n \in Nodes, \A m \in Nodes : m < n => m \in Fine
        PROVE  n \in Fine
    <3>1. n \in Nat /\ n <= n
      BY <1>1
    <3>2. n # Root => q[n].up \in Fine /\ q[n].up \in Nat /\ q[n].up < n
      BY <1>1, <2>1
    <3>3. ASSUME n # Root, NEW m \in g[q[n].up] PROVE m \in Nodes /\ m <= n
      <4>1. m \in Nodes /\ m <= q[n].up
        BY <3>2, <3>3
      <4>2. m \in Nat
        BY <1>1, <4>1
      <4>. QED
        BY <3>1, <3>2, <3>3, <4>1, <4>2
    <3>. QED
      BY <1>6, <3>1, <3>3
  <2>. HIDE DEF Fine
  <2>2. Nodes \subseteq Fine
    BY <1>1, <2>1, SmallerFirst
  <2>. QED
    BY <2>2 DEF Fine
<1>. QED
  BY <1>6, <1>7 DEF g

LEMMA DeclaredFacts ==
  ASSUME q \in Statements, NEW n \in Nodes
  PROVE  /\ n = Root => Declared(n) = {}
         /\ n # Root => Declared(n) = Declared(q[n].up) \union Siblings(n)
         /\ \A c \in Siblings(n) : n # Root => c \in Kids(q[n].up, "cte")
         /\ \A c \in Declared(n) : c \in Kids(q[c].up, "cte") /\ q[c].up < n
<1>. DEFINE Seen(a) == {c \in Kids(q[a].up, "cte") : q[a].place # "cte" \/ q[q[a].up].rec \/ c < a}
<1>1. \A a, c : c \in Declared(a) <=> \E d \in Above[a] \ {Root} : c \in Seen(d)
  BY DEF Declared
<1>2. \A c : c \in Siblings(n) <=> c \in Seen(n)
  BY DEF Siblings
<1>3. Above[n] = {n} \union IF n = Root THEN {} ELSE Above[q[n].up]
  BY AboveFacts
<1>. HIDE DEF Seen
<1>4. n = Root => Declared(n) = {}
  BY <1>1, <1>3
<1>5. ASSUME n # Root PROVE Declared(n) = Declared(q[n].up) \union Siblings(n)
  <2>1. \A c : c \in Declared(n) <=> c \in Seen(n) \/ c \in Declared(q[n].up)
    BY <1>1, <1>3, <1>5
  <2>. QED
    BY <1>2, <2>1
<1>6. \A c \in Siblings(n) : c \in Kids(q[n].up, "cte")
  BY DEF Siblings
<1>7. ASSUME NEW c \in Declared(n)
      PROVE  c \in Kids(q[c].up, "cte") /\ q[c].up < n
  <2>1. PICK a \in Above[n] \ {Root} : c \in Seen(a)
    BY <1>1
  <2>2. c \in Kids(q[a].up, "cte")
    BY <2>1 DEF Seen
  <2>3. q[c].up = q[a].up
    BY <2>2 DEF Kids
  <2>4. a \in Nodes /\ a <= n
    BY AboveFacts
  <2>5. q[a].up \in Nat /\ q[a].up < a /\ a \in Nat /\ n \in Nat
    BY <2>1, <2>4, StatementFacts
  <2>. QED
    BY <2>2, <2>3, <2>4, <2>5
<1>. QED
  BY <1>4, <1>5, <1>6, <1>7

(* The nodes that CTE names may be taken for.                                *)
Scopes == UNION {[D -> Nodes] : D \in SUBSET STRING}

(* What stands in a scope: the CTEs given, and behind them those of base.    *)
Overlays(new, base, ctes) ==
  /\ DOMAIN new = DOMAIN base \union {q[c].alias : c \in ctes}
  /\ \A name \in DOMAIN new :
       /\ (\A c \in ctes : q[c].alias # name) => name \in DOMAIN base /\ new[name] = base[name]
       /\ (\E c \in ctes : q[c].alias = name) => new[name] \in ctes /\ q[new[name]].alias = name

LEMMA OverlaidFacts ==
  ASSUME q \in Statements, NEW base \in Scopes, NEW ctes \in SUBSET Nodes
  PROVE  Overlaid(base, ctes) \in Scopes /\ Overlays(Overlaid(base, ctes), base, ctes)
<1>. DEFINE named == {q[c].alias : c \in ctes}
            own(name) == {c \in ctes : q[c].alias = name}
            new == Overlaid(base, ctes)
<1>1. base \in [DOMAIN base -> Nodes] /\ DOMAIN base \subseteq STRING
  BY DEF Scopes
<1>2. named \subseteq STRING
  BY StatementFacts
<1>3. new = [name \in DOMAIN base \union named |-> IF own(name) = {} THEN base[name] ELSE Max(own(name))]
  BY DEF Overlaid
<1>4. ASSUME NEW name, own(name) # {}
      PROVE  Max(own(name)) \in own(name)
  <2>1. own(name) \in SUBSET Nat /\ Len(q) \in Nat /\ \A c \in own(name) : c <= Len(q)
    BY StatementFacts
  <2>. HIDE DEF own
  <2>. QED
    BY <1>4, <2>1, MaxFacts
<1>5. ASSUME NEW name \in DOMAIN base \union named
      PROVE  /\ (\A c \in ctes : q[c].alias # name) => name \in DOMAIN base /\ new[name] = base[name]
             /\ (\E c \in ctes : q[c].alias = name) => new[name] \in ctes /\ q[new[name]].alias = name
             /\ new[name] \in Nodes
  <2>1. CASE \A c \in ctes : q[c].alias # name
    <3>1. own(name) = {} /\ name \in DOMAIN base
      BY <2>1
    <3>. QED
      BY <1>1, <1>3, <2>1, <3>1
  <2>2. CASE \E c \in ctes : q[c].alias = name
    <3>1. own(name) # {}
      BY <2>2
    <3>2. new[name] = Max(own(name))
      BY <1>3, <3>1
    <3>3. new[name] \in own(name)
      BY <1>4, <3>1, <3>2
    <3>. QED
      BY <2>2, <3>3
  <2>. QED
    BY <2>1, <2>2
<1>6. DOMAIN new = DOMAIN base \union named
  BY <1>3
<1>7. new \in [DOMAIN base \union named -> Nodes]
  <2>. DEFINE val(name) == IF own(name) = {} THEN base[name] ELSE Max(own(name))
  <2>1. \A name \in DOMAIN base \union named : val(name) \in Nodes
    BY <1>3, <1>5
  <2>2. new = [name \in DOMAIN base \union named |-> val(name)]
    BY <1>3
  <2>. HIDE DEF val, new, named
  <2>. QED
    BY <2>1, <2>2
<1>8. new \in Scopes
  BY <1>1, <1>2, <1>7 DEF Scopes
<1>. QED
  BY <1>5, <1>6, <1>8 DEF Overlays

LEMMA CtesFacts ==
  ASSUME q \in Statements
  PROVE  \A n \in Nodes :
           /\ Ctes[n] \in Scopes
           /\ n = Root => DOMAIN Ctes[n] = {}
           /\ n # Root => Ctes[n] = Overlaid(Ctes[q[n].up], Siblings(n))
<1>. DEFINE Stop == {Root}
            base == [n \in Nodes |-> NoCtes]
            next == [n \in Nodes |-> q[n].up]
            step == [n \in Nodes |-> [v \in Scopes |-> Overlaid(v, Siblings(n))]]
            Body(f) == [n \in Nodes |-> IF n = Root THEN NoCtes ELSE Overlaid(f[q[n].up], Siblings(n))]
<1>1. /\ Nodes \in SUBSET Nat /\ Len(q) \in Nat /\ \A n \in Nodes : n <= Len(q)
      /\ \A n \in Nodes \ {Root} : q[n].up \in Nodes /\ q[n].up < n
  BY StatementFacts DEF QueryNodes
<1>2. NoCtes \in Scopes /\ DOMAIN NoCtes = {}
  <2>1. NoCtes \in [{} -> Nodes]
    BY DEF NoCtes
  <2>. QED
    BY <2>1 DEF Scopes
<1>3. \A n \in Nodes : Siblings(n) \in SUBSET Nodes
  BY DEF Siblings, Kids
<1>4. PICK f : Solves(f, Nodes, Scopes, Stop, base, next, step)
  <2>1. \A n \in Nodes : n \in Stop => base[n] \in Scopes
    BY <1>2
  <2>2. \A n \in Nodes : n \notin Stop => next[n] \in Nodes /\ next[n] < n
    BY <1>1
  <2>3. ASSUME NEW n \in Nodes PROVE step[n] \in [Scopes -> Scopes]
    <3>1. \A v \in Scopes : Overlaid(v, Siblings(n)) \in Scopes
      BY <1>3, OverlaidFacts
    <3>. QED
      BY <3>1
  <2>. HIDE DEF Stop, base, next, step
  <2>. QED
    BY <1>1, <2>1, <2>2, <2>3, ChainRecursion
<1>5. \A n \in Nodes : f[n] = IF n = Root THEN NoCtes ELSE Overlaid(f[q[n].up], Siblings(n))
  BY <1>1, <1>4 DEF Solves
<1>6. f = Body(f) /\ f \in [Nodes -> Scopes]
  <2>1. \A n \in Nodes : f[n] = Body(f)[n]
    BY <1>5
  <2>. QED
    BY <1>4, <2>1 DEF Solves
<1>7. Ctes = Body(Ctes) 
  BY <1>6 DEF Ctes
<1>. DEFINE g == Ctes
<1>. HIDE DEF g
<1>8. \A n \in Nodes : g[n] = IF n = Root THEN NoCtes ELSE Overlaid(g[q[n].up], Siblings(n))
  BY <1>7 DEF g
<1>9. Nodes \subseteq {n \in Nodes : g[n] \in Scopes}
  <2>. DEFINE Fine == {n \in Nodes : g[n] \in Scopes}
  <2>1. ASSUME NEW n \in Nodes, \A m \in Nodes : m < n => m \in Fine
        PROVE  n \in Fine
    <3>1. CASE n = Root
      BY <1>2, <1>8, <3>1
    <3>2. CASE n # Root
      <4>1. g[q[n].up] \in Scopes
        BY <1>1, <2>1, <3>2
      <4>2. Overlaid(g[q[n].up], Siblings(n)) \in Scopes
        BY <1>3, <4>1, OverlaidFacts
      <4>. QED
        BY <1>8, <3>2, <4>2
    <3>. QED
      BY <3>1, <3>2
  <2>. HIDE DEF Fine
  <2>2. Nodes \subseteq Fine
    BY <1>1, <2>1, SmallerFirst
  <2>. QED
    BY <2>2 DEF Fine
<1>. QED
  BY <1>2, <1>8, <1>9 DEF g

(* Of the CTEs of one name, the scope of a node has the innermost.           *)
ShowsInnermost(n) ==
  \A name :
    /\ name \in DOMAIN Ctes[n] <=> \E c \in Declared(n) : q[c].alias = name
    /\ name \in DOMAIN Ctes[n] =>
         /\ Ctes[n][name] \in Declared(n) /\ q[Ctes[n][name]].alias = name
         /\ \A d \in Declared(n) : q[d].alias = name => q[d].up <= q[Ctes[n][name]].up

LEMMA CtesShowInnermost ==
  ASSUME q \in Statements
  PROVE  \A n \in Nodes : ShowsInnermost(n)
<1>. DEFINE Fine == {n \in Nodes : ShowsInnermost(n)}
<1>1. ASSUME NEW n \in Nodes, \A m \in Nodes : m < n => m \in Fine
      PROVE  n \in Fine
  <2>1. CASE n = Root
    <3>1. Declared(n) = {} /\ DOMAIN Ctes[n] = {}
      BY <2>1, DeclaredFacts, CtesFacts
    <3>. QED
      BY <3>1 DEF ShowsInnermost
  <2>2. CASE n # Root
    <3>. DEFINE u == q[n].up
    <3>1. u \in Nodes /\ u < n /\ u \in Nat
      BY <2>2, StatementFacts DEF QueryNodes
    <3>2. ShowsInnermost(u)
      BY <1>1, <3>1
    <3>3. /\ Declared(n) = Declared(u) \union Siblings(n)
          /\ \A c \in Siblings(n) : c \in Nodes /\ q[c].up = u
      BY <2>2, DeclaredFacts DEF Kids
    <3>4. \A c \in Declared(u) : q[c].up < u /\ q[c].up \in Nat
      <4>1. \A c \in Declared(u) : q[c].up < u /\ c \in Kids(q[c].up, "cte")
        BY <3>1, DeclaredFacts
      <4>. QED
        BY <4>1, KidFacts
    <3>5. Ctes[u] \in Scopes /\ Ctes[n] = Overlaid(Ctes[u], Siblings(n)) /\ Siblings(n) \in SUBSET Nodes
      BY <2>2, <3>1, <3>3, CtesFacts
    <3>. DEFINE up == Ctes[u]
                here == Ctes[n]
    <3>6. Overlays(here, up, Siblings(n))
      BY <3>5, OverlaidFacts
    <3>. HIDE DEF u, up, here
    <3>7. ASSUME NEW name
          PROVE  name \in DOMAIN here <=> \E c \in Declared(n) : q[c].alias = name
      <4>1. name \in DOMAIN up <=> \E c \in Declared(u) : q[c].alias = name
        BY <3>2 DEF ShowsInnermost, up
      <4>. QED
        BY <3>3, <3>6, <4>1 DEF Overlays
    <3>8. ASSUME NEW name \in DOMAIN here
          PROVE  /\ here[name] \in Declared(n) /\ q[here[name]].alias = name
                 /\ \A d \in Declared(n) : q[d].alias = name => q[d].up <= q[here[name]].up
      <4>1. CASE \A c \in Siblings(n) : q[c].alias # name
        <5>1. name \in DOMAIN up /\ here[name] = up[name]
          BY <3>6, <4>1 DEF Overlays
        <5>2. /\ up[name] \in Declared(u) /\ q[up[name]].alias = name
              /\ \A d \in Declared(u) : q[d].alias = name => q[d].up <= q[up[name]].up
          BY <3>2, <5>1 DEF ShowsInnermost, up
        <5>. QED
          BY <3>3, <4>1, <5>1, <5>2
      <4>2. CASE \E c \in Siblings(n) : q[c].alias = name
        <5>1. here[name] \in Siblings(n) /\ q[here[name]].alias = name
          BY <3>6, <4>2 DEF Overlays
        <5>2. q[here[name]].up = u
          BY <3>3, <5>1
        <5>3. \A d \in Declared(n) : q[d].up <= u
          BY <3>1, <3>3, <3>4 DEF u
        <5>. QED
          BY <3>3, <5>1, <5>2, <5>3
      <4>. QED
        BY <4>1, <4>2
    <3>9. ShowsInnermost(n)
      BY <3>7, <3>8 DEF ShowsInnermost, here
    <3>. QED
      BY <3>9
  <2>. QED
    BY <2>1, <2>2
<1>2. Nodes \in SUBSET Nat
  BY StatementFacts
<1>. HIDE DEF Fine
<1>3. Nodes \subseteq Fine
  BY <1>1, <1>2, SmallerFirst
<1>. QED
  BY <1>3 DEF Fine

(* The scopes of newScope give a table name the meaning it has in SQL.       *)
LEMMA CteOfDenoted ==
  ASSUME q \in Statements, CteNamesDistinct, NEW n \in Nodes
  PROVE  CteOf(n) = DenotedCte(n)
<1>1. CASE q[n].kind # "table"
  BY <1>1 DEF CteOf, DenotedCte, NamedLike
<1>2. CASE q[n].kind = "table" /\ Len(q[n].name) # 1
  <2>1. \A alias : q[n].name # <<alias>>
    BY <1>2
  <2>. QED
    BY <1>2, <2>1 DEF CteOf, DenotedCte, NamedLike
<1>3. CASE q[n].kind = "table" /\ Len(q[n].name) = 1
  <2>. DEFINE name == q[n].name[1]
  <2>1. q[n].name \in Seq(STRING)
    BY StatementFacts
  <2>2. \A alias : q[n].name = <<alias>> <=> alias = name
    BY <1>3, <2>1
  <2>3. \A c : c \in NamedLike(n) <=> c \in Declared(n) /\ q[c].alias = name
    BY <1>3, <2>2 DEF NamedLike
  <2>4. /\ name \in DOMAIN Ctes[n] <=> \E c \in Declared(n) : q[c].alias = name
        /\ name \in DOMAIN Ctes[n] =>
             /\ Ctes[n][name] \in Declared(n) /\ q[Ctes[n][name]].alias = name
             /\ \A d \in Declared(n) : q[d].alias = name => q[d].up <= q[Ctes[n][name]].up
    BY CtesShowInnermost DEF ShowsInnermost
  <2>5. CteOf(n) = IF name \in DOMAIN Ctes[n] THEN {Ctes[n][name]} ELSE {}
    BY <1>3 DEF CteOf
  <2>. HIDE DEF name
  <2>6. CASE name \notin DOMAIN Ctes[n]
    BY <2>3, <2>4, <2>5, <2>6 DEF DenotedCte
  <2>7. CASE name \in DOMAIN Ctes[n]
    <3>. DEFINE c0 == Ctes[n][name]
    <3>1. /\ c0 \in NamedLike(n)
          /\ \A d \in NamedLike(n) : q[d].up <= q[c0].up
      BY <2>3, <2>4, <2>7
    <3>. HIDE DEF c0
    <3>2. c0 \in DenotedCte(n)
      BY <3>1 DEF DenotedCte
    <3>3. ASSUME NEW d \in DenotedCte(n) PROVE d = c0
      <4>1. d \in NamedLike(n) /\ q[d].up <= q[c0].up /\ q[c0].up <= q[d].up
        BY <3>1 DEF DenotedCte
      <4>2. d \in Kids(q[d].up, "cte") /\ c0 \in Kids(q[c0].up, "cte")
        BY <2>3, <3>1, <4>1, DeclaredFacts
      <4>3. q[d].up \in Nat /\ q[c0].up \in Nat /\ q[d].up \in Nodes
        BY <4>2, KidFacts DEF QueryNodes
      <4>4. q[d].up = q[c0].up
        BY <4>1, <4>3
      <4>5. q[d].alias = q[c0].alias
        BY <2>3, <3>1, <4>1
      <4>. QED
        BY <4>2, <4>3, <4>4, <4>5 DEF CteNamesDistinct
    <3>4. DenotedCte(n) = {c0}
      BY <3>2, <3>3
    <3>. QED
      BY <2>5, <2>7, <3>4 DEF c0
  <2>. QED
    BY <2>6, <2>7
<1>. QED
  BY <1>1, <1>2, <1>3

LEMMA CteOfFacts ==
  ASSUME q \in Statements, CteNamesDistinct, NEW n \in Nodes, NEW c \in CteOf(n)
  PROVE  /\ CteOf(n) = {c} /\ DenotedCte(n) = {c}
         /\ c \in QueryNodes \ {Root} /\ q[c].place = "cte" /\ q[n].kind = "table"
<1>1. CteOf(n) = {c} /\ q[n].kind = "table"
  BY DEF CteOf
<1>2. DenotedCte(n) = {c}
  BY <1>1, CteOfDenoted
<1>3. c \in Kids(q[c].up, "cte")
  <2>1. c \in Declared(n)
    BY <1>2 DEF DenotedCte, NamedLike
  <2>. QED
    BY <2>1, DeclaredFacts
<1>. QED
  BY <1>1, <1>2, <1>3, KidFacts

LEMMA PhysicalIsTable ==
  ASSUME q \in Statements, CteNamesDistinct, NEW n \in Nodes
  PROVE  IsPhysical(n) <=> IsTable(n)
BY CteOfDenoted DEF IsPhysical, IsTable

-----------------------------------------------------------------------------
(* The stack of the resolver.                                                *)

(* Each query on the stack is one of the query before it, or a CTE.          *)
StackOK ==
  /\ stack \in Seq(QueryNodes)
  /\ \A i, j \in 1 .. Len(stack) : stack[i] = stack[j] => i = j
  /\ stack # <<>> => stack[1] = Root
  /\ \A i \in 2 .. Len(stack) : q[stack[i]].place # "cte" => q[stack[i]].up = stack[i - 1]

LEMMA StackFacts ==
  ASSUME StackOK
  PROVE  /\ Len(stack) \in Nat /\ Resolving = {stack[i] : i \in 1 .. Len(stack)}
         /\ Resolving \subseteq QueryNodes
         /\ stack = <<>> => Resolving = {}
         /\ stack # <<>> => /\ Len(stack) # 0 /\ Top = stack[Len(stack)]
                            /\ Top \in Resolving /\ Root \in Resolving
<1>1. stack \in Seq(QueryNodes) /\ Len(stack) \in Nat /\ DOMAIN stack = 1 .. Len(stack)
  BY DEF StackOK
<1>2. Resolving = {stack[i] : i \in 1 .. Len(stack)}
  BY <1>1 DEF Resolving, ToSet
<1>3. \A i \in 1 .. Len(stack) : stack[i] \in QueryNodes
  BY <1>1
<1>4. stack = <<>> => Resolving = {}
  BY <1>2
<1>5. ASSUME stack # <<>>
      PROVE  /\ Len(stack) # 0 /\ Top = stack[Len(stack)]
             /\ Top \in Resolving /\ Root \in Resolving
  <2>1. Len(stack) # 0
    BY <1>1, <1>5, EmptySeq
  <2>2. 1 \in 1 .. Len(stack) /\ Len(stack) \in 1 .. Len(stack)
    BY <1>1, <2>1
  <2>3. Top = stack[Len(stack)] /\ stack[1] = Root
    BY <1>5 DEF Top, Last, StackOK
  <2>. QED
    BY <1>2, <2>1, <2>2, <2>3
<1>. QED
  BY <1>1, <1>2, <1>3, <1>4, <1>5

(* A query that comes on the stack is one of Top, or a CTE.                  *)
LEMMA EnterKeepsStack ==
  ASSUME StackOK, stack # <<>>, NEW k \in QueryNodes, k \notin Resolving,
         q[k].place # "cte" => q[k].up = Top,
         stack' = Append(stack, k), q' = q
  PROVE  /\ StackOK' /\ Resolving' = Resolving \union {k}
         /\ Last(stack') = k /\ Len(stack') = Len(stack) + 1
<1>. DEFINE n == Len(stack)
            new == Append(stack, k)
<1>1. stack \in Seq(QueryNodes) /\ n \in Nat /\ n # 0
  BY StackFacts DEF StackOK
<1>2. /\ new \in Seq(QueryNodes) /\ Len(new) = n + 1
      /\ \A i \in 1 .. n : new[i] = stack[i]
      /\ new[n + 1] = k
  BY <1>1, AppendProperties
<1>3. QueryNodes' = QueryNodes
  BY DEF QueryNodes, Nodes
<1>4. Resolving = {stack[i] : i \in 1 .. n} /\ Top = stack[n]
  BY StackFacts
<1>. HIDE DEF n, new
<1>5. \A i \in 1 .. n + 1 : i \in 1 .. n \/ i = n + 1
  BY <1>1
<1>6. \A i, j \in 1 .. n + 1 : new[i] = new[j] => i = j
  <2>1. \A i \in 1 .. n : new[i] # k
    BY <1>2, <1>4
  <2>2. \A i, j \in 1 .. n : new[i] = new[j] => i = j
    BY <1>2 DEF StackOK, n
  <2>. QED
    BY <1>2, <1>5, <2>1, <2>2
<1>7. new[1] = Root
  BY <1>1, <1>2 DEF StackOK
<1>8. ASSUME NEW i \in 2 .. n + 1, q[new[i]].place # "cte" PROVE q[new[i]].up = new[i - 1]
  <2>1. CASE i = n + 1
    <3>1. i - 1 = n /\ n \in 1 .. n
      BY <1>1, <2>1
    <3>. QED
      BY <1>2, <1>4, <1>8, <2>1, <3>1
  <2>2. CASE i # n + 1
    <3>1. i \in 2 .. n /\ i \in 1 .. n /\ i - 1 \in 1 .. n
      BY <1>1, <2>2
    <3>2. q[stack[i]].place # "cte" => q[stack[i]].up = stack[i - 1]
      BY <3>1 DEF StackOK, n
    <3>. QED
      BY <1>2, <1>8, <3>1, <3>2
  <2>. QED
    BY <2>1, <2>2
<1>9. StackOK'
  <2>1. stack' = new
    BY DEF new
  <2>. QED
    BY <1>2, <1>3, <1>6, <1>7, <1>8, <2>1 DEF StackOK
<1>10. Resolving' = Resolving \union {k}
  <2>1. Resolving' = {new[i] : i \in 1 .. n + 1}
    BY <1>2 DEF Resolving, ToSet, new
  <2>2. n + 1 \in 1 .. n + 1 /\ \A i \in 1 .. n : i \in 1 .. n + 1
    BY <1>1
  <2>. QED
    BY <1>2, <1>4, <1>5, <2>1, <2>2
<1>11. Last(stack') = k
  BY <1>2 DEF Last, new
<1>. QED
  BY <1>2, <1>9, <1>10, <1>11 DEF n, new

LEMMA LeaveKeepsStack ==
  ASSUME StackOK, stack # <<>>, stack' = Front(stack), q' = q
  PROVE  /\ StackOK' /\ Resolving' = Resolving \ {Top}
         /\ Len(stack') < Len(stack)
<1>. DEFINE n == Len(stack)
            new == SubSeq(stack, 1, n - 1)
<1>1. stack \in Seq(QueryNodes) /\ n \in Nat /\ n # 0
  BY StackFacts DEF StackOK
<1>2. n - 1 \in Nat /\ n - 1 <= n /\ (1 .. n - 1) \subseteq (1 .. n)
  BY <1>1
<1>3. /\ new \in Seq(QueryNodes) /\ Len(new) = n - 1
      /\ \A i \in 1 .. n - 1 : new[i] = stack[i]
  <2>1. 1 \in Int /\ n - 1 \in Int /\ \A i \in 1 .. n - 1 : stack[i] \in QueryNodes
    BY <1>1, <1>2
  <2>2. /\ new \in Seq(QueryNodes) /\ Len(new) = (IF 1 <= n - 1 THEN (n - 1) - 1 + 1 ELSE 0)
        /\ \A i \in 1 .. (n - 1) - 1 + 1 : new[i] = stack[1 + i - 1]
    BY <2>1, SubSeqProperties
  <2>. HIDE DEF n, new
  <2>3. (n - 1) - 1 + 1 = n - 1 /\ \A i \in 1 .. n - 1 : 1 + i - 1 = i
    BY <1>1
  <2>. QED
    BY <1>1, <2>2, <2>3
<1>4. QueryNodes' = QueryNodes /\ stack' = new
  BY DEF QueryNodes, Nodes, Front
<1>5. Resolving = {stack[i] : i \in 1 .. n} /\ Top = stack[n]
  BY StackFacts
<1>6. \A i, j \in 1 .. n : stack[i] = stack[j] => i = j
  BY DEF StackOK
<1>7. \A i \in 2 .. n : q[stack[i]].place # "cte" => q[stack[i]].up = stack[i - 1]
  BY DEF StackOK
<1>8. new # <<>> => new[1] = Root
  <2>1. new # <<>> => Len(new) # 0
    BY <1>3, EmptySeq
  <2>2. new # <<>> => 1 \in 1 .. n - 1
    BY <1>2, <1>3, <2>1
  <2>. QED
    BY <1>1, <1>3, <2>2 DEF StackOK
<1>. HIDE DEF n, new
<1>9. \A i, j \in 1 .. n - 1 : new[i] = new[j] => i = j
  BY <1>2, <1>3, <1>6
<1>10. \A i \in 2 .. n - 1 : q[new[i]].place # "cte" => q[new[i]].up = new[i - 1]
  <2>1. \A i \in 2 .. n - 1 : i \in 2 .. n /\ i \in 1 .. n - 1 /\ i - 1 \in 1 .. n - 1
    BY <1>1
  <2>. QED
    BY <1>3, <1>7, <2>1
<1>11. StackOK'
  BY <1>3, <1>4, <1>8, <1>9, <1>10 DEF StackOK
<1>12. Resolving' = Resolving \ {Top}
  <2>1. Resolving' = {new[i] : i \in 1 .. n - 1}
    BY <1>3, <1>4 DEF Resolving, ToSet
  <2>2. \A i \in 1 .. n : i \in 1 .. n - 1 \/ i = n
    BY <1>1
  <2>3. n \in 1 .. n /\ n \notin 1 .. n - 1
    BY <1>1
  <2>. QED
    BY <1>2, <1>3, <1>5, <1>6, <2>1, <2>2, <2>3
<1>13. Len(stack') < n
  BY <1>1, <1>3, <1>4
<1>. QED
  BY <1>11, <1>12, <1>13 DEF n

(* What a query waits for is one of its own, or a CTE that a source reads.   *)
LEMMA InputFacts ==
  ASSUME q \in Statements, CteNamesDistinct, NEW b, NEW n \in Inputs(b), NEW k \in Reads(n)
  PROVE  /\ n \in Nodes /\ q[n].up = b /\ Reads(n) = {k} /\ Read(n) = k
         /\ k \in QueryNodes \ {Root}
         /\ q[k].place # "cte" => k = n
         /\ q[k].place = "cte" => n \in Sources(b) /\ DenotedCte(n) = {k}
<1>1. /\ n \in Sources(b) \/ n \in Kids(b, "branch") \/ n \in Kids(b, "list")
      /\ n \in Nodes \ {Root} /\ q[n].up = b /\ q[n].place # "cte"
  BY DEF Inputs, Sources, Kids
<1>2. CASE q[n].kind = "table"
  <2>1. k \in CteOf(n)
    BY <1>2 DEF Reads
  <2>2. CteOf(n) = {k} /\ DenotedCte(n) = {k} /\ k \in QueryNodes \ {Root} /\ q[k].place = "cte"
    BY <1>1, <2>1, CteOfFacts
  <2>3. n \in Sources(b)
    BY <1>1, <1>2, StatementFacts
  <2>. QED
    BY <1>1, <1>2, <2>2, <2>3 DEF Reads, Read
<1>3. CASE q[n].kind # "table"
  <2>1. Reads(n) = {n} /\ k = n /\ Read(n) = n
    BY <1>3 DEF Reads, Read
  <2>. QED
    BY <1>1, <1>3, <2>1 DEF QueryNodes
<1>. QED
  BY <1>2, <1>3


-----------------------------------------------------------------------------
(* Outputs and uses.                                                         *)

(* The names of an output are those it can be asked for by.                  *)
Answers(result) == DOMAIN result.byName = ToSet(result.names)

LEMMA OutputAnswers == \A cols : Answers(Output(cols))
BY DEF Answers, Output

LEMMA AliasedAnswers ==
  ASSUME NEW result, Answers(result), NEW names
  PROVE  Answers(Aliased(result, names))
BY OutputAnswers DEF Aliased

LEMMA MergedAnswers == \A b, left, right : Answers(Merged(b, left, right))
BY DEF Answers, Merged

(* A step records uses of the query it resolves.                             *)
LEMMA UsesAtQuery ==
  ASSUME NEW b, NEW result, NEW cols, NEW u \in ListUses(b, cols) \union ClauseUses(b, result) \union TargetUses(b)
  PROVE  u.at = b
<1>1. \A clause, ref, r : Use(b, clause, ref, r).at = b
  BY DEF Use
<1>2. CASE u \in ListUses(b, cols)
  BY <1>1, <1>2 DEF ListUses
<1>3. CASE \E clause : u \in OrdinalUses(b, clause, result)
  BY <1>1, <1>3 DEF OrdinalUses
<1>4. CASE \E clause \in ClausesOf(b) : \E ref \in References : \E r : u = Use(b, clause, ref, r)
  BY <1>1, <1>4
<1>5. CASE u \in TargetUses(b)
  <2>. DEFINE of(i, qualifier) ==
                {Use(b, "UPDATE_SET_TARGET", [position |-> i, qualifier |-> qualifier], r) :
                   r \in Assigned(b, qualifier, q[b].items[i].name)}
              at(i) == UNION {of(i, qualifier) : qualifier \in Qualifiers}
  <2>1. PICK i \in {i \in DOMAIN q[b].items : q[b].kind = "update"} : u \in at(i)
    BY <1>5 DEF TargetUses
  <2>2. PICK qualifier \in Qualifiers : u \in of(i, qualifier)
    BY <2>1
  <2>. QED
    BY <1>1, <2>2
<1>6. u \in ClauseUses(b, result) =>
        \/ \E clause : u \in OrdinalUses(b, clause, result)
        \/ \E clause \in ClausesOf(b) : \E ref \in References : \E r : u = Use(b, clause, ref, r)
  <2>. DEFINE of(clause, ref) == {Use(b, clause, ref, r) : r \in ReadAs(b, clause, ref, result)}
              in(clause) == UNION {of(clause, ref) : ref \in References}
              all == UNION {in(clause) : clause \in ClausesOf(b)}
              ordinals(clause) == OrdinalUses(b, clause, result)
              placed == UNION {ordinals(clause) : clause \in ClausesOf(b) \intersect {"GROUP BY", "ORDER BY"}}
  <2>1. ClauseUses(b, result) = all \union placed
    BY DEF ClauseUses
  <2>5. u \in placed => \E clause : u \in OrdinalUses(b, clause, result)
    OBVIOUS
  <2>2. \A clause, ref : u \in of(clause, ref) => \E r : u = Use(b, clause, ref, r)
    OBVIOUS
  <2>. HIDE DEF of
  <2>3. \A clause : u \in in(clause) => \E ref \in References : u \in of(clause, ref)
    OBVIOUS
  <2>. HIDE DEF in
  <2>4. u \in all => \E clause \in ClausesOf(b) : u \in in(clause)
    OBVIOUS
  <2>. HIDE DEF all, placed
  <2>. QED
    BY <2>1, <2>2, <2>3, <2>4, <2>5
<1>. QED
  BY <1>2, <1>3, <1>4, <1>5, <1>6

-----------------------------------------------------------------------------
(* The steps.                                                                *)

EnterQuery(k) ==
  /\ stack # <<>> /\ stack' = Append(stack, k)
  /\ \/ /\ Top \notin DOMAIN out
        /\ \E n \in Before(Top) : k = Read(n) /\ \A m \in Before(Top) : n <= m
     \/ Top \in DOMAIN out /\ k \in After(Top)
  /\ UNCHANGED <<q, metadata, flowOnly, out, tables, uses>>

ResolveQuery(result, new) ==
  /\ stack # <<>> /\ Top \notin DOMAIN out /\ Before(Top) = {}
  /\ Answers(result) /\ Memoize(result)
  /\ \A u \in new : u.at = Top
  /\ flowOnly => new = {}
  /\ uses' = uses \union new
  /\ tables' = tables \union TablesFrom(Top)
  /\ UNCHANGED <<q, metadata, flowOnly, stack>>

Restart ==
  /\ \/ NewResolver(<<>>)
     \/ q # <<>> /\ NewResolver(<<Root>>)
  /\ UNCHANGED <<q, metadata>>

ResolverStep ==
  \/ \E k : EnterQuery(k)
  \/ \E result, new : ResolveQuery(result, new)
  \/ Leave

AnalysisStep == ResolverStep \/ Restart \/ UNCHANGED vars

LEMMA EnterPicks ==
  ASSUME q \in Statements, NEW todo, Enter(todo), todo \subseteq Nodes
  PROVE  Min(todo) \in todo /\ \A n \in todo : Min(todo) <= n
<1>1. todo \in SUBSET Nat /\ todo # {}
  BY StatementFacts DEF Enter
<1>. QED
  BY <1>1, MinFacts

LEMMA SetOpHasNoTables ==
  ASSUME q \in Statements, NEW b, q[b].kind = "setop"
  PROVE  TablesFrom(b) = {}
<1>1. \A n \in Sources(b) : ~IsPhysical(n)
  <2>1. \A n \in Sources(b) : n \in Nodes /\ q[n].up = b
    BY KidFacts DEF Sources
  <2>. QED
    BY <2>1, StatementFacts DEF IsPhysical
<1>. QED
  BY <1>1 DEF TablesFrom

LEMMA ResolutionSteps ==
  ASSUME q \in Statements, CteNamesDistinct, Resolution
  PROVE  ResolverStep
<1>1. CASE EnterSource
  <2>. DEFINE n == Min(Before(Top))
  <2>1. Before(Top) \subseteq Nodes
    BY DEF Before, Inputs, Sources, Kids
  <2>2. Enter(Before(Top)) /\ stack # <<>> /\ Top \notin DOMAIN out
    BY <1>1 DEF EnterSource
  <2>3. n \in Before(Top) /\ \A m \in Before(Top) : n <= m
    BY <2>1, <2>2, EnterPicks
  <2>4. EnterQuery(Read(n))
    BY <2>2, <2>3 DEF EnterQuery, Enter
  <2>. QED
    BY <2>4 DEF ResolverStep
<1>2. CASE EnterClause
  <2>. DEFINE n == Min(After(Top))
  <2>1. After(Top) \subseteq Nodes
    BY DEF After, Kids
  <2>2. Enter(After(Top)) /\ stack # <<>> /\ Top \in DOMAIN out
    BY <1>2 DEF EnterClause
  <2>3. n \in After(Top)
    BY <2>1, <2>2, EnterPicks
  <2>4. Read(n) = n
    <3>1. n \in Kids(Top, "clause")
      BY <2>3 DEF After
    <3>2. q[n].kind # "table"
      BY <3>1, KidFacts DEF QueryNodes
    <3>. QED
      BY <3>2 DEF Read, Reads
  <2>5. EnterQuery(n)
    BY <2>2, <2>3, <2>4 DEF EnterQuery, Enter
  <2>. QED
    BY <2>5 DEF ResolverStep
<1>. DEFINE Kept(new) == IF flowOnly THEN {} ELSE new
<1>3. ASSUME NEW new, Record(new)
      PROVE  uses' = uses \union Kept(new) /\ (flowOnly => Kept(new) = {})
  BY <1>3 DEF Record
<1>4. CASE ResolveSelect
  <2>. DEFINE cols == Projected(Top)
              result == Aliased(Output(cols), q[Top].cols)
              new == ListUses(Top, cols) \union ClauseUses(Top, Output(cols))
  <2>1. /\ stack # <<>> /\ Top \notin DOMAIN out /\ Before(Top) = {}
        /\ Memoize(result) /\ Record(new)
        /\ tables' = tables \union TablesFrom(Top)
        /\ UNCHANGED <<q, metadata, flowOnly, stack>>
    BY <1>4 DEF ResolveSelect
  <2>2. Answers(result)
    BY OutputAnswers, AliasedAnswers
  <2>3. \A u \in new : u.at = Top
    BY UsesAtQuery
  <2>. HIDE DEF result, new
  <2>4. ResolveQuery(result, Kept(new))
    BY <1>3, <2>1, <2>2, <2>3 DEF ResolveQuery
  <2>. QED
    BY <2>4 DEF ResolverStep
<1>5. CASE ResolveSetOp
  <2>. DEFINE branch == InOrder(Kids(Top, "branch"))
              merged == Merged(Top, out[branch[1]], out[branch[2]])
              result == Aliased(merged, q[Top].cols)
              new == ClauseUses(Top, merged)
  <2>1. /\ stack # <<>> /\ Top \notin DOMAIN out /\ Before(Top) = {}
        /\ Memoize(result) /\ Record(new)
        /\ tables' = tables /\ q[Top].kind = "setop"
        /\ UNCHANGED <<q, metadata, flowOnly, stack>>
    BY <1>5 DEF ResolveSetOp
  <2>2. Answers(result)
    BY MergedAnswers, AliasedAnswers
  <2>3. \A u \in new : u.at = Top
    BY UsesAtQuery
  <2>4. tables' = tables \union TablesFrom(Top)
    BY <2>1, SetOpHasNoTables
  <2>. HIDE DEF result, new
  <2>5. ResolveQuery(result, Kept(new))
    BY <1>3, <2>1, <2>2, <2>3, <2>4 DEF ResolveQuery
  <2>. QED
    BY <2>5 DEF ResolverStep
<1>6. CASE ResolveDML
  <2>. DEFINE new == ListUses(Top, AssignedValues(Top)) \union TargetUses(Top) \union ClauseUses(Top, EmptyOut)
  <2>1. /\ stack # <<>> /\ Top \notin DOMAIN out /\ Before(Top) = {}
        /\ Memoize(EmptyOut) /\ Record(new)
        /\ tables' = tables \union TablesFrom(Top)
        /\ UNCHANGED <<q, metadata, flowOnly, stack>>
    BY <1>6 DEF ResolveDML
  <2>2. Answers(EmptyOut)
    BY OutputAnswers DEF EmptyOut
  <2>3. \A u \in new : u.at = Top
    BY UsesAtQuery
  <2>. HIDE DEF new
  <2>4. ResolveQuery(EmptyOut, Kept(new))
    BY <1>3, <2>1, <2>2, <2>3 DEF ResolveQuery
  <2>. QED
    BY <2>4 DEF ResolverStep
<1>7. CASE ResolveValueFlow
  <2>. DEFINE result == Output(AssignedValues(Top))
  <2>1. /\ stack # <<>> /\ Top \notin DOMAIN out /\ Before(Top) = {}
        /\ Memoize(result) /\ uses' = uses
        /\ tables' = tables \union TablesFrom(Top)
        /\ UNCHANGED <<q, metadata, flowOnly, stack>>
    BY <1>7 DEF ResolveValueFlow
  <2>2. Answers(result)
    BY OutputAnswers
  <2>. HIDE DEF result
  <2>3. ResolveQuery(result, {})
    BY <2>1, <2>2 DEF ResolveQuery
  <2>. QED
    BY <2>3 DEF ResolverStep
<1>8. CASE Leave
  BY <1>8 DEF ResolverStep
<1>. QED
  BY <1>1, <1>2, <1>4, <1>5, <1>6, <1>7, <1>8 DEF Resolution

(* LineageSourceColumns and ParseColumns run the resolver, start it anew or  *)
(* leave it as it is.                                                        *)
LEMMA AnalysisSteps ==
  ASSUME q \in Statements, CteNamesDistinct, [AnalysisNext]_analysisVars
  PROVE  AnalysisStep
<1>1. CASE Resolution
  BY <1>1, ResolutionSteps DEF AnalysisStep
<1>2. CASE Analyze
  <2>1. HasQuery \/ Kind \in {"update", "merge"} => q # <<>>
    BY DEF HasQuery, Kind
  <2>2. Restart
    BY <1>2, <2>1 DEF Analyze, Restart
  <2>. QED
    BY <2>2 DEF AnalysisStep
<1>3. CASE Inspect
  <2>1. q # <<>>
    BY <1>3 DEF Inspect, HasQuery, Kind
  <2>2. (\E a : Answered(a)) \/ (\E seq : Unresolved(seq))
    BY <1>3 DEF Inspect
  <2>3. UNCHANGED vars \/ Restart
    BY <2>1, <2>2 DEF Answered, Unresolved, Restart
  <2>. QED
    BY <2>3 DEF AnalysisStep
<1>4. CASE Credit \/ Analyzed \/ UNCHANGED analysisVars
  <2>1. UNCHANGED vars
    BY <1>4 DEF Credit, Analyzed, analysisVars, allVars
  <2>. QED
    BY <2>1 DEF AnalysisStep
<1>5. CASE ListedColumns \/ Recover
  <2>1. \E a : Answered(a)
    BY <1>5 DEF ListedColumns, Recover
  <2>2. UNCHANGED vars
    BY <2>1 DEF Answered
  <2>. QED
    BY <2>2 DEF AnalysisStep
<1>. QED
  BY <1>1, <1>2, <1>3, <1>4, <1>5 DEF AnalysisNext

-----------------------------------------------------------------------------
(* What is known of the resolver at each step.                               *)

TablesOfResolved == UNION {TablesFrom(b) : b \in DOMAIN out}

Sound ==
  /\ q \in Statements /\ TablesExist /\ CteNamesDistinct /\ metadata \in Metadatas
  /\ StackOK
  /\ DOMAIN out \subseteq QueryNodes
  /\ \A b \in DOMAIN out : Answers(out[b])
  /\ \A u \in uses : u.at \in DOMAIN out
  /\ flowOnly => uses = {}
  /\ tables = TablesOfResolved

LEMMA SoundInit == ASSUME Init PROVE Sound
<1>1. /\ q \in Statements /\ TablesExist /\ CteNamesDistinct /\ metadata \in Metadatas
      /\ stack = IF q = <<>> THEN <<>> ELSE <<Root>>
      /\ DOMAIN out = {} /\ tables = {} /\ uses = {}
  BY DEF Init, Meaningful
<1>2. stack = <<>> \/ (stack = <<Root>> /\ Root \in QueryNodes)
  BY <1>1, StatementFacts
<1>3. StackOK
  <2>1. CASE stack = <<>>
    BY <2>1 DEF StackOK
  <2>2. CASE stack = <<Root>> /\ Root \in QueryNodes
    <3>1. stack \in Seq(QueryNodes) /\ Len(stack) = 1 /\ stack[1] = Root
      BY <2>2
    <3>2. 2 .. 1 = {} /\ \A i, j \in 1 .. 1 : i = j
      OBVIOUS
    <3>. QED
      BY <3>1, <3>2 DEF StackOK
  <2>. QED
    BY <1>2, <2>1, <2>2
<1>4. TablesOfResolved = {}
  BY <1>1 DEF TablesOfResolved
<1>. QED
  BY <1>1, <1>3, <1>4 DEF Sound

(* A query that is taken up has no output and is not being resolved: one in  *)
(* a clause of Top is only ever followed by its own subqueries and by CTEs.  *)
LEMMA EnterIsNew ==
  ASSUME Sound, NEW k, EnterQuery(k)
  PROVE  /\ k \in QueryNodes \ {Root} /\ k \notin DOMAIN out \union Resolving
         /\ q[k].place # "cte" => q[k].up = Top
         /\ StackOK' /\ Resolving' = Resolving \union {k}
         /\ Last(stack') = k
<1>1. q \in Statements /\ CteNamesDistinct /\ StackOK /\ stack # <<>>
  BY DEF Sound, EnterQuery
<1>. DEFINE Fresh == /\ k \in QueryNodes \ {Root} /\ k \notin DOMAIN out \union Resolving
                     /\ q[k].place # "cte" => q[k].up = Top
<1>2. ASSUME NEW n \in Before(Top), k = Read(n) PROVE Fresh
  <2>1. PICK j \in Reads(n) : j \notin DOMAIN out \union Resolving
    BY DEF Before
  <2>2. n \in Inputs(Top)
    BY DEF Before
  <2>. QED
    BY <1>1, <1>2, <2>1, <2>2, InputFacts
<1>3. ASSUME k \in After(Top) PROVE Fresh
  <2>1. k \in Kids(Top, "clause") /\ k \notin DOMAIN out
    BY <1>3 DEF After
  <2>2. k \in QueryNodes \ {Root} /\ q[k].up = Top /\ q[k].place = "clause"
    BY <1>1, <2>1, KidFacts
  <2>3. ASSUME k \in Resolving PROVE FALSE
    <3>1. PICK i \in 1 .. Len(stack) : k = stack[i]
      BY <1>1, <2>3, StackFacts
    <3>2. i # 1 /\ Len(stack) \in Nat
      BY <1>1, <2>2, <3>1, StackFacts DEF StackOK
    <3>3. i \in 2 .. Len(stack) /\ i - 1 \in 1 .. Len(stack) /\ i - 1 # Len(stack) /\ Len(stack) \in 1 .. Len(stack)
      BY <3>1, <3>2
    <3>4. q[k].up = stack[i - 1]
      BY <1>1, <2>2, <3>1, <3>3 DEF StackOK
    <3>5. stack[i - 1] = stack[Len(stack)]
      BY <1>1, <2>2, <3>4, StackFacts
    <3>. QED
      BY <1>1, <3>3, <3>5 DEF StackOK
  <2>. QED
    BY <2>1, <2>2, <2>3
<1>4. Fresh
  BY <1>2, <1>3 DEF EnterQuery
<1>5. stack' = Append(stack, k) /\ q' = q
  BY DEF EnterQuery
<1>. QED
  BY <1>1, <1>4, <1>5, EnterKeepsStack

LEMMA TablesStay ==
  ASSUME q' = q
  PROVE  \A b : TablesFrom(b)' = TablesFrom(b)
BY StatementStays DEF TablesFrom

LEMMA ResolveAdds ==
  ASSUME NEW result, NEW new, ResolveQuery(result, new)
  PROVE  /\ DOMAIN out' = DOMAIN out \union {Top}
         /\ \A b \in DOMAIN out : out'[b] = out[b]
         /\ out'[Top] = result
<1>1. out' = [b \in DOMAIN out \union {Top} |-> IF b = Top THEN result ELSE out[b]] /\ Top \notin DOMAIN out
  BY DEF ResolveQuery, Memoize
<1>. QED
  BY <1>1

LEMMA SoundInductive ==
  ASSUME Sound, AnalysisStep
  PROVE  Sound'
<1>0. /\ q \in Statements /\ TablesExist /\ CteNamesDistinct /\ metadata \in Metadatas
      /\ StackOK /\ DOMAIN out \subseteq QueryNodes
      /\ tables = TablesOfResolved
  BY DEF Sound
<1>1. q' = q /\ metadata' = metadata
  BY DEF AnalysisStep, ResolverStep, EnterQuery, ResolveQuery, Leave, Restart, vars
<1>2. /\ q' \in Statements /\ TablesExist' /\ CteNamesDistinct' /\ metadata' \in Metadatas
      /\ QueryNodes' = QueryNodes
  BY <1>0, <1>1, StatementStays
<1>3. \A b : TablesFrom(b)' = TablesFrom(b)
  BY <1>1, TablesStay
<1>4. ASSUME out' = out PROVE TablesOfResolved' = TablesOfResolved
  BY <1>3, <1>4 DEF TablesOfResolved
<1>5. ASSUME StackOK', UNCHANGED <<out, flowOnly, tables, uses>> PROVE Sound'
  BY <1>0, <1>2, <1>4, <1>5 DEF Sound, Answers
<1>6. ASSUME NEW k, EnterQuery(k) PROVE Sound'
  <2>1. StackOK' /\ UNCHANGED <<out, flowOnly, tables, uses>>
    BY <1>6, EnterIsNew DEF EnterQuery
  <2>. QED
    BY <1>5, <2>1
<1>7. CASE Leave
  <2>1. StackOK' /\ UNCHANGED <<out, flowOnly, tables, uses>>
    BY <1>0, <1>1, <1>7, LeaveKeepsStack DEF Leave
  <2>. QED
    BY <1>5, <2>1
<1>8. CASE UNCHANGED vars
  <2>1. stack' = stack /\ UNCHANGED <<out, flowOnly, tables, uses>>
    BY <1>8 DEF vars, resolver
  <2>2. StackOK'
    BY <1>0, <1>1, <1>2, <2>1 DEF StackOK
  <2>. QED
    BY <1>5, <2>1, <2>2
<1>9. CASE Restart
  <2>1. /\ stack' = <<>> \/ (stack' = <<Root>> /\ Root \in QueryNodes)
        /\ DOMAIN out' = {} /\ uses' = {} /\ tables' = {}
    BY <1>0, <1>9, StatementFacts DEF Restart, NewResolver
  <2>2. StackOK'
    <3>1. CASE stack' = <<>>
      BY <1>2, <3>1 DEF StackOK
    <3>2. CASE stack' = <<Root>> /\ Root \in QueryNodes
      <4>1. stack' \in Seq(QueryNodes) /\ Len(stack') = 1 /\ stack'[1] = Root
        BY <3>2
      <4>2. 2 .. 1 = {} /\ \A i, j \in 1 .. 1 : i = j
        OBVIOUS
      <4>. QED
        BY <1>2, <4>1, <4>2 DEF StackOK
    <3>. QED
      BY <2>1, <3>1, <3>2
  <2>3. TablesOfResolved' = {}
    BY <2>1 DEF TablesOfResolved
  <2>. QED
    BY <1>2, <2>1, <2>2, <2>3 DEF Sound
<1>10. ASSUME NEW result, NEW new, ResolveQuery(result, new) PROVE Sound'
  <2>1. /\ DOMAIN out' = DOMAIN out \union {Top}
        /\ \A b \in DOMAIN out : out'[b] = out[b]
        /\ out'[Top] = result
    BY <1>10, ResolveAdds
  <2>2. /\ stack # <<>> /\ stack' = stack /\ flowOnly' = flowOnly /\ Answers(result)
        /\ \A u \in new : u.at = Top
        /\ flowOnly => new = {}
        /\ uses' = uses \union new
        /\ tables' = tables \union TablesFrom(Top)
    BY <1>10 DEF ResolveQuery
  <2>3. Top \in QueryNodes /\ DOMAIN out' \subseteq QueryNodes'
    BY <1>0, <1>2, <2>1, <2>2, StackFacts
  <2>4. StackOK'
    BY <1>0, <1>1, <1>2, <2>2 DEF StackOK
  <2>5. tables' = TablesOfResolved'
    <3>. DEFINE T == Top
    <3>1. TablesOfResolved' = UNION {TablesFrom(b) : b \in DOMAIN out \union {T}}
      BY <1>3, <2>1 DEF TablesOfResolved
    <3>2. tables' = (UNION {TablesFrom(b) : b \in DOMAIN out}) \union TablesFrom(T)
      BY <1>0, <2>2 DEF TablesOfResolved
    <3>. HIDE DEF T
    <3>3. UNION {TablesFrom(b) : b \in DOMAIN out \union {T}}
            = (UNION {TablesFrom(b) : b \in DOMAIN out}) \union TablesFrom(T)
      OBVIOUS
    <3>. QED
      BY <3>1, <3>2, <3>3
  <2>6. \A b \in DOMAIN out' : Answers(out'[b])
    BY <2>1, <2>2 DEF Sound, Answers
  <2>7. \A u \in uses' : u.at \in DOMAIN out'
    BY <2>1, <2>2 DEF Sound
  <2>8. flowOnly' => uses' = {}
    BY <2>2 DEF Sound
  <2>9. (\A b \in DOMAIN out : Answers(out[b]))'
    BY <2>6 DEF Answers
  <2>. QED
    BY <1>2, <2>3, <2>4, <2>5, <2>7, <2>8, <2>9 DEF Sound
<1>. QED
  BY <1>6, <1>7, <1>8, <1>9, <1>10 DEF AnalysisStep, ResolverStep

LEMMA SoundAlways == AnalysisSpec => []Sound
<1>1. ColumnsInit => Sound
  BY SoundInit DEF ColumnsInit, LineageInit
<1>2. Sound /\ [AnalysisNext]_analysisVars => Sound'
  BY AnalysisSteps, SoundInductive DEF Sound
<1>. QED
  BY <1>1, <1>2, PTL DEF AnalysisSpec

(* For every statement, metadata and definition: outputs can be asked for by *)
(* the names they list, and the tables found exist.                          *)
THEOREM AnalysisTypeCorrect == AnalysisSpec => []TypeOK
<1>1. Sound => TypeOK
  <2>. SUFFICES ASSUME Sound PROVE TypeOK
    OBVIOUS
  <2>1. /\ q \in Statements /\ TablesExist /\ CteNamesDistinct /\ metadata \in Metadatas
        /\ DOMAIN out \subseteq QueryNodes /\ tables = TablesOfResolved
        /\ Resolving \subseteq QueryNodes
    BY StackFacts DEF Sound
  <2>2. \A b \in DOMAIN out : DOMAIN out[b].byName = ToSet(out[b].names)
    BY DEF Sound, Answers
  <2>3. ASSUME NEW b, NEW t \in TablesFrom(b) PROVE t \in DOMAIN Actual
    <3>1. PICK n \in Sources(b) : IsPhysical(n) /\ t = q[n].name
      BY <2>3 DEF TablesFrom
    <3>2. n \in Nodes
      BY <2>1, <3>1, KidFacts DEF Sources
    <3>. QED
      BY <2>1, <3>1, <3>2, PhysicalIsTable DEF TablesExist
  <2>4. tables \subseteq DOMAIN Actual
    BY <2>1, <2>3 DEF TablesOfResolved
  <2>5. (\A u \in uses : u.at \in DOMAIN out) /\ (flowOnly => uses = {})
    BY DEF Sound
  <2>. QED
    BY <2>1, <2>2, <2>4, <2>5 DEF TypeOK, Resolving
<1>. QED
  BY <1>1, SoundAlways, PTL

(* In no statement is a query taken up twice by one run of the resolver,     *)
(* though it is read by several others or by itself.                         *)
THEOREM QueriesAreResolvedOnce == AnalysisSpec => ResolvedOnce
<1>. DEFINE Fresh == stack # <<>> /\ Len(stack') > Len(stack) => Last(stack') \notin DOMAIN out \union Resolving
<1>1. ASSUME Sound, AnalysisStep PROVE Fresh
  <2>1. ASSUME NEW k, EnterQuery(k) PROVE Fresh
    BY <1>1, <2>1, EnterIsNew
  <2>2. Len(stack) \in Nat /\ (stack # <<>> => Len(stack) # 0)
    BY <1>1, StackFacts DEF Sound
  <2>3. CASE Leave
    <3>1. Len(stack') < Len(stack) /\ Len(stack') \in Nat
      <4>1. Len(stack') < Len(stack) /\ StackOK'
        BY <1>1, <2>3, LeaveKeepsStack DEF Leave, Sound
      <4>. QED
        BY <4>1 DEF StackOK
    <3>. QED
      BY <2>2, <3>1
  <2>4. CASE Restart
    <3>1. Len(stack') \in {0, 1}
      BY <2>4 DEF Restart, NewResolver
    <3>2. \A new \in {0, 1}, old \in Nat : old # 0 => ~(new > old)
      OBVIOUS
    <3>3. stack # <<>> => ~(Len(stack') > Len(stack))
      BY <2>2, <3>1, <3>2, Zenon
    <3>. QED
      BY <3>3
  <2>5. CASE stack' = stack
    BY <2>2, <2>5
  <2>6. \A result, new : ResolveQuery(result, new) => stack' = stack
    BY DEF ResolveQuery
  <2>7. UNCHANGED vars => stack' = stack
    BY DEF vars, resolver
  <2>. HIDE DEF Fresh
  <2>. QED
    BY <1>1, <2>1, <2>3, <2>4, <2>5, <2>6, <2>7 DEF AnalysisStep, ResolverStep
<1>2. Sound /\ [AnalysisNext]_analysisVars => [Fresh]_vars
  BY <1>1, AnalysisSteps DEF Sound
<1>3. AnalysisSpec => [][Fresh]_vars
  BY <1>2, SoundAlways, PTL DEF AnalysisSpec
<1>. QED
  BY <1>3 DEF ResolvedOnce

-----------------------------------------------------------------------------
(* What is resolved is what is read.                                         *)

ReadFrom(b, readers) ==
  \/ b = Root
  \/ q[b].place # "cte" /\ q[b].up \in readers
  \/ \E n \in Nodes : DenotedCte(n) = {b} /\ q[n].up \in readers

TakenUp == DOMAIN out \union Resolving

(* Whatever is taken up is read, and whatever a query reads is taken up      *)
(* before the query is left.                                                 *)
Followed ==
  /\ \A b \in TakenUp : ReadFrom(b, TakenUp)
  /\ \A b \in DOMAIN out : \A n \in Inputs(b) : Reads(n) \subseteq TakenUp
  /\ ~flowOnly => \A b \in DOMAIN out \ Resolving : Kids(b, "clause") \subseteq DOMAIN out
  /\ ~flowOnly /\ q # <<>> => Root \in TakenUp

LEMMA ReadFromMore ==
  ASSUME NEW b, NEW readers, NEW more, readers \subseteq more, ReadFrom(b, readers)
  PROVE  ReadFrom(b, more)
BY DEF ReadFrom

LEMMA ReadFromStays ==
  ASSUME q' = q
  PROVE  \A b, readers : ReadFrom(b, readers) => ReadFrom(b, readers)'
BY StatementStays DEF ReadFrom

LEMMA FollowedInit == ASSUME Init PROVE Followed
<1>1. DOMAIN out = {} /\ stack = IF q = <<>> THEN <<>> ELSE <<Root>>
  BY DEF Init
<1>2. TakenUp = IF q = <<>> THEN {} ELSE {Root}
  <2>1. Resolving = IF q = <<>> THEN {} ELSE {Root}
    BY <1>1 DEF Resolving, ToSet
  <2>. QED
    BY <1>1, <2>1 DEF TakenUp
<1>. QED
  BY <1>1, <1>2 DEF Followed, ReadFrom

LEMMA FollowedInductive ==
  ASSUME Sound, Followed, AnalysisStep
  PROVE  Followed'
<1>0. q \in Statements /\ CteNamesDistinct /\ StackOK
  BY DEF Sound
<1>1. q' = q
  BY DEF AnalysisStep, ResolverStep, EnterQuery, ResolveQuery, Leave, Restart, vars
<1>2. /\ \A b : Inputs(b)' = Inputs(b)
      /\ \A n : Reads(n)' = Reads(n)
      /\ \A b : Kids(b, "clause")' = Kids(b, "clause")
  BY <1>1, StatementStays
<1>3. ASSUME NEW k, EnterQuery(k) PROVE Followed'
  <2>1. /\ stack # <<>> /\ out' = out /\ flowOnly' = flowOnly
        /\ Resolving' = Resolving \union {k} /\ TakenUp' = TakenUp \union {k}
    BY <1>3, EnterIsNew DEF EnterQuery, TakenUp
  <2>2. Top \in TakenUp
    BY <1>0, <2>1, StackFacts DEF TakenUp
  <2>3. ReadFrom(k, TakenUp)
    <3>1. CASE q[k].place # "cte"
      BY <1>3, <2>2, <3>1, EnterIsNew DEF ReadFrom
    <3>2. CASE q[k].place = "cte"
      <4>1. k \notin Kids(Top, "clause")
        BY <3>2 DEF Kids
      <4>2. PICK n \in Before(Top) : k = Read(n)
        BY <1>3, <4>1 DEF EnterQuery, After
      <4>3. n \in Sources(Top) /\ DenotedCte(n) = {k}
        <5>1. n \in Inputs(Top) /\ \E j : j \in Reads(n)
          BY DEF Before
        <5>. QED
          BY <1>0, <3>2, <4>2, <5>1, InputFacts
      <4>4. n \in Nodes /\ q[n].up = Top
        BY <4>3 DEF Sources, Kids
      <4>. QED
        BY <2>2, <4>3, <4>4 DEF ReadFrom
    <3>. QED
      BY <3>1, <3>2
  <2>4. \A b \in TakenUp' : ReadFrom(b, TakenUp')
    BY <2>1, <2>3, ReadFromMore DEF Followed
  <2>5. (\A b \in TakenUp : ReadFrom(b, TakenUp))'
    BY <1>1, <2>4, ReadFromStays
  <2>. QED
    BY <1>1, <1>2, <2>1, <2>5 DEF Followed
<1>4. ASSUME NEW result, NEW new, ResolveQuery(result, new) PROVE Followed'
  <2>1. /\ stack # <<>> /\ stack' = stack /\ flowOnly' = flowOnly /\ Resolving' = Resolving
        /\ DOMAIN out' = DOMAIN out \union {Top}
    BY <1>4, ResolveAdds DEF ResolveQuery, Resolving
  <2>2. Top \in Resolving
    BY <1>0, <2>1, StackFacts
  <2>3. TakenUp' = TakenUp
    BY <2>1, <2>2 DEF TakenUp
  <2>4. \A n \in Inputs(Top) : Reads(n) \subseteq TakenUp
    BY <1>4 DEF ResolveQuery, Before, TakenUp
  <2>5. (\A b \in TakenUp : ReadFrom(b, TakenUp))'
    BY <1>1, <2>3, ReadFromStays DEF Followed
  <2>. QED
    BY <1>1, <1>2, <2>1, <2>2, <2>3, <2>4, <2>5 DEF Followed
<1>5. CASE Leave
  <2>1. /\ stack # <<>> /\ out' = out /\ flowOnly' = flowOnly /\ Top \in DOMAIN out /\ After(Top) = {}
        /\ Resolving' = Resolving \ {Top}
    BY <1>0, <1>1, <1>5, LeaveKeepsStack DEF Leave
  <2>2. TakenUp' = TakenUp
    BY <2>1 DEF TakenUp
  <2>3. ~flowOnly => Kids(Top, "clause") \subseteq DOMAIN out
    BY <2>1 DEF After
  <2>4. (\A b \in TakenUp : ReadFrom(b, TakenUp))'
    BY <1>1, <2>2, ReadFromStays DEF Followed
  <2>. QED
    BY <1>1, <1>2, <2>1, <2>2, <2>3, <2>4 DEF Followed
<1>6. CASE Restart
  <2>1. /\ flowOnly' /\ DOMAIN out' = {}
        /\ stack' = <<>> \/ stack' = <<Root>>
    BY <1>6 DEF Restart, NewResolver
  <2>2. TakenUp' \subseteq {Root}
    <3>1. Resolving' \subseteq {Root}
      BY <2>1 DEF Resolving, ToSet
    <3>. QED
      BY <2>1, <3>1 DEF TakenUp
  <2>. QED
    BY <2>1, <2>2 DEF Followed, ReadFrom
<1>7. CASE UNCHANGED vars
  <2>1. out' = out /\ flowOnly' = flowOnly /\ Resolving' = Resolving /\ TakenUp' = TakenUp
    BY <1>7 DEF vars, resolver, Resolving, TakenUp
  <2>2. (\A b \in TakenUp : ReadFrom(b, TakenUp))'
    BY <1>1, <2>1, ReadFromStays DEF Followed
  <2>. QED
    BY <1>1, <1>2, <2>1, <2>2 DEF Followed
<1>. QED
  BY <1>3, <1>4, <1>5, <1>6, <1>7 DEF AnalysisStep, ResolverStep

LEMMA FollowedAlways == AnalysisSpec => []Followed
<1>1. ColumnsInit => Followed
  BY FollowedInit DEF ColumnsInit, LineageInit
<1>2. Sound /\ Followed /\ [AnalysisNext]_analysisVars => Followed'
  BY AnalysisSteps, FollowedInductive DEF Sound
<1>. QED
  BY <1>1, <1>2, SoundAlways, PTL DEF AnalysisSpec

(* What is resolved in the end is what is read, and the tables found are     *)
(* those in it.                                                              *)
TablesFollow ==
  Ended =>
    /\ \A b \in QueryNodes : b \in DOMAIN out <=> IsRead(b)
    /\ tables = {q[n].name : n \in {n \in Nodes : IsTable(n) /\ q[n].up \in DOMAIN out}}

LEMMA TablesFollowAlways == AnalysisSpec => []TablesFollow
<1>1. Sound /\ Followed => TablesFollow
  <2>. SUFFICES ASSUME Sound, Followed, Ended
                PROVE  /\ \A b \in QueryNodes : b \in DOMAIN out <=> IsRead(b)
                       /\ tables = {q[n].name : n \in {n \in Nodes : IsTable(n) /\ q[n].up \in DOMAIN out}}
    BY DEF TablesFollow
  <2>1. q \in Statements /\ CteNamesDistinct /\ StackOK /\ tables = TablesOfResolved
    BY DEF Sound
  <2>2. stack = <<>> /\ ~flowOnly /\ TakenUp = DOMAIN out /\ Resolving = {}
    BY <2>1, StackFacts DEF Ended, TakenUp
  <2>3. \A b : IsRead(b) <=> ReadFrom(b, DOMAIN out)
    BY DEF IsRead, ReadFrom
  <2>4. ASSUME NEW b \in QueryNodes, ReadFrom(b, DOMAIN out) PROVE b \in DOMAIN out
    <3>1. CASE b = Root
      <4>1. q # <<>>
        BY <3>1 DEF QueryNodes, Nodes
      <4>. QED
        BY <2>2, <3>1, <4>1 DEF Followed
    <3>2. CASE b # Root /\ q[b].place # "cte" /\ q[b].up \in DOMAIN out
      <4>. DEFINE u == q[b].up
      <4>1. (\A n \in Inputs(u) : Reads(n) \subseteq DOMAIN out) /\ Kids(u, "clause") \subseteq DOMAIN out
        BY <2>2, <3>2 DEF Followed
      <4>2. b \in Kids(u, q[b].place)
        BY <3>2 DEF Kids, QueryNodes
      <4>3. q[b].place \in {"from", "list", "clause", "branch"} /\ q[b].kind # "table"
        <5>1. q[b] \in ParsedNodes
          BY <2>1, StatementsAssumption DEF QueryNodes, Nodes
        <5>2. q[b].place \in {"cte", "from", "list", "clause", "branch"}
          BY <5>1 DEF ParsedNodes
        <5>. QED
          BY <3>2, <5>2 DEF QueryNodes
      <4>. HIDE DEF u
      <4>4. q[b].place \in {"from", "list", "branch"} => b \in Inputs(u)
        BY <4>2 DEF Inputs, Sources
      <4>5. b \in Reads(b)
        BY <4>3 DEF Reads
      <4>. QED
        BY <4>1, <4>2, <4>3, <4>4, <4>5
    <3>3. CASE \E n \in Nodes : DenotedCte(n) = {b} /\ q[n].up \in DOMAIN out
      <4>1. PICK n \in Nodes : DenotedCte(n) = {b} /\ q[n].up \in DOMAIN out
        BY <3>3
      <4>2. q[n].kind = "table"
        BY <4>1 DEF DenotedCte, NamedLike
      <4>3. n \in Sources(q[n].up) /\ b \in CteOf(n)
        BY <2>1, <4>1, <4>2, StatementFacts, CteOfDenoted
      <4>4. n \in Inputs(q[n].up) /\ b \in Reads(n)
        BY <4>2, <4>3 DEF Inputs, Reads
      <4>. QED
        BY <2>2, <4>1, <4>4 DEF Followed
    <3>. QED
      BY <2>4, <3>1, <3>2, <3>3 DEF ReadFrom
  <2>5. \A b \in QueryNodes : b \in DOMAIN out <=> IsRead(b)
    BY <2>2, <2>3, <2>4 DEF Followed
  <2>. DEFINE found == {q[n].name : n \in {n \in Nodes : IsTable(n) /\ q[n].up \in DOMAIN out}}
  <2>6. ASSUME NEW t PROVE t \in TablesOfResolved <=> t \in found
    <3>1. \A b, n : n \in Sources(b) /\ IsPhysical(n) <=> n \in Nodes /\ q[n].up = b /\ IsTable(n)
      <4>1. ASSUME NEW b, NEW n, n \in Sources(b), IsPhysical(n) PROVE n \in Nodes /\ q[n].up = b /\ IsTable(n)
        <5>1. n \in Nodes /\ q[n].up = b
          BY <2>1, <4>1, KidFacts DEF Sources
        <5>. QED
          BY <2>1, <4>1, <5>1, PhysicalIsTable
      <4>2. ASSUME NEW n \in Nodes, IsTable(n) PROVE n \in Sources(q[n].up) /\ IsPhysical(n)
        <5>1. q[n].kind = "table"
          BY <4>2 DEF IsTable
        <5>. QED
          BY <2>1, <4>2, <5>1, StatementFacts, PhysicalIsTable
      <4>. QED
        BY <4>1, <4>2
    <3>2. t \in TablesOfResolved <=> \E b \in DOMAIN out : \E n \in Sources(b) : IsPhysical(n) /\ t = q[n].name
      BY DEF TablesOfResolved, TablesFrom
    <3>3. t \in found <=> \E n \in Nodes : IsTable(n) /\ q[n].up \in DOMAIN out /\ t = q[n].name
      OBVIOUS
    <3>. QED
      BY <3>1, <3>2, <3>3
  <2>7. tables = found
    BY <2>1, <2>6
  <2>. QED
    BY <2>5, <2>7
<1>. QED
  BY <1>1, SoundAlways, FollowedAlways, PTL

(* At the end of ReferencedColumns every query that is read has been         *)
(* resolved, and every physical table in one of these is among the tables    *)
(* found, whatever CTEs shadow, read or repeat one another; nothing else is  *)
(* that is not a physical table of the statement.                            *)
THEOREM TablesAreAllPresent == AnalysisSpec => []TablesPresent
<1>1. TablesFollow => TablesPresent
  <2>. SUFFICES ASSUME TablesFollow, Ended PROVE TablesPresent
    BY DEF TablesPresent
  <2>. DEFINE found == {q[n].name : n \in {n \in Nodes : IsTable(n) /\ q[n].up \in DOMAIN out}}
              all == {q[n].name : n \in {n \in Nodes : IsTable(n)}}
  <2>1. (\A b \in QueryNodes : b \in DOMAIN out <=> IsRead(b)) /\ tables = found
    BY DEF TablesFollow
  <2>2. found \subseteq all
    OBVIOUS
  <2>. QED
    BY <2>1, <2>2 DEF TablesPresent
<1>. QED
  BY <1>1, TablesFollowAlways, PTL

-----------------------------------------------------------------------------
(* The resolver ends.                                                        *)

(* What lies ahead of it: each query is taken up, resolved and left.         *)
WorkLeft ==
  LET toTakeUp  == QueryNodes \ (DOMAIN out \union Resolving)
      toResolve == QueryNodes \ DOMAIN out
      toLeave   == QueryNodes \ (DOMAIN out \ Resolving)
  IN  Cardinality(toTakeUp) + Cardinality(toResolve) + Cardinality(toLeave)

LEMMA QueriesFinite ==
  ASSUME q \in Statements
  PROVE  \A S : S \subseteq QueryNodes => IsFiniteSet(S) /\ Cardinality(S) \in Nat
<1>1. IsFiniteSet(1 .. Len(q)) /\ QueryNodes \subseteq 1 .. Len(q)
  <2>1. Len(q) \in Nat /\ Nodes = 1 .. Len(q)
    BY StatementFacts
  <2>. QED
    BY <2>1, FS_Interval DEF QueryNodes
<1>. QED
  <2>1. ASSUME NEW S, S \subseteq QueryNodes PROVE IsFiniteSet(S) /\ Cardinality(S) \in Nat
    <3>1. S \in SUBSET (1 .. Len(q))
      BY <1>1, <2>1
    <3>2. IsFiniteSet(S)
      BY <1>1, <3>1, FS_Subset
    <3>. QED
      BY <3>2, FS_CardinalityType
  <2>. QED
    BY <2>1

(* One element less is one less to do.                                       *)
LEMMA OneLess ==
  ASSUME NEW S, IsFiniteSet(S), Cardinality(S) \in Nat, NEW x \in S
  PROVE  Cardinality(S \ {x}) \in Nat /\ Cardinality(S \ {x}) < Cardinality(S)
<1>1. Cardinality(S \ {x}) = Cardinality(S) - 1 /\ IsFiniteSet(S \ {x})
  BY FS_RemoveElement
<1>2. Cardinality(S \ {x}) \in Nat
  BY <1>1, FS_CardinalityType
<1>. QED
  BY <1>1, <1>2

(* Every step of the resolver leaves less to do, so whatever the statement   *)
(* and however its CTEs read one another, a run of it has at most three      *)
(* steps for each query.                                                     *)
THEOREM ResolverEnds ==
  AnalysisSpec => [](WorkLeft \in Nat) /\ [][Resolution => WorkLeft' < WorkLeft]_vars
<1>. DEFINE toTakeUp == QueryNodes \ (DOMAIN out \union Resolving)
            toResolve == QueryNodes \ DOMAIN out
            toLeave == QueryNodes \ (DOMAIN out \ Resolving)
<1>1. WorkLeft = Cardinality(toTakeUp) + Cardinality(toResolve) + Cardinality(toLeave)
  BY DEF WorkLeft
<1>2. Sound => /\ Cardinality(toTakeUp) \in Nat /\ IsFiniteSet(toTakeUp)
               /\ Cardinality(toResolve) \in Nat /\ IsFiniteSet(toResolve)
               /\ Cardinality(toLeave) \in Nat /\ IsFiniteSet(toLeave)
  <2>1. toTakeUp \subseteq QueryNodes /\ toResolve \subseteq QueryNodes /\ toLeave \subseteq QueryNodes
    OBVIOUS
  <2>. QED
    BY <2>1, QueriesFinite DEF Sound
<1>3. Sound => WorkLeft \in Nat
  <2>. HIDE DEF toTakeUp, toResolve, toLeave
  <2>. QED
    BY <1>1, <1>2
<1>4. ASSUME Sound, Resolution PROVE WorkLeft' < WorkLeft
  <2>1. q \in Statements /\ CteNamesDistinct /\ StackOK /\ DOMAIN out \subseteq QueryNodes
    BY <1>4 DEF Sound
  <2>2. ResolverStep
    BY <1>4, <2>1, ResolutionSteps
  <2>3. QueryNodes' = QueryNodes
    <3>1. q' = q
      BY <2>2 DEF ResolverStep, EnterQuery, ResolveQuery, Leave
    <3>. QED
      BY <3>1, StatementStays
  <2>4. ASSUME NEW k, EnterQuery(k)
        PROVE  /\ k \in toTakeUp /\ toTakeUp' = toTakeUp \ {k}
               /\ toResolve' = toResolve /\ toLeave' = toLeave
    <3>1. k \in QueryNodes /\ k \notin DOMAIN out \union Resolving /\ Resolving' = Resolving \union {k}
      BY <1>4, <2>4, EnterIsNew
    <3>2. out' = out
      BY <2>4 DEF EnterQuery
    <3>. QED
      BY <2>3, <3>1, <3>2
  <2>5. ASSUME NEW result, NEW new, ResolveQuery(result, new)
        PROVE  /\ Top \in toResolve /\ toResolve' = toResolve \ {Top}
               /\ toTakeUp' = toTakeUp /\ toLeave' = toLeave
    <3>1. Top \in Resolving /\ Resolving \subseteq QueryNodes /\ Top \notin DOMAIN out
      BY <2>1, <2>5, StackFacts DEF ResolveQuery
    <3>2. DOMAIN out' = DOMAIN out \union {Top}
      BY <2>5, ResolveAdds
    <3>3. Resolving' = Resolving
      BY <2>5 DEF ResolveQuery, Resolving
    <3>. QED
      BY <2>3, <3>1, <3>2, <3>3
  <2>6. ASSUME Leave
        PROVE  /\ Top \in toLeave /\ toLeave' = toLeave \ {Top}
               /\ toTakeUp' = toTakeUp /\ toResolve' = toResolve
    <3>1. Top \in Resolving /\ Resolving \subseteq QueryNodes /\ Top \in DOMAIN out
      BY <2>1, <2>6, StackFacts DEF Leave
    <3>2. Resolving' = Resolving \ {Top} /\ out' = out
      BY <2>1, <2>6, LeaveKeepsStack DEF Leave
    <3>. QED
      BY <2>3, <3>1, <3>2
  <2>. DEFINE a == Cardinality(toTakeUp)
              b == Cardinality(toResolve)
              c == Cardinality(toLeave)
  <2>7. WorkLeft = a + b + c /\ WorkLeft' = a' + b' + c'
    BY DEF WorkLeft
  <2>8. \/ a' \in Nat /\ a' < a /\ b' = b /\ c' = c
        \/ b' \in Nat /\ b' < b /\ a' = a /\ c' = c
        \/ c' \in Nat /\ c' < c /\ a' = a /\ b' = b
    <3>. HIDE DEF toTakeUp, toResolve, toLeave
    <3>1. \/ \E k \in toTakeUp : toTakeUp' = toTakeUp \ {k} /\ toResolve' = toResolve /\ toLeave' = toLeave
          \/ \E k \in toResolve : toResolve' = toResolve \ {k} /\ toTakeUp' = toTakeUp /\ toLeave' = toLeave
          \/ \E k \in toLeave : toLeave' = toLeave \ {k} /\ toTakeUp' = toTakeUp /\ toResolve' = toResolve
      BY <2>2, <2>4, <2>5, <2>6 DEF ResolverStep
    <3>. QED
      BY <1>2, <1>4, <3>1, OneLess
  <2>9. a \in Nat /\ b \in Nat /\ c \in Nat
    BY <1>2, <1>4
  <2>. HIDE DEF a, b, c
  <2>. QED
    BY <2>7, <2>8, <2>9
<1>5. Sound /\ [AnalysisNext]_analysisVars => [Resolution => WorkLeft' < WorkLeft]_vars
  BY <1>4
<1>6. AnalysisSpec => [][Resolution => WorkLeft' < WorkLeft]_vars
  BY <1>5, SoundAlways, PTL DEF AnalysisSpec
<1>7. AnalysisSpec => [](WorkLeft \in Nat)
  BY <1>3, SoundAlways, PTL
<1>. QED
  BY <1>6, <1>7
=============================================================================
