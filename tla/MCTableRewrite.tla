---------------------------- MODULE MCTableRewrite ----------------------------
(***************************************************************************)
(* Statements for TLC: every tree of up to so many nodes over some tables.  *)
(* Each of its queries refers to every relation in every way it can.        *)
(***************************************************************************)
EXTENDS TableRewrite

CONSTANTS y, z, s, r, t, T, u, v, V, x

MCWords == {y, z, s, r, t, T, u, v, V, x}

MCFold == [w \in MCWords |-> CASE w = T -> t [] w = V -> v [] OTHER -> w]

Id(word) == [text |-> <<word>>, quoted |-> FALSE]

Quoted(word) == [text |-> <<word>>, quoted |-> TRUE]

Table(name) == [kind |-> "table", name |-> name, alias |-> <<>>]

Aliased(name, alias) == [kind |-> "table", name |-> name, alias |-> <<alias>>]

Query(place, alias, up) == [kind |-> "query", name |-> <<>>, alias |-> alias, up |-> up, place |-> place]

(* The nodes of a query come in the order of its clauses.                    *)
Rank == [cte |-> 1, from |-> 2, clause |-> 3]

OpenQueries(skel) ==
  LET Chain[n \in DOMAIN skel] == {n} \union IF n = Root THEN {} ELSE Chain[skel[n].up]
  IN  {b \in Chain[Len(skel)] : skel[b].kind = "query"}

KidsBefore(skel, b, place) ==
  \A n \in DOMAIN skel \ {Root} : skel[n].up = b => Rank[skel[n].place] <= Rank[place]

NodesIn(b, tables) ==
  {[up |-> b, place |-> "from"] @@ e : e \in tables}
    \union {Query("from", <<Id(t)>>, b), Query("cte", <<Id(t)>>, b), Query("clause", <<>>, b)}

StatementsOver(tables, nodes) ==
  LET Of[size \in 1 .. nodes] ==
        IF size = 1
          THEN {<<Query("clause", <<>>, Root)>>}
          ELSE UNION {{Append(skel, node) : node \in {node \in UNION {NodesIn(b, tables) : b \in OpenQueries(skel)} :
                                                  KidsBefore(skel, node.up, node.place)}} : skel \in Of[size - 1]}
  IN  {q0 \in UNION {Of[size] : size \in 1 .. nodes} :
         \E n \in DOMAIN q0 : q0[n].kind = "table" /\ Len(q0[n].name) > 1}

(* The same with a set operation in place of a query that is FROM nothing    *)
(* and has two subqueries.                                                   *)
SetOperation(skel, b) ==
  LET under == {n \in DOMAIN skel \ {Root} : skel[n].up = b}
  IN  /\ \A n \in under : skel[n].kind = "query" /\ skel[n].place # "from"
      /\ Cardinality({n \in under : skel[n].place = "clause"}) = 2

WithSetOperations(stmts) ==
  UNION {{[skel EXCEPT ![b].kind = "setop"] :
           b \in {n \in DOMAIN skel : skel[n].kind = "query" /\ SetOperation(skel, n)}} : skel \in stmts}

(* The plan: s.t and r.t are inlined, s.v becomes a union called u, r.v one  *)
(* called V.                                                                 *)
MCPlan ==
  (<<<<s>>, <<t>>>> :> <<>>) @@ (<<<<r>>, <<t>>>> :> <<>>)
    @@ (<<<<s>>, <<v>>>> :> <<<<u>>>>) @@ (<<<<r>>, <<v>>>> :> <<<<V>>>>)

MCStripped == {<<y>>}

S_T == <<Id(s), Id(t)>>
R_T == <<Id(r), Id(t)>>
S_V == <<Id(s), Id(v)>>
X   == <<Id(x)>>

(* Tables that clash by name, alias, schema and catalog.                     *)
ManyTables ==
  {Table(S_T), Table(R_T), Table(S_V), Table(<<Id(y)>> \o S_T), Table(<<Id(z)>> \o S_T),
   Table(<<Id(t)>>), Aliased(X, Id(t)), Aliased(X, Id(u)), Aliased(S_T, Id(x)),
   Aliased(X, [text |-> <<s, t>>, quoted |-> FALSE])}

FewTables == {Table(S_T), Table(R_T), Table(S_V), Aliased(X, Id(u))}

(* One table by two of its names.                                            *)
TwinTables == {Table(S_T), Table(<<Id(y)>> \o S_T)}

(* Tables that differ in letter case and quotes.                             *)
CasedTables ==
  {Table(S_T), Table(<<Id(s), Quoted(T)>>), Table(<<Id(s), Quoted(t)>>), Table(S_V),
   Table(<<Id(r), Id(v)>>), Table(<<Id(s), Quoted(V)>>), Table(<<Quoted(T)>>), Aliased(X, Quoted(T)),
   Aliased(X, Id(t)), Aliased(S_T, Quoted(T))}

(* The statements of the runs.                                               *)
ClashingStatements == StatementsOver(ManyTables, 4)

PlainStatements == StatementsOver(FewTables, 4)

AllStatements ==
  LET five == StatementsOver(FewTables, 5)
  IN  ClashingStatements \union five \union WithSetOperations(five)
        \union StatementsOver(TwinTables, 5) \union StatementsOver(CasedTables, 4)
=============================================================================
