------------------------- MODULE MCReferencedColumns --------------------------
(***************************************************************************)
(* Statements for TLC.                                                      *)
(***************************************************************************)
EXTENDS OutputColumns

A  == <<"a">>
SA == <<"s", "a">>
B  == <<"b">>
E  == <<"e">>

MCActual == (A :> <<"x", "y">>) @@ (SA :> <<"x", "z">>) @@ (B :> <<"y">>) @@ (E :> <<>>)

(* No metadata, all of it (with the catalog of one table), or some.          *)
MCMetadatas ==
  {[t \in {} |-> <<>>],
   (A :> MCActual[A]) @@ (<<"k", "s", "a">> :> MCActual[SA]) @@ (B :> MCActual[B]) @@ (E :> <<>>),
   (B :> MCActual[B]) @@ (E :> <<>>)}

Node == [kind |-> "table", name |-> <<>>, alias |-> "", cols |-> <<>>, up |-> 0,
         place |-> "from", rec |-> FALSE, union |-> TRUE, items |-> <<>>]

Table(name, alias) == [Node EXCEPT !.name = name, !.alias = alias]

Query(kind, place, alias, items) ==
  [Node EXCEPT !.kind = kind, !.place = place, !.alias = alias, !.items = items]

Column(qualifier, column, name) == [qualifier |-> qualifier, column |-> column, name |-> name]

Everything == <<Column(<<>>, "*", "")>>
X          == <<Column(<<>>, "x", "x")>>
XasY       == <<Column(<<>>, "x", "y")>>
Pair       == <<Column(<<>>, "x", "x"), Column(<<>>, "y", "y")>>
Swapped    == <<Column(<<>>, "y", "x"), Column(<<>>, "x", "y")>>
Expression == <<Column(<<>>, "x", ""), Column(<<>>, "y", "y")>>
Twice      == <<Column(<<>>, "x", "x"), Column(<<>>, "y", "x")>>

At(b, nodes) == {[n EXCEPT !.up = b] : n \in nodes}

(* Clauses come in the order WITH, FROM, WHERE.                              *)
Rank == [cte |-> 1, from |-> 2, list |-> 3, clause |-> 4, branch |-> 4]

Open(skel) ==
  LET In[n \in DOMAIN skel] == {n} \union IF n = 1 THEN {} ELSE In[skel[n].up]
  IN  {b \in In[Len(skel)] : skel[b].kind = "select"}

Follows(skel, x) ==
  \A n \in DOMAIN skel \ {1} : skel[n].up = x.up => Rank[skel[n].place] <= Rank[x.place]

Extended(skels, nodes) ==
  UNION {{Append(skel, x) : x \in {x \in UNION {At(b, nodes) : b \in Open(skel)} : Follows(skel, x)}} : skel \in skels}

With(skel, nodes) == {Append(skel, x) : x \in nodes}

(* Selects in selects.                                                       *)
Tables == {Table(A, ""), Table(SA, "f"), Table(SA, ""), Table(B, "")}

Subqueries ==
  {Query("select", "clause", "", X)} \union {Query("select", "from", "d", list) : list \in {Everything, XasY}}

Selects == {<<Query("select", "clause", "", list)>> : list \in {Everything, Expression}}

Nested ==
  LET two == Extended(Selects, Tables \union Subqueries)
      three == Extended(two, Tables \union Subqueries)
  IN  two \union three \union Extended({s \in three : s[1].items = Everything}, Tables \union Subqueries)

(* Three selects in one another, each with a table.                          *)
Deep ==
  {<<Query("select", "clause", "", Everything), [t[1] EXCEPT !.up = 1],
     [Query("select", p[1], IF p[1] = "from" THEN "d" ELSE "", XasY) EXCEPT !.up = 1], [t[2] EXCEPT !.up = 3],
     [Query("select", p[2], IF p[2] = "from" THEN "e" ELSE "", X) EXCEPT !.up = 3], [t[3] EXCEPT !.up = 5]>> :
     t \in [1 .. 3 -> Tables \ {Table(SA, "")}], p \in [1 .. 2 -> {"from", "clause"}]}

(* A WITH of one or two CTEs.                                                *)
CteNodes == {Table(<<"c">>, ""), Table(<<"c">>, "f"), Table(B, ""), Query("select", "clause", "", X),
             Query("select", "cte", "b", Everything), Query("select", "from", "d", Everything)}

Withs ==
  LET root == {<<[Query("select", "clause", "", list) EXCEPT !.rec = rec]>> :
                 list \in {Everything, X}, rec \in BOOLEAN}
      cte == {[Query("select", "cte", "c", p[1]) EXCEPT !.cols = p[2], !.up = 1] :
                p \in {<<Everything, <<>>>>, <<Everything, <<"y", "x">>>>, <<XasY, <<>>>>}}
      start == UNION {UNION {With(s, At(2, {Table(A, ""), Table(B, "")})) : s \in With(r, cte)} : r \in root}
      four == Extended(start, CteNodes)
      five == Extended(four, CteNodes)
  IN  four \union five \union UNION {With(s, At(1, {Table(<<"c">>, ""), Table(B, "")})) : s \in {s \in five : s[4].place = "cte"}}

(* Set operations.                                                           *)
Branches(b, k) ==
  {<<[Query("select", "branch", "", l) EXCEPT !.up = b], [t EXCEPT !.up = k],
     [Query("select", "branch", "", m) EXCEPT !.up = b], [u EXCEPT !.up = k + 2]>> :
     l \in {Everything, Pair, Expression}, m \in {Everything, Swapped},
     t \in {Table(A, ""), Table(<<"c">>, "")}, u \in {Table(SA, ""), Table(B, ""), Table(<<"c">>, "")}}

SetOps ==
  {<<Query("setop", "clause", "", <<>>)>> \o br : br \in Branches(1, 2)}
    \union {<<Query("select", "clause", "", Everything), [Query("setop", "from", "d", <<>>) EXCEPT !.up = 1, !.cols = cols]>> \o br :
              br \in Branches(2, 3), cols \in {<<>>, <<"y", "x">>}}
    \union {<<[Query("select", "clause", "", X) EXCEPT !.rec = rec], [Query("setop", "cte", "c", <<>>) EXCEPT !.up = 1, !.cols = cols]>>
               \o br \o <<[Table(<<"c">>, "") EXCEPT !.up = 1]>> :
              br \in Branches(2, 3), rec \in BOOLEAN, cols \in {<<>>, <<"y", "x">>}}

(* UNION and INTERSECT.                                                      *)
Intersects ==
  {[n \in DOMAIN s |-> [s[n] EXCEPT !.union = FALSE]] : s \in {s \in SetOps : \E n \in DOMAIN s : s[n].items = Pair}}

(* Scalar subqueries in a SELECT list, constants and expressions.            *)
Lists ==
  {<<Query("select", "clause", "", <<Column(<<>>, "", name), Column(<<>>, "x", "x")>>), [t EXCEPT !.up = 1],
     [Query("select", "list", "", X) EXCEPT !.up = 1], [u EXCEPT !.up = 3]>> :
     name \in {"", "n", "y"}, t \in Tables \union {[Query("select", "from", "d", Everything) EXCEPT !.up = 1]}, u \in Tables}
    \union {<<Query("select", "clause", "", Everything), [Query("select", "from", "d", items) EXCEPT !.up = 1], [t EXCEPT !.up = 2]>> :
              t \in Tables, items \in {<<Column(<<>>, "", "n"), Column(<<>>, "y", "y")>>, <<Column(<<>>, "y", "n"), Column(<<>>, "", "c")>>}}

(* A name means a constant: of a derived table, or of a set operation into   *)
(* which other values do or do not flow.                                     *)
Constant == <<Column(<<>>, "", "x")>>

Constants ==
  LET start == {<<Query("select", "clause", "", list), [t EXCEPT !.up = 1], [Query("select", place, "", X) EXCEPT !.up = 1]>> :
                  list \in {<<Column(<<>>, "", "n")>>, <<Column(<<>>, "y", "y"), Column(<<>>, "", "")>>},
                  t \in {Table(A, ""), Table(B, "")}, place \in {"list", "clause"}}
      derived == {<<[Query("select", "from", "d", Constant) EXCEPT !.up = 3], [Table(B, "") EXCEPT !.up = 4]>>}
        \union {<<[Query("setop", "from", "d", <<>>) EXCEPT !.up = 3, !.union = union],
                  [Query("select", "branch", "", Constant) EXCEPT !.up = 4], [Table(B, "") EXCEPT !.up = 5],
                  [Query("select", "branch", "", XasY) EXCEPT !.up = 4], [Table(SA, "") EXCEPT !.up = 7]>> : union \in BOOLEAN}
  IN  {s \o d : s \in start, d \in derived}

(* CTEs that read one another: p is a set operation, r a select.             *)
Mutual ==
  LET Y == <<Column(<<>>, "y", "y")>>
      Z == <<Column(<<>>, "z", "z")>>
      Start(list) == <<[Query("select", "clause", "", list) EXCEPT !.rec = TRUE],
                      [Query("setop", "cte", "p", <<>>) EXCEPT !.up = 1, !.cols = <<"z">>],
                      [Query("select", "branch", "", X) EXCEPT !.up = 2], [Table(A, "") EXCEPT !.up = 3],
                      [Query("select", "branch", "", Y) EXCEPT !.up = 2], [Table(<<"r">>, "") EXCEPT !.up = 5]>>
      direct == <<[Query("select", "cte", "r", <<Column(<<>>, "z", "y")>>) EXCEPT !.up = 1], [Table(<<"p">>, "") EXCEPT !.up = 7]>>
      scalar == <<[Query("select", "cte", "r", <<Column(<<>>, "", "y")>>) EXCEPT !.up = 1], [Table(SA, "") EXCEPT !.up = 7],
                  [Query("select", "list", "", Z) EXCEPT !.up = 7], [Table(<<"p">>, "") EXCEPT !.up = 9]>>
      clause == <<[Query("select", "from", "d", Y) EXCEPT !.up = 1], [Table(B, "") EXCEPT !.up = 11],
                  [Query("select", "clause", "", Y) EXCEPT !.up = 11], [Table(<<"r">>, "") EXCEPT !.up = 13],
                  [Query("select", "from", "e", Z) EXCEPT !.up = 1], [Table(<<"p">>, "") EXCEPT !.up = 15]>>
  IN  {Start(list) \o direct \o <<[Table(<<"p">>, "") EXCEPT !.up = 1]>> : list \in {Z, Everything}}
        \union {Start(Z) \o scalar \o clause}

(* UPDATE, MERGE and DELETE: of a target, beside a source, where.            *)
Values(kind) ==
  IF kind = "delete" THEN {<<>>}
    ELSE {<<Column(<<>>, "z", "x")>>, <<Column(<<"f">>, "x", "x"), Column(<<>>, "", "y")>>, <<Column(<<"d">>, "y", "y")>>}

Changes ==
  LET start == UNION {{<<Query(kind, "clause", "", items), [t EXCEPT !.up = 1]>> : items \in Values(kind), t \in Tables} :
                        kind \in {"update", "merge", "delete"}}
      source == UNION {With(s, At(1, {Table(SA, "f"), Query("select", "from", "d", Everything),
                                      [Query("select", "list", "", X) EXCEPT !.up = 1]})) : s \in start}
      three == UNION {IF s[3].kind = "table" THEN {s} ELSE With(s, At(3, {Table(SA, ""), Table(B, "")})) : s \in source}
      where == UNION {With(s, At(1, {Query("select", "clause", "", X)})) : s \in three}
  IN  start \union three \union UNION {With(s, At(Len(s), {Table(B, ""), Table(A, "f")})) : s \in where}

(* Tables without columns.                                                   *)
Empties ==
  {<<Query("select", "clause", "", items), [t EXCEPT !.up = 1], [u EXCEPT !.up = 1]>> :
     items \in {Everything, <<Column(<<>>, "x", ""), Column(<<"f">>, "*", "")>>,
                <<Column(<<"e">>, "*", ""), Column(<<"f">>, "*", ""), Column(<<>>, "x", "")>>},
     t \in {Table(SA, "f"), Table(A, "f")}, u \in {Table(E, ""), Table(B, "e")}}
    \union {<<Query("select", "clause", "", Everything), [Query("select", "from", "d", Everything) EXCEPT !.up = 1],
              [Table(E, "") EXCEPT !.up = 2], [Table(t, "") EXCEPT !.up = 1]>> : t \in {A, SA, E}}

(* What the resolver does not read as SQL does: a star over an expression    *)
(* without a name or over a union with two columns of one name, a qualifier  *)
(* that fits two tables, a neighbour that a derived table does not see; a    *)
(* CTE declared after the one that reads it.                                 *)
Differences ==
  LET root(items) == Query("select", "clause", "", items)
  IN  {<<root(Everything), [Query("select", "from", "d", items) EXCEPT !.up = 1], [Table(A, "") EXCEPT !.up = 2]>> :
         items \in {Expression, Twice}}
        \union {<<root(Everything), [Query("setop", "from", "d", <<>>) EXCEPT !.up = 1],
                  [Query("select", "branch", "", Twice) EXCEPT !.up = 2], [Table(A, "") EXCEPT !.up = 3],
                  [Query("select", "branch", "", <<Column(<<>>, "x", "x"), Column(<<>>, "z", "z")>>) EXCEPT !.up = 2],
                  [Table(SA, "") EXCEPT !.up = 5]>>}
        \union {<<root(<<Column(SA, "x", "x")>>), [t EXCEPT !.up = 1], [u EXCEPT !.up = 1]>> :
                  t \in {Table(SA, ""), Table(SA, "f")}, u \in {Table(A, ""), Table(B, "")}}
        \union {<<root(X), [Table(SA, "f") EXCEPT !.up = 1], [Query("select", "clause", "", X) EXCEPT !.up = 1],
                  [t EXCEPT !.up = 3], [Query("select", "from", "d", <<Column(<<"f">>, "*", "")>>) EXCEPT !.up = 3],
                  [Table(B, "") EXCEPT !.up = 5]>> : t \in {Table(B, "f"), Table(A, "")}}
        \union {<<root(<<Column(<<>>, "", "n")>>), [Table(A, "") EXCEPT !.up = 1],
                  [Query("select", "list", "", <<Column(<<"d">>, "x", "x")>>) EXCEPT !.up = 1],
                  [t EXCEPT !.up = 3], [Query("select", "from", "d", X) EXCEPT !.up = 3], [Table(B, "") EXCEPT !.up = 5]>> :
                  t \in {Table(SA, ""), Table(B, "f")}}
        \union {<<[root(Everything) EXCEPT !.rec = TRUE], [Table(<<"c">>, "") EXCEPT !.up = 1],
                  [Query("select", "from", "d", X) EXCEPT !.up = 1], [t EXCEPT !.up = 3],
                  [Query("select", "cte", "b", <<Column(<<>>, "y", "x")>>) EXCEPT !.up = 1], [Table(A, "") EXCEPT !.up = 5],
                  [Query("select", "cte", "c", X) EXCEPT !.up = 1], [Table(<<"b">>, "") EXCEPT !.up = 7]>> :
                  t \in {Table(A, ""), Table(B, "")}}

Part(kind, name) == [kind |-> kind, name |-> name]

Define(kind, parts) == [kind |-> kind, parts |-> parts, values |-> FALSE]

SomeParts == {Part("column", "x"), Part("column", "n"), Part("like", A), Part("like", E), Part("like", <<"s", "a">>), Part("key", "")}

MCDefinitions ==
  {Define(kind, <<Part("column", "n"), Part("column", "x")>>) : kind \in {"insert", "view", "table"}}
    \union {[Define("insert", parts) EXCEPT !.values = TRUE] : parts \in {<<>>, <<Part("column", "n")>>}}
    \union {Define("table", parts) : parts \in UNION {[1 .. k -> SomeParts] : k \in 1 .. 3}}

MCStatements ==
  {<<>>} \union
  {q0 \in Nested \union Deep \union Withs \union SetOps \union Intersects \union Lists \union Constants \union Mutual \union Changes \union Empties \union Differences :
     /\ \A n \in DOMAIN q0 : q0[n].kind = "select" => \E m \in DOMAIN q0 : q0[m].up = n /\ q0[m].place = "from"
     /\ \A n \in DOMAIN q0 : q0[n].name = <<"c">> => \E m \in DOMAIN q0 : q0[m].alias = "c"}
==============================================================================
