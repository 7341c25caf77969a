------------------------------- MODULE QueryTree -------------------------------
(***************************************************************************)
(* The parsed statement, as much of it as name scoping depends on, and the  *)
(* SQL scoping of common table expressions.                                 *)
(*                                                                         *)
(* The parser is external; the AST is known from how the walks of           *)
(* easysql.go and rewrite_tables.go take it apart.  A statement is a tree   *)
(* of nodes numbered in source order, node Root being the statement itself. *)
(* A node is a query body (SELECT or set operation) or a reference to a     *)
(* named relation.  The children of a body are the bodies of the CTEs of    *)
(* its WITH clause and, after them, its items: every query or relation that *)
(* occurs in one of its clauses, or the two branches of a set operation.    *)
(*                                                                         *)
(*   kind    "query" or "table"                                             *)
(*   name    a relation's dotted name as written; for a CTE body, <<alias>> *)
(*   up      the body the node occurs in                                    *)
(*   cte     i for the body of the i-th CTE of up, 0 for an item            *)
(*   rec     the body's WITH is RECURSIVE                                   *)
(*   bodies  the nodes of the body's CTEs, in order                         *)
(*   items   the nodes of the body's items, in order                        *)
(*   in      the node and all the bodies around it                          *)
(***************************************************************************)
EXTENDS TableScope

CONSTANT Queries   \* the statements the parser may return

Root == 1

Kids(q, b) == ToSet(q[b].bodies) \union ToSet(q[b].items)

Tables(q) == {n \in DOMAIN q : q[n].kind = "table"}

NodeTyped(q, n) ==
  /\ q[n].kind \in {"query", "table"}
  /\ q[n].name \in Seq(Idents)
  /\ q[n].up \in DOMAIN q
  /\ q[n].cte \in Nat
  /\ q[n].rec \in BOOLEAN
  /\ q[n].bodies \in Seq(DOMAIN q)
  /\ q[n].items \in Seq(DOMAIN q)
  /\ q[n].in \subseteq DOMAIN q
  /\ q[n].kind = "table" => q[n].name \in DottedNames /\ Kids(q, n) = {}

IsItemOf(q, c, b) == c # Root /\ q[c].up = b /\ q[c].cte = 0

IsCteOf(q, c, i, b) == c # Root /\ q[c].up = b /\ q[c].cte = i /\ Len(q[c].name) = 1

KidsLinked(q, b) ==
  /\ \A i \in DOMAIN q[b].bodies : IsCteOf(q, q[b].bodies[i], i, b)
  /\ \A i \in DOMAIN q[b].items : IsItemOf(q, q[b].items[i], b)
  /\ \A i, j \in DOMAIN q[b].items : i # j => q[b].items[i] # q[b].items[j]

(* in is the chain of bodies from the node up to the root, through one child *)
(* of each.                                                                  *)
Enclosed(q, n) ==
  /\ q[n].in = {n} \union (IF n = Root THEN {} ELSE q[q[n].up].in)
  /\ Root \in q[n].in
  /\ \A a \in q[n].in : a # n => a < n /\ \E c \in Kids(q, a) : c \in q[n].in
  /\ \A a \in q[n].in \ {Root} : q[a].up \in q[n].in
  /\ \A c, d \in q[n].in \ {Root} : q[c].up = q[d].up => c = d

WellFormed(q) ==
  /\ DOMAIN q \subseteq Nat \ {0}
  /\ Root \in DOMAIN q /\ q[Root].kind = "query"
  /\ \A n \in DOMAIN q : NodeTyped(q, n) /\ KidsLinked(q, n) /\ Enclosed(q, n)

ASSUME QueriesAssumption == \A q \in Queries : WellFormed(q)

-----------------------------------------------------------------------------
(* Names declared by WITH clauses and where they are visible.               *)

CteNames(q, b) == {Fold[q[c].name[1]] : c \in ToSet(q[b].bodies)}

(* The CTE bodies whose names the child a of a body sees.  An item of the    *)
(* query sees all of them and so does, under WITH RECURSIVE, a CTE body;     *)
(* under a plain WITH a CTE body sees the CTEs before it.                   *)
SqlSeen(q, a) ==
  {c \in ToSet(q[q[a].up].bodies) : q[a].cte = 0 \/ q[q[a].up].rec \/ q[c].cte < q[a].cte}

(* The same without the CTEs before it.                                      *)
OuterSeen(q, a) ==
  {c \in ToSet(q[q[a].up].bodies) : q[a].cte = 0 \/ q[q[a].up].rec}

SqlScope(q, n) == UNION {{Fold[q[c].name[1]] : c \in SqlSeen(q, a)} : a \in q[n].in \ {Root}}

OuterScope(q, n) == UNION {{Fold[q[c].name[1]] : c \in OuterSeen(q, a)} : a \in q[n].in \ {Root}}

(* Only an unqualified name can denote a CTE.                               *)
DenotesIn(q, n, scope) == ~IsQualified(q[n].name) /\ Fold[TableOf(q[n].name)] \in scope

DenotesCte(q, n) == DenotesIn(q, n, SqlScope(q, n))

(* The name denotes a CTE only because a plain WITH declares it earlier than *)
(* the CTE body the reference occurs in.                                     *)
DenotesEarlierSibling(q, n) == DenotesCte(q, n) /\ ~DenotesIn(q, n, OuterScope(q, n))
=============================================================================
