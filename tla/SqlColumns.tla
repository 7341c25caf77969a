------------------------------ MODULE SqlColumns ------------------------------
(***************************************************************************)
(* Statements as far as column references depend on them, and what a        *)
(* reference means in SQL.                                                  *)
(*                                                                         *)
(* The parser is external; the AST is known from how referenced_columns.go  *)
(* takes it apart.  A statement is a tree of nodes numbered in source       *)
(* order, empty if there is no query in it:                                 *)
(*   kind   "table", "select", "setop" or, of the root, "update", "merge"   *)
(*          or "delete"                                                     *)
(*   name   a table's dotted name                                           *)
(*   alias  an alias or NoName; for a CTE body, the name of the CTE         *)
(*   cols   the column aliases of a derived table or CTE                    *)
(*   up     the query the node occurs in                                    *)
(*   place  "cte", "from", "list" (a scalar subquery in the SELECT list),   *)
(*          "clause" (a subquery in WHERE and the like) or "branch" (of a   *)
(*          set operation)                                                  *)
(*   rec    the query's WITH is RECURSIVE                                   *)
(*   union  the set operation is a UNION: both branches' values come out    *)
(*   items  the SELECT list: stars, columns, and expressions over a column, *)
(*          which have no name of their own; an item without a column is    *)
(*          the subquery in the list or, if there is none, a constant.      *)
(*          Of an "update" or "merge", the values and where they go.        *)
(* The entries of FROM come first the target, if the root has one, and       *)
(* before the subquery in the list.  Names are in lower case; a star is of   *)
(* one relation, or of all.                                                  *)
(***************************************************************************)
EXTENDS Naturals, SequencesExt

CONSTANTS
  Statements,
  Actual,      \* the columns of the physical tables, in order
  Star,        \* the column "*"
  NoName

VARIABLE q     \* the statement

Root == 1

DMLKinds == {"update", "merge", "delete"}

ParsedNodes ==
  [kind : {"table", "select", "setop"} \union DMLKinds, place : {"cte", "from", "list", "clause", "branch"},
   name : Seq(STRING), alias : STRING, cols : Seq(STRING), up : Nat, rec : BOOLEAN, union : BOOLEAN,
   items : Seq([qualifier : Seq(STRING), column : STRING, name : STRING])]

(* What the parser returns: every node but the root occurs in a query that   *)
(* comes before it, and a table in a FROM; a set operation has none, but two *)
(* branches.                                                                 *)
Placed(s, n) ==
  /\ s[n].up \in 1 .. n - 1 /\ s[s[n].up].kind # "table" /\ s[n].kind \notin DMLKinds
  /\ s[n].kind = "table" => s[n].place = "from"
  /\ s[n].place = "from" => s[s[n].up].kind # "setop"
  /\ s[n].place = "branch" => s[s[n].up].kind = "setop"
  /\ s[n].place = "list" => \A m \in DOMAIN s : s[m].up = s[n].up /\ s[m].place = "from" => m < n

NamedWell(s, n) ==
  /\ s[n].kind = "table" => s[n].name # <<>> /\ NoName \notin ToSet(s[n].name) /\ s[n].cols = <<>>
  /\ s[n].cols # <<>> => n # Root /\ s[n].place \in {"cte", "from"}
  /\ {Star, NoName} \intersect ToSet(s[n].cols) = {}
  /\ \A item \in ToSet(s[n].items) :
       /\ item.name # Star /\ NoName \notin ToSet(item.qualifier)
       /\ item.column = Star => Len(item.qualifier) <= 1

ASSUME StatementsAssumption ==
  \A s \in Statements :
    /\ s \in Seq(ParsedNodes)
    /\ s # <<>> => s[Root].kind # "table"
    /\ \A n \in DOMAIN s \ {Root} : Placed(s, n)
    /\ \A n \in DOMAIN s : NamedWell(s, n)
    /\ \A n \in DOMAIN s : s[n].kind = "setop" =>
         Cardinality({m \in DOMAIN s \ {Root} : s[m].up = n /\ s[m].place = "branch"}) = 2

ASSUME NamesAssumption ==
  Star # NoName /\ \A t \in DOMAIN Actual : Actual[t] \in Seq(STRING \ {Star, NoName})

Nodes == DOMAIN q

QueryNodes == {n \in Nodes : q[n].kind # "table"}

IsDML(b) == q[b].kind \in DMLKinds

Kids(b, place) == {n \in Nodes \ {Root} : q[n].up = b /\ q[n].place = place}

(* A set of numbers as a sequence.                                           *)
InOrder(nodes) ==
  [i \in 1 .. Cardinality(nodes) |-> CHOOSE n \in nodes : Cardinality({m \in nodes : m <= n}) = i]

(* The entries of FROM and JOIN.                                             *)
Sources(b) == Kids(b, "from")

BaseName(n) == q[n].name[Len(q[n].name)]

(* The node and the queries around it.                                       *)
Above == LET In[n \in Nodes] == {n} \union IF n = Root THEN {} ELSE In[q[n].up] IN In

-----------------------------------------------------------------------------
(* The scoping of CTE names.                                                 *)

(* The CTEs declared where n can see them: an earlier sibling, or any one of *)
(* a query around n.                                                         *)
Declared(n) ==
  UNION {{c \in Kids(q[a].up, "cte") : q[a].place # "cte" \/ q[q[a].up].rec \/ c < a} :
           a \in Above[n] \ {Root}}

NamedLike(n) ==
  {c \in Declared(n) : q[n].kind = "table" /\ q[n].name = <<q[c].alias>>}

(* The CTE a table name denotes, as a set of at most one node.               *)
DenotedCte(n) == {c \in NamedLike(n) : \A d \in NamedLike(n) : q[d].up <= q[c].up}

IsTable(n) == q[n].kind = "table" /\ DenotedCte(n) = {}

-----------------------------------------------------------------------------
(* The meaning of columns.                                                   *)

Ref(table, column) == [table |-> table, column |-> column]

Col(name, roots) == [name |-> name, roots |-> roots]

(* The relations of each query around b, from the inside out.  A derived     *)
(* table does not see its neighbours, nor does a CTE.                        *)
SqlChain ==
  LET In[b \in QueryNodes] ==
        <<Sources(b)>>
          \o IF b = Root THEN <<>>
             ELSE CASE q[b].place = "cte"  -> Tail(In[q[b].up])
                    [] q[b].place = "from" -> <<{}>> \o Tail(In[q[b].up])
                    [] OTHER               -> In[q[b].up]
  IN  In

Alias(n) == IF q[n].kind = "table" /\ q[n].alias = NoName THEN BaseName(n) ELSE q[n].alias

(* The relation is what the qualifier says.                                  *)
Bears(n, qualifier) ==
  \/ qualifier = <<Alias(n)>>
  \/ q[n].kind = "table" /\ q[n].alias = NoName /\ IsSuffix(qualifier, q[n].name)

Single(S) == \E x \in S : S = {x}

(* S, if it has one member.                                                  *)
Only(S) == UNION {T \in {S} : Single(T)}

(* The places of a name.                                                     *)
Named(cols, name) == {i \in DOMAIN cols : cols[i].name = name}

(* The relations that a reference may be to.  The columns of relation n are  *)
(* cols[n].                                                                  *)
Bearers(ref, cols) ==
  IF ref.qualifier = <<>> THEN {n \in Nodes : Named(cols[n], ref.column) # {}}
    ELSE {n \in Nodes : Bears(n, ref.qualifier)}

(* The innermost of the relations picked.                                    *)
Nearest(chain, picked) ==
  LET hits == {i \in DOMAIN chain : chain[i] \intersect picked # {}}
  IN  IF hits = {} THEN {} ELSE chain[Min(hits)] \intersect picked

(* The columns that a reference from within b may mean, as relation and      *)
(* place: one, unless it has no meaning or is ambiguous.                     *)
Meant(b, ref, cols) ==
  UNION {{n} \X Named(cols[n], ref.column) : n \in Only(Nearest(SqlChain[b], Bearers(ref, cols)))}

(* The roots of what it means; a constant has none.                          *)
Roots(b, ref, cols) == UNION {cols[m[1]][m[2]].roots : m \in Only(Meant(b, ref, cols))}

(* The relations a star stands for, and their columns.                       *)
Starred(b, qualifier) ==
  IF qualifier = <<>> THEN Sources(b) ELSE Nearest(SqlChain[b], {n \in Nodes : Bears(n, qualifier)})

StarIn(b, qualifier, cols) ==
  LET found == Starred(b, qualifier)
  IN  FlattenSeq([i \in 1 .. Cardinality(found) |-> cols[InOrder(found)[i]]])

Renamed(cols, names) ==
  [i \in DOMAIN cols |-> Col(IF i \in DOMAIN names THEN names[i] ELSE cols[i].name, cols[i].roots)]

ItemRoots(n, item, cols) ==
  IF item.column # NoName THEN Roots(n, item, cols)
    ELSE UNION {UNION {c.roots : c \in ToSet(cols[k])} : k \in Kids(n, "list")}

(* What a node selects, given the columns of the others: where the values    *)
(* come from or, with both, also those of the right branch of INTERSECT and  *)
(* EXCEPT, which decide which values come out.                               *)
Selected(n, cols, both) ==
  LET item(i) ==
        IF q[n].items[i].column = Star
          THEN StarIn(n, q[n].items[i].qualifier, cols)
          ELSE <<Col(q[n].items[i].name, ItemRoots(n, q[n].items[i], cols))>>
      branch == [i \in 1 .. 2 |-> cols[InOrder(Kids(n, "branch"))[i]]]
  IN  CASE IsTable(n) -> [i \in DOMAIN Actual[q[n].name] |->
                            Col(Actual[q[n].name][i], {Ref(q[n].name, Actual[q[n].name][i])})]
        [] q[n].kind = "table" /\ ~IsTable(n) -> cols[CHOOSE c \in DenotedCte(n) : TRUE]
        [] q[n].kind = "select" \/ IsDML(n) -> FlattenSeq([i \in DOMAIN q[n].items |-> item(i)])
        [] q[n].kind = "setop"  ->
             [i \in DOMAIN branch[1] |->
                Col(branch[1][i].name,
                    branch[1][i].roots \union IF i \in DOMAIN branch[2] /\ (both \/ q[n].union)
                                              THEN branch[2][i].roots ELSE {})]

(* The columns of every node; recursive CTEs start out empty.  (TLC evaluates *)
(* a bound value once, a LET one at every use.)                              *)
ColsOf(both) ==
  LET Round[k \in 0 .. Len(q)] ==
        IF k = 0 THEN [n \in Nodes |-> <<>>]
        ELSE CHOOSE cols \in {[n \in Nodes |-> Renamed(Selected(n, before, both), q[n].cols)] :
                                 before \in {Round[k - 1]}} : TRUE
  IN  Round[Len(q)]

Cols == ColsOf(TRUE)

FlowCols == ColsOf(FALSE)
=============================================================================
