-------------------------- MODULE ReferencedColumns ---------------------------
(***************************************************************************)
(* ReferencedColumns and ReferencedColumnUsages (referenced_columns.go):    *)
(* the physical columns that a statement and the queries in it read, and in *)
(* which clause.  The resolver is also run for the columns whose values     *)
(* flow into the result (flowOnly), see Lineage.                            *)
(*                                                                         *)
(* A query resolves its sources, CTEs on first use, and the subquery in its *)
(* SELECT list, then the list and the clauses.  Every select is taken to    *)
(* hold every reference it could in a WHERE, a GROUP BY and an ORDER BY, so *)
(* one statement stands for all; a MERGE in its ON and its WHENs, and an    *)
(* UPDATE sets its columns by every qualifier.  A clause's reference is     *)
(* [qualifier, column], or an ordinal.                                      *)
(***************************************************************************)
EXTENDS SqlColumns

CONSTANT Metadatas   \* what WithLineageMetadata may hold

VARIABLES
  flowOnly,  \* only values that flow into the result are followed
  metadata,  \* the columns of some tables
  stack,     \* the queries being resolved, the innermost last
  out,       \* the output of the queries resolved
  tables,    \* the tables of the result
  uses       \* the columns recorded, and for which reference

resolver == <<stack, out, tables, uses>>
vars == <<q, metadata, flowOnly, resolver>>

Top == Last(stack)

Resolving == ToSet(stack)

-----------------------------------------------------------------------------
(* newScope: the CTEs each node sees.                                        *)

NoCtes == [name \in {} |-> Root]

Overlaid(base, ctes) ==
  [name \in DOMAIN base \union {q[c].alias : c \in ctes} |->
     LET own == {c \in ctes : q[c].alias = name} IN IF own = {} THEN base[name] ELSE Max(own)]

(* Mutant of Siblings: a CTE body sees all its siblings.                     *)
SiblingsAll(n) == Kids(q[n].up, "cte")

Siblings(n) ==
  {c \in Kids(q[n].up, "cte") : q[n].place # "cte" \/ q[q[n].up].rec \/ c < n}

Ctes ==
  LET Seen[n \in Nodes] == IF n = Root THEN NoCtes ELSE Overlaid(Seen[q[n].up], Siblings(n))
  IN  Seen

(* The CTE a source reads, as a set.                                         *)
CteOf(n) ==
  IF q[n].kind = "table" /\ Len(q[n].name) = 1 /\ q[n].name[1] \in DOMAIN Ctes[n]
    THEN {Ctes[n][q[n].name[1]]} ELSE {}

IsPhysical(n) == q[n].kind = "table" /\ CteOf(n) = {}

-----------------------------------------------------------------------------
(* Outputs, the resolvedOut of a query.                                      *)

MapAll(S, f(_)) == UNION {f(x) : x \in S}

(* add and addPosition, over all columns; an expression has no name, and is  *)
(* kept under the empty one in flow mode.                                    *)
Output(cols) ==
  LET kept == InOrder({i \in DOMAIN cols : flowOnly \/ cols[i].name # NoName})
      names == [k \in DOMAIN kept |-> cols[kept[k]].name]
  IN  [names     |-> names,
       byName    |-> [name \in ToSet(names) |-> UNION {cols[i].roots : i \in Named(cols, name)}],
       positions |-> [i \in DOMAIN cols |-> cols[i].roots]]

EmptyOut == Output(<<>>)

(* Mutant of Aliased: the columns are listed under their new names only.     *)
AliasedInList(result, names) == IF names = <<>> THEN result ELSE [result EXCEPT !.names = names]

(* applyColumnAliases.                                                       *)
Aliased(result, names) ==
  IF names = <<>> THEN result
  ELSE Output([i \in DOMAIN names |->
                 Col(names[i], IF i \in DOMAIN result.positions THEN result.positions[i] ELSE {})])

(* The query that a source, branch or subquery stands for, as a set.         *)
Reads(n) == IF q[n].kind = "table" THEN CteOf(n) ELSE {n}

Read(n) == CHOOSE k \in Reads(n) : TRUE

(* A CTE that is being resolved is empty to those that read it.              *)
Produced(b) == IF b \in Resolving THEN EmptyOut ELSE out[b]

OutputOf(n) == Produced(Read(n))

TablesOf(result) == {r.table : r \in UNION ToSet(result.positions)}

RootTables(n) == IF IsPhysical(n) THEN {q[n].name} ELSE TablesOf(OutputOf(n))

RefsFor(names, column) == {Ref(t, column) : t \in names}

(* lookupMetadataColumns, as a set of at most one list.                      *)
Known(table) ==
  IF table \in DOMAIN metadata THEN {metadata[table]}
  ELSE LET keys == {key \in DOMAIN metadata : IsSuffix(table, key)}
       IN  IF Cardinality(keys) = 1 THEN {metadata[key] : key \in keys} ELSE {}

-----------------------------------------------------------------------------
(* The scopes a reference goes through, from the inside out.  A derived      *)
(* table is resolved when the sources before it are known, and sees them.    *)
Chain ==
  LET Scopes[b \in QueryNodes] ==
        IF b = Root THEN <<Sources(b)>>
        ELSE LET outer == Scopes[q[b].up]
             IN  <<Sources(b)>>
                   \o CASE q[b].place = "cte"  -> Tail(outer)
                        [] q[b].place = "from" -> <<{n \in outer[1] : n < b}>> \o Tail(outer)
                        [] OTHER               -> outer
  IN  Scopes

First(hits) == IF hits = {} THEN 0 ELSE Min(hits)

(* byAlias: of two sources with one alias the later counts.                  *)
WithAlias(scope, qualifier) ==
  LET hits == {n \in scope : Alias(n) # NoName /\ qualifier = <<Alias(n)>>}
  IN  IF hits = {} THEN {} ELSE {Max(hits)}

(* resolveQualifiedPhysical.                                                 *)
Matching(scope, qualifier) ==
  {n \in scope : IsPhysical(n) /\ (IsSuffix(qualifier, q[n].name) \/ IsSuffix(q[n].name, qualifier))}

Through(n, column) ==
  IF IsPhysical(n) THEN {Ref(q[n].name, column)}
  ELSE IF column \in DOMAIN OutputOf(n).byName THEN OutputOf(n).byName[column]
  ELSE RefsFor(RootTables(n), column)

AllTables(chain) == UNION {MapAll(chain[i], RootTables) : i \in DOMAIN chain}

Broadcast(chain, qualifier, column) ==
  IF AllTables(chain) # {} THEN RefsFor(AllTables(chain), column) ELSE {Ref(qualifier, column)}

(* resolveQualified.                                                         *)
Qualified(chain, qualifier, column) ==
  LET at == First({i \in DOMAIN chain : WithAlias(chain[i], qualifier) \union Matching(chain[i], qualifier) # {}})
  IN  CASE at = 0 -> Broadcast(chain, qualifier, column)
        [] at # 0 /\ WithAlias(chain[at], qualifier) # {} ->
             UNION {Through(n, column) : n \in WithAlias(chain[at], qualifier)}
        [] OTHER -> {Ref(q[n].name, column) : n \in Matching(chain[at], qualifier)}

(* Mutant of Exposed: tables of unknown columns do not count.                *)
ExposedKnown(n, column) ==
  IF IsPhysical(n) THEN {Ref(q[n].name, column) : cols \in {cols \in Known(q[n].name) : column \in ToSet(cols)}}
  ELSE IF column \in DOMAIN OutputOf(n).byName THEN OutputOf(n).byName[column] ELSE {}

(* Mutant of Exposed: the metadata is not consulted.                         *)
ExposedAny(n, column) ==
  IF IsPhysical(n) THEN {Ref(q[n].name, column)}
  ELSE IF column \in DOMAIN OutputOf(n).byName THEN OutputOf(n).byName[column] ELSE {}

(* What a source makes of an unqualified name.                               *)
Exposed(n, column) ==
  IF IsPhysical(n)
    THEN IF Known(q[n].name) = {} \/ \E cols \in Known(q[n].name) : column \in ToSet(cols)
           THEN {Ref(q[n].name, column)} ELSE {}
    ELSE CASE column \in DOMAIN OutputOf(n).byName -> OutputOf(n).byName[column]
           [] column \notin DOMAIN OutputOf(n).byName /\ Star \in DOMAIN OutputOf(n).byName ->
                RefsFor(RootTables(n), column)
           [] OTHER -> {}

(* resolveUnqualified; what no scope exposes is given to the outermost scope *)
(* that has tables at all.                                                   *)
Unqualified(chain, column) ==
  LET exposed(n) == Exposed(n, column)
      at == First({i \in DOMAIN chain : MapAll(chain[i], exposed) # {}})
      rooted == {i \in DOMAIN chain : MapAll(chain[i], RootTables) # {}}
  IN  CASE at # 0                 -> MapAll(chain[at], exposed)
        [] at = 0 /\ rooted # {}  -> RefsFor(MapAll(chain[Max(rooted)], RootTables), column)
        [] OTHER                  -> {}

Resolve(b, qualifier, column) ==
  IF qualifier = <<>> THEN Unqualified(Chain[b], column) ELSE Qualified(Chain[b], qualifier, column)

-----------------------------------------------------------------------------
(* The SELECT list.                                                          *)

(* emit in expandStar.                                                       *)
StarOf(n) ==
  CASE ~IsPhysical(n) ->
         [i \in DOMAIN OutputOf(n).names |->
            Col(OutputOf(n).names[i], OutputOf(n).byName[OutputOf(n).names[i]])]
    [] IsPhysical(n) /\ Known(q[n].name) # {} ->
         LET cols == CHOOSE cols \in Known(q[n].name) : TRUE
         IN  [i \in DOMAIN cols |-> Col(cols[i], {Ref(q[n].name, cols[i])})]
    [] OTHER -> <<Col(Star, {Ref(q[n].name, Star)})>>

(* expandStar.                                                               *)
Expanded(b, qualifier) ==
  LET chain == Chain[b]
      at == First({i \in DOMAIN chain : WithAlias(chain[i], qualifier) # {}})
      roots == SetToSeq(Broadcast(chain, qualifier, Star))
  IN  CASE qualifier = <<>>             -> FlattenSeq([i \in 1 .. Cardinality(Sources(b)) |-> StarOf(InOrder(Sources(b))[i])])
        [] qualifier # <<>> /\ at # 0   -> StarOf(CHOOSE n \in WithAlias(chain[at], qualifier) : TRUE)
        [] OTHER                        -> [i \in DOMAIN roots |-> Col(Star, {roots[i]})]

(* buildOut.                                                                 *)
Projected(b) ==
  FlattenSeq([i \in DOMAIN q[b].items |->
    LET item == q[b].items[i]
    IN  CASE item.column = Star   -> Expanded(b, item.qualifier)
          [] item.column = NoName -> <<Col(item.name, UNION {UNION ToSet(out[k].positions) : k \in Kids(b, "list")})>>
          [] OTHER                -> <<Col(item.name, Resolve(b, item.qualifier, item.column))>>])

(* Mutant of IncludeRight: the right branch of INTERSECT and EXCEPT flows.   *)
IncludeRightAlways(b) == TRUE

IncludeRight(b) == ~flowOnly \/ q[b].union

(* resolveSetOp: the columns of the left branch in order, a later one of the *)
(* same name taking its place, and all positions.                            *)
Merged(b, left, other) ==
  LET right == IF IncludeRight(b) THEN other ELSE EmptyOut
      last(name) == Max({i \in DOMAIN left.names : left.names[i] = name})
      longer == IF Len(left.positions) < Len(right.positions) THEN right.positions ELSE left.positions
      at(positions, i) == IF i \in DOMAIN positions THEN positions[i] ELSE {}
  IN  [names     |-> left.names,
       byName    |-> [name \in ToSet(left.names) |->
                        left.byName[name]
                          \union IF last(name) \in DOMAIN right.names
                                   THEN right.byName[right.names[last(name)]] ELSE {}],
       positions |-> [i \in DOMAIN longer |-> at(left.positions, i) \union at(right.positions, i)]]

-----------------------------------------------------------------------------
(* The clauses.                                                              *)

Qualifiers ==
  {<<>>} \union (UNION {{<<Alias(n)>>, q[n].name} : n \in {m \in Nodes : q[m].kind = "table"}})
    \union {<<q[n].alias>> : n \in {m \in QueryNodes : q[m].place = "from" /\ q[m].alias # NoName}}

ColumnNames == (UNION {ToSet(Actual[t]) : t \in DOMAIN Actual})
                 \union UNION {ToSet(q[b].cols) \union {item.name : item \in ToSet(q[b].items)} : b \in QueryNodes}

References == [qualifier : Qualifiers, column : ColumnNames \ {NoName}]

Ordinals == 1 .. 2

(* The clauses modelled; the others are treated like one of these.  A WHEN's *)
(* conditions and targets are told from its values, recorded for MERGE_WHEN  *)
(* as well.                                                                  *)
SelectClauses == {"WHERE", "GROUP BY", "ORDER BY"}

ClausesOf(b) ==
  CASE q[b].kind = "select" -> SelectClauses
    [] q[b].kind = "setop"  -> {"ORDER BY"}
    [] q[b].kind = "merge"  -> {"MERGE_ON", "MERGE_WHEN_OTHER"}
    [] OTHER                -> {"WHERE"}

ListClause(b) ==
  CASE q[b].kind = "update" -> "UPDATE_SET_VALUE"
    [] q[b].kind = "merge"  -> "MERGE_WHEN"
    [] OTHER                -> "SELECT"

(* collectWithOutput: a name of the output stands for the columns behind it. *)
ReadAs(b, clause, ref, result) ==
  IF clause \in {"GROUP BY", "ORDER BY"} /\ ref.qualifier = <<>> /\ ref.column \in DOMAIN result.byName
    THEN result.byName[ref.column]
    ELSE Resolve(b, ref.qualifier, ref.column)

Use(b, clause, ref, r) == [at |-> b, clause |-> clause, ref |-> ref, root |-> r]

(* collectOutputClause: an ordinal stands for a position of the output.      *)
OrdinalUses(b, clause, result) ==
  UNION {{Use(b, clause, [position |-> i], r) : r \in result.positions[i]} : i \in Ordinals \intersect DOMAIN result.positions}

ClauseUses(b, result) ==
  (UNION {UNION {{Use(b, clause, ref, r) : r \in ReadAs(b, clause, ref, result)} : ref \in References} :
            clause \in ClausesOf(b)})
    \union UNION {OrdinalUses(b, clause, result) : clause \in ClausesOf(b) \intersect {"GROUP BY", "ORDER BY"}}

(* What the subquery in the list reads has been recorded for it.             *)
ListUses(b, cols) == UNION {{Use(b, ListClause(b), [position |-> i], r) : r \in cols[i].roots} : i \in DOMAIN cols}

Target(b) == Min(Sources(b))

(* A column that an UPDATE sets is one of its target, unless it is qualified. *)
Assigned(b, qualifier, column) ==
  IF qualifier = <<>> THEN {Ref(q[Target(b)].name, column)} ELSE Qualified(Chain[b], qualifier, column)

TargetUses(b) ==
  UNION {UNION {{Use(b, "UPDATE_SET_TARGET", [position |-> i, qualifier |-> qualifier], r) :
                   r \in Assigned(b, qualifier, q[b].items[i].name)} : qualifier \in Qualifiers} :
           i \in {i \in DOMAIN q[b].items : q[b].kind = "update"}}

-----------------------------------------------------------------------------
(* A table without columns, or a query of one.                               *)
IsBare(n) == \E m \in {n} \union Sources(n) : IsTable(m) /\ Actual[q[m].name] = <<>>

TablesExist == \A n \in Nodes : IsTable(n) => q[n].name \in DOMAIN Actual

CteNamesDistinct == \A b \in Nodes : \A c, d \in Kids(b, "cte") : q[c].alias = q[d].alias => c = d

(* What the columns are, the branches of a set operation are as wide as one  *)
(* another and column aliases name every column.                             *)
Settled(cols, both) ==
  /\ \A n \in Nodes : cols[n] = Renamed(Selected(n, cols, both), q[n].cols)
  /\ \A b \in QueryNodes : q[b].cols # <<>> => DOMAIN q[b].cols = DOMAIN cols[b]
  /\ \A b \in QueryNodes : q[b].kind = "setop" =>
       \A m, n \in Kids(b, "branch") : DOMAIN cols[m] = DOMAIN cols[n]

(* Every name and star in a SELECT list has a meaning.                       *)
ListsMean(cols) ==
  \A b \in QueryNodes : \A item \in ToSet(q[b].items) :
    CASE item.column = Star   -> /\ \/ StarIn(b, item.qualifier, cols) # <<>>
                                    \/ \E n \in Starred(b, item.qualifier) : IsBare(n)
                                 /\ item.qualifier # <<>> => Single(Starred(b, item.qualifier))
      [] item.column = NoName -> \A k \in Kids(b, "list") : Len(cols[k]) = 1
      [] OTHER                -> Single(Meant(b, item, cols))

(* Every table exists, no WITH declares a name twice, only a set operation   *)
(* reads itself, and the columns of every node are settled.                  *)
Meaningful ==
  /\ TablesExist /\ CteNamesDistinct
  /\ \A n \in Nodes, b \in QueryNodes : DenotedCte(n) = {b} /\ b \in Above[n] => q[b].kind = "setop"
  /\ \A both \in BOOLEAN : \A cols \in {ColsOf(both)} : Settled(cols, both) /\ ListsMean(cols)

Init ==
  /\ q \in Statements /\ Meaningful
  /\ metadata \in Metadatas
  /\ flowOnly = FALSE
  /\ stack = IF q = <<>> THEN <<>> ELSE <<Root>>
  /\ out = [b \in {} |-> EmptyOut]
  /\ tables = {} /\ uses = {}

(* What needs to be known before b: its sources, in order, its branches or   *)
(* the subquery in its list.                                                 *)
Inputs(b) == Sources(b) \union Kids(b, "branch") \union Kids(b, "list")

(* Mutant of Before: a CTE that is being resolved is resolved again.         *)
BeforeUnguarded(b) == {n \in Inputs(b) : Reads(n) \ DOMAIN out # {}}

(* Those that stand for a query still to be resolved.                        *)
Before(b) == {n \in Inputs(b) : Reads(n) \ (DOMAIN out \union Resolving) # {}}

(* The queries to be resolved after it.                                      *)
After(b) == IF flowOnly THEN {} ELSE Kids(b, "clause") \ DOMAIN out

Enter(todo) ==
  /\ todo # {}
  /\ stack' = Append(stack, Read(Min(todo)))
  /\ UNCHANGED <<q, metadata, flowOnly, out, tables, uses>>

EnterSource == stack # <<>> /\ Top \notin DOMAIN out /\ Enter(Before(Top))

EnterClause == stack # <<>> /\ Top \in DOMAIN out /\ Enter(After(Top))

(* Nothing is recorded in flow mode.                                         *)
Record(new) == uses' = IF flowOnly THEN uses ELSE uses \union new

(* The output of Top is known from now on.                                   *)
Memoize(result) == out' = [b \in DOMAIN out \union {Top} |-> IF b = Top THEN result ELSE out[b]]

TablesFrom(b) == {q[n].name : n \in {m \in Sources(b) : IsPhysical(m)}}

ResolveSelect ==
  /\ stack # <<>> /\ Top \notin DOMAIN out /\ Before(Top) = {}
  /\ q[Top].kind = "select"
  /\ LET cols == Projected(Top)
         result == Output(cols)
     IN  /\ Memoize(Aliased(result, q[Top].cols))
         /\ Record(ListUses(Top, cols) \union ClauseUses(Top, result))
  /\ tables' = tables \union TablesFrom(Top)
  /\ UNCHANGED <<q, metadata, flowOnly, stack>>

ResolveSetOp ==
  /\ stack # <<>> /\ Top \notin DOMAIN out /\ Before(Top) = {}
  /\ q[Top].kind = "setop"
  /\ LET branch == InOrder(Kids(Top, "branch"))
         result == Merged(Top, out[branch[1]], out[branch[2]])
     IN  /\ Memoize(Aliased(result, q[Top].cols))
         /\ Record(ClauseUses(Top, result))
  /\ UNCHANGED <<q, metadata, flowOnly, stack, tables>>

(* mergeAssignmentValues, and the right-hand sides of SET: the values that   *)
(* are written, without what chooses their rows and places.                  *)
AssignedValues(b) == Projected(b)

(* resolveDelete, resolveUpdate and resolveMerge.                            *)
ResolveDML ==
  /\ stack # <<>> /\ Top \notin DOMAIN out /\ Before(Top) = {}
  /\ IsDML(Top) /\ ~flowOnly
  /\ Memoize(EmptyOut)
  /\ Record(ListUses(Top, AssignedValues(Top)) \union TargetUses(Top) \union ClauseUses(Top, EmptyOut))
  /\ tables' = tables \union TablesFrom(Top)
  /\ UNCHANGED <<q, metadata, flowOnly, stack>>

(* lineageDMLValueColumns: the values alone, put down as an output.          *)
ResolveValueFlow ==
  /\ stack # <<>> /\ Top \notin DOMAIN out /\ Before(Top) = {}
  /\ IsDML(Top) /\ flowOnly
  /\ Memoize(Output(AssignedValues(Top)))
  /\ tables' = tables \union TablesFrom(Top)
  /\ UNCHANGED <<q, metadata, flowOnly, stack, uses>>

Leave ==
  /\ stack # <<>> /\ Top \in DOMAIN out /\ After(Top) = {}
  /\ stack' = Front(stack)
  /\ UNCHANGED <<q, metadata, flowOnly, out, tables, uses>>

Resolution == EnterSource \/ EnterClause \/ ResolveSelect \/ ResolveSetOp
  \/ ResolveDML \/ ResolveValueFlow \/ Leave

Done == stack = <<>> /\ UNCHANGED vars

Next == Resolution \/ Done

Spec == Init /\ [][Next]_vars

-----------------------------------------------------------------------------
(* What SQL makes of a clause's reference.                                   *)

Ended == stack = <<>> /\ ~flowOnly

(* ORDER BY prefers the query's output, GROUP BY its input.                  *)
Meaning(b, clause, ref, cols) ==
  LET own == Selected(b, cols, TRUE)
      named == IF ref.qualifier = <<>> THEN Named(own, ref.column) ELSE {}
      output == IF Single(named) THEN UNION {own[i].roots : i \in named} ELSE {}
      input == Roots(b, ref, cols)
  IN  CASE clause \in {"WHERE", "MERGE_ON", "MERGE_WHEN_OTHER"} -> input
        [] clause = "GROUP BY"                         -> IF input = {} THEN output ELSE input
        [] clause = "ORDER BY" /\ q[b].kind = "setop" -> output
        [] OTHER                                       -> IF named = {} THEN input ELSE output

RootsIn(b, clause) == {u.root : u \in {u \in uses : u.at = b /\ u.clause = clause}}

Recorded(b, clause, ref) == {u.root : u \in {u \in uses : u.at = b /\ u.clause = clause /\ u.ref = ref}}

(* A column is recorded, or a star in its place.                             *)
Covers(roots, r) == {r, Ref(r.table, Star)} \intersect roots # {}

-----------------------------------------------------------------------------
(* Where the resolver and SQL differ.                                        *)

(* A GROUP BY name that is an output's is not taken for an input's.          *)
OutputHidesInput(b, clause, ref, cols) ==
  clause = "GROUP BY" /\ ref.qualifier = <<>> /\ Named(Selected(b, cols, TRUE), ref.column) # {}

(* The scopes nearer than the one ref belongs to.                            *)
Nearer(b, ref, cols) ==
  LET bearing == {i \in DOMAIN SqlChain[b] : SqlChain[b][i] \intersect Bearers(ref, cols) # {}}
  IN  {i \in DOMAIN Chain[b] : bearing # {} /\ i < Min(bearing)}

Unknown(n) ==
  IF IsPhysical(n) THEN Known(q[n].name) = {} ELSE Star \in DOMAIN OutputOf(n).byName

(* A name from an outer query is taken by nearer sources whose columns are   *)
(* not all known, or which a derived table does not see in SQL.              *)
TakenNearer(b, ref, cols) ==
  /\ ref.qualifier = <<>>
  /\ \E i \in Nearer(b, ref, cols) : \E n \in Chain[b][i] : Unknown(n) \/ n \in Bearers(ref, cols)

(* A qualifier of an outer query is taken by a nearer table whose name ends  *)
(* in it, or in which it ends, or by one that is not to be seen.             *)
CapturedNearer(b, ref, cols) ==
  /\ ref.qualifier # <<>>
  /\ \E i \in Nearer(b, ref, cols) :
       WithAlias(Chain[b][i], ref.qualifier) \union Matching(Chain[b][i], ref.qualifier) # {}

(* A column without roots, a constant, does not stop the search for a name.  *)
PassedOver(b, ref, cols) ==
  /\ ref.qualifier = <<>>
  /\ \E m \in Meant(b, ref, cols) : cols[m[1]][m[2]].roots = {}

(* n reads, from within, the CTE that is being resolved.                     *)
Within(n, b) == CteOf(n) \intersect Above[b] # {}

ReadsItself(b, ref, cols) == \E n \in Nearest(SqlChain[b], Bearers(ref, cols)) : Within(n, b)

Misread(b, ref, cols) ==
  TakenNearer(b, ref, cols) \/ CapturedNearer(b, ref, cols) \/ PassedOver(b, ref, cols) \/ ReadsItself(b, ref, cols)

(* The CTEs that are read by what is in c, by what is in these, and so on.    *)
Reached(c) ==
  LET ctes == {k \in QueryNodes : q[k].place = "cte"}
      closed(S) == \A n \in Nodes : Above[n] \intersect S # {} => CteOf(n) \subseteq S
  IN  {k \in ctes : \A S \in SUBSET ctes : c \in S /\ closed(S) => k \in S}

(* Of CTEs that read one another, one is resolved before the other; which    *)
(* one it is depends on who reads them first.                                *)
MutuallyRecursive ==
  \E n \in Nodes : \E c \in CteOf(n) : c \notin Above[n] /\ Reached(c) \intersect Above[n] # {}

(* The SELECT lists, which others may depend on, are free of these.          *)
ListsRead(cols) ==
  ~MutuallyRecursive /\ \A b \in QueryNodes : \A item \in ToSet(q[b].items) :
    CASE item.column = Star   -> /\ ~CapturedNearer(b, item, cols)
                                 /\ \A n \in Starred(b, item.qualifier) : ~Within(n, b)
      [] item.column = NoName -> TRUE
      [] OTHER                -> ~Misread(b, item, cols)

(* A star drops an expression without a name.                                *)
StarsNamed(cols) ==
  \A b \in QueryNodes : \A item \in ToSet(q[b].items) :
    item.column = Star => \A n \in Starred(b, item.qualifier) : Named(cols[n], NoName) = {}

(* A set operation merges by name what has one.                              *)
BranchesNamed(cols) ==
  \A b \in QueryNodes : q[b].place = "branch" => Named(cols[b], NoName) = {}

(* No star of unknown columns is renamed or merged by position, and no two   *)
(* columns of one name are merged.                                           *)
PositionsKnown(cols) ==
  \A b \in DOMAIN out :
    LET unknown == Named(Projected(b), Star) # {}
    IN  /\ q[b].cols # <<>>      => ~unknown
        /\ q[b].place = "branch" => ~unknown /\ \A i \in DOMAIN cols[b] : Single(Named(cols[b], cols[b][i].name))

(* A dotted qualifier fits the names of several tables of a query.           *)
Confused(b, ref) ==
  Len(ref.qualifier) > 1 /\ \E i \in DOMAIN Chain[b] : \E m, n \in Matching(Chain[b][i], ref.qualifier) : m # n

(* No relation has two columns of one name.                                  *)
NamesDistinct(cols) ==
  \A n \in Nodes \ {Root} : \A i \in DOMAIN cols[n] : Single(Named(cols[n], cols[n][i].name))

(* Every name in a SELECT list is found in one place.                        *)
ListsExact(cols) ==
  /\ ListsRead(cols) /\ NamesDistinct(cols)
  /\ \A b \in QueryNodes : \A item \in ToSet(q[b].items) : item.column # Star => ~Confused(b, item)

(* The metadata tells of all the columns of every table.                     *)
AllKnown == \A n \in Nodes : IsPhysical(n) => Known(q[n].name) = {Actual[q[n].name]}

-----------------------------------------------------------------------------
(* Properties.                                                               *)

(* Outputs are of queries, their names are those they can be asked for by,   *)
(* and tables exist.                                                         *)
TypeOK ==
  /\ metadata \in Metadatas
  /\ ToSet(stack) \union DOMAIN out \subseteq QueryNodes
  /\ \A b \in DOMAIN out : DOMAIN out[b].byName = ToSet(out[b].names)
  /\ tables \subseteq DOMAIN Actual
  /\ \A u \in uses : u.at \in DOMAIN out
  /\ flowOnly => uses = {}

(* No query is resolved twice, however often it is read and even if it reads *)
(* itself (memo and resolving): so the resolver ends.                        *)
ResolvedOnce ==
  [][stack # <<>> /\ Len(stack') > Len(stack) => Last(stack') \notin DOMAIN out \union Resolving]_vars

(* The query around, or one that reads it if it is a CTE, is resolved.       *)
IsRead(b) ==
  \/ b = Root
  \/ q[b].place # "cte" /\ q[b].up \in DOMAIN out
  \/ \E n \in Nodes : DenotedCte(n) = {b} /\ q[n].up \in DOMAIN out

(* Whatever is read, with every CTE name denoting what it does in SQL, is    *)
(* resolved, and every physical table there is found; all that is found is a *)
(* physical table of the statement.                                          *)
TablesPresent ==
  Ended =>
    /\ \A b \in QueryNodes : IsRead(b) => b \in DOMAIN out
    /\ {q[n].name : n \in {n \in Nodes : IsTable(n) /\ q[n].up \in DOMAIN out}} \subseteq tables
    /\ tables \subseteq {q[n].name : n \in {n \in Nodes : IsTable(n)}}

(* referenced_columns.go:259-260: "Every physical table that appears in a    *)
(* FROM/JOIN is present in the result", in a CTE that nothing reads as well. *)
EveryTablePresent ==
  Ended => {q[n].name : n \in {n \in Nodes : IsTable(n)}} \subseteq tables

(* Fail-open: whatever a SELECT list or a clause reads is recorded for it,   *)
(* where the differences above do not interfere.                             *)
ReadsCovered ==
  Ended =>
    \A cols \in {Cols}, b \in DOMAIN out :
      ListsRead(cols) /\ StarsNamed(cols) /\ BranchesNamed(cols) /\ PositionsKnown(cols) =>
        /\ q[b].kind # "setop" =>
             \A c \in ToSet(Selected(b, cols, TRUE)) : \A r \in c.roots : Covers(RootsIn(b, ListClause(b)), r)
        /\ \A clause \in ClausesOf(b), ref \in References :
             \/ \A r \in Meaning(b, clause, ref, cols) : Covers(Recorded(b, clause, ref), r)
             \/ OutputHidesInput(b, clause, ref, cols)
             \/ Misread(b, ref, cols)

(* With metadata for every table, nothing else is recorded.                  *)
ReadsExact ==
  Ended /\ AllKnown =>
    \A cols \in {Cols}, b \in DOMAIN out :
      ListsExact(cols) /\ StarsNamed(cols) /\ BranchesNamed(cols) =>
        /\ ~IsDML(b) => out[b].positions = [i \in DOMAIN cols[b] |-> cols[b][i].roots]
        /\ IsDML(b) => RootsIn(b, ListClause(b)) = UNION {c.roots : c \in ToSet(cols[b])}
        /\ \A clause \in ClausesOf(b), ref \in References :
             \/ Meaning(b, clause, ref, cols) \in {{}, Recorded(b, clause, ref)}
             \/ OutputHidesInput(b, clause, ref, cols)
             \/ Misread(b, ref, cols)
             \/ Confused(b, ref)
===============================================================================
