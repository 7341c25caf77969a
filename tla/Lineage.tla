------------------------------- MODULE Lineage --------------------------------
(***************************************************************************)
(* LineageSourceColumns (lineage.go): the columns whose values flow into    *)
(* the result of a statement.  It is called after ReferencedColumns, with   *)
(* the same statement and metadata.                                         *)
(*                                                                         *)
(* A query is given to the engine, which says of each field of the result   *)
(* where its values come from.  When it finds no source for a field, the    *)
(* resolver of ReferencedColumns is run over the query in flow mode; for an *)
(* UPDATE or a MERGE there is only the resolver, and a DELETE has no values. *)
(*                                                                         *)
(* The engine is external.  Here it finds, for each field, all of the       *)
(* sources or none, and none at all without metadata for every table; and   *)
(* it calls a table as the query does, or as the metadata does.             *)
(***************************************************************************)
EXTENDS ReferencedColumns

VARIABLES
  stage,       \* "referenced" while ReferencedColumns runs, then "flow" and "done"
  referenced,  \* what ReferencedColumns returned for a statement without clauses
  calls,       \* how the engine calls tables
  tableCols    \* the columns found in each table of the result

lineageVars == <<stage, referenced, calls, tableCols>>
allVars == <<vars, lineageVars>>

Nothing == [t \in {} |-> {}]

LineageInit ==
  /\ Init
  /\ stage = "referenced"
  /\ referenced = Nothing
  /\ calls = "as written"
  /\ tableCols = Nothing

-----------------------------------------------------------------------------
(* The engine.                                                               *)

(* AnalyzeQuery: the tables that the query and those in it read.             *)
BaseTables == {q[n].name : n \in {m \in Nodes : IsTable(m) /\ q[m].up \in DOMAIN out}}

(* The key of the metadata for a table (metadataKeyForTable).                *)
KeyOf(table) ==
  LET keys == {key \in DOMAIN metadata : IsSuffix(table, key)}
  IN  IF table \notin DOMAIN metadata /\ Cardinality(keys) = 1 THEN CHOOSE key \in keys : TRUE ELSE table

Calls == {"as written", "as in metadata"}

Called(how, table) == IF how = "as written" THEN table ELSE KeyOf(table)

(* OpenLineageColumnLineage: the direct inputs of each field.                *)
FieldsFound(how) ==
  UNION {{[i \in DOMAIN flow[Root] |->
             IF i \in found THEN {Ref(Called(how, r.table), r.column) : r \in flow[Root][i].roots} ELSE {}] :
            found \in (IF AllKnown THEN SUBSET DOMAIN flow[Root] ELSE {{}})} : flow \in {FlowCols}}

-----------------------------------------------------------------------------
(* Mutant of ScopeTable: the first of several matches is taken.              *)
ScopeTableAny(seeds, name) == IF name \in seeds THEN {name} ELSE {t \in seeds : IsSuffix(t, name)}

(* resolveScopeTable, as a set of at most one table.                         *)
ScopeTable(seeds, name) ==
  LET matches == {t \in seeds : IsSuffix(t, name) \/ IsSuffix(name, t)}
  IN  CASE name \in seeds                                     -> {name}
        [] name \notin seeds /\ Cardinality(matches) = 1     -> matches
        [] OTHER                                             -> {}

(* The references are put down for their tables; a star is none.             *)
Credited(seeded, refs) ==
  [t \in DOMAIN seeded |->
     seeded[t] \union {r.column : r \in {r \in refs : r.column # Star /\ t \in ScopeTable(DOMAIN seeded, r.table)}}]

Columns(refs, names) == [t \in names |-> {r.column : r \in {r \in refs : r.table = t}}]

SomeClauses == {"UPDATE_SET_TARGET"} \union UNION {ClausesOf(b) : b \in QueryNodes}

(* A new resolver, in flow mode.                                             *)
NewResolver(first) ==
  /\ flowOnly' = TRUE
  /\ stack' = first
  /\ out' = [b \in {} |-> EmptyOut]
  /\ tables' = {} /\ uses' = {}

(* innerQuery finds one.                                                     *)
Kind == IF q = <<>> THEN "none" ELSE q[Root].kind

HasQuery == Kind \in {"select", "setop"}

(* ReferencedColumns returns, and prepareLineage and aggregateColumns look   *)
(* at the statement.                                                         *)
Analyze ==
  /\ stage = "referenced" /\ stack = <<>>
  /\ referenced' = Columns({u.root : u \in {u \in uses : u.clause \notin SomeClauses}}, tables)
  /\ \/ /\ HasQuery
        /\ \E how \in Calls : \E fields \in FieldsFound(how) :
             /\ calls' = how
             /\ tableCols' = Credited([t \in BaseTables |-> {}], UNION ToSet(fields))
             /\ IF {} \in ToSet(fields)
                  THEN stage' = "flow" /\ NewResolver(<<Root>>)
                  ELSE stage' = "done" /\ NewResolver(<<>>)
     \/ /\ Kind \in {"update", "merge"}
        /\ stage' = "flow" /\ tableCols' = Nothing /\ NewResolver(<<Root>>) /\ UNCHANGED calls
     \/ /\ Kind \in {"delete", "none"}
        /\ stage' = "done" /\ tableCols' = Nothing /\ NewResolver(<<>>) /\ UNCHANGED calls
  /\ UNCHANGED <<q, metadata>>

(* creditFlowColumns, or recordFlowRefs of an UPDATE or a MERGE.             *)
Credit ==
  /\ stage = "flow" /\ stack = <<>>
  /\ LET names == ToSet(out[Root].names)
         refs == UNION {out[Root].byName[name] : name \in names}
     IN  tableCols' = IF ~HasQuery THEN Columns({r \in refs : r.column # Star}, tables \union {r.table : r \in refs})
                                     ELSE Credited(tableCols, refs)
  /\ stage' = "done"
  /\ UNCHANGED <<vars, referenced, calls>>

LineageDone == stage = "done" /\ UNCHANGED allVars

LineageNext == (Resolution /\ UNCHANGED lineageVars) \/ Analyze \/ Credit \/ LineageDone

LineageSpec == LineageInit /\ [][LineageNext]_allVars

-----------------------------------------------------------------------------
(* Properties.                                                               *)

(* A name in a list is looked for beyond the column it means, because no     *)
(* value flows into that one.                                                *)
FlowPassesOver ==
  \E flow \in {FlowCols} : \E b \in QueryNodes : \E item \in ToSet(q[b].items) :
    item.column \notin {Star, NoName} /\ PassedOver(b, item, flow)

(* ReferencedColumns "returns a superset of LineageSourceColumns's result",   *)
(* even without what the clauses add to it; but the two may look for a name  *)
(* in different places where it is passed over or CTEs read one another, and *)
(* the engine in others where the resolver misreads it.                      *)
LineageIsReferenced ==
  stage = "done" /\ ~FlowPassesOver /\ ~MutuallyRecursive =>
    \A cols \in {Cols} :
      (AllKnown => ListsRead(cols)) =>
        /\ DOMAIN tableCols \subseteq DOMAIN referenced
        /\ \A t \in DOMAIN tableCols : tableCols[t] \subseteq referenced[t]

(* No two tables of the result answer to what the engine calls one.          *)
TablesTold == \A t \in DOMAIN tableCols : ScopeTable(DOMAIN tableCols, Called(calls, t)) = {t}

(* The result is what flows, whichever fields the engine finds no source for *)
(* and however it calls the tables.                                          *)
LineageExact ==
  stage = "done" /\ q # <<>> /\ AllKnown /\ TablesTold =>
    \A flow \in {FlowCols} :
      ListsExact(flow) =>
        \A roots \in {UNION {c.roots : c \in ToSet(flow[Root])}} : \A t \in DOMAIN tableCols :
           tableCols[t] = {r.column : r \in {r \in roots : r.table = t}}
=============================================================================
