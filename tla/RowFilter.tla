------------------------------- MODULE RowFilter -------------------------------
(***************************************************************************)
(* One call of ApplyRowFilter (easysql.go): compile the options, prepare    *)
(* the statement, walk it deciding for every relation reference whether it  *)
(* is a physical table to filter, and rewrite.                              *)
(*                                                                         *)
(* compile, prepare and rewrite are one action each.  The recursive walk    *)
(* collect / collectQuery is one action per visited node, its call stack    *)
(* being the sequence work.                                                 *)
(***************************************************************************)
EXTENDS QueryTree

CONSTANT CallsOn(_)   \* the calls considered whose statement parses to a query

(* where and text classify the two SQL texts by the first check of the code  *)
(* they fail, query is what the parser makes of a text that fails none.      *)
(* names and regexps are the values of all WithTableNames and                *)
(* WithTableRegexp options.                                                  *)
WhereClasses == {"ok", "blank", "tooLarge", "syntax", "nativeGuard", "notBoolean", "unbuildable"}
TextClasses  == {"ok", "tooLarge", "syntax", "nativeGuard", "notOneStatement", "notQuery"}

IsCall(c) ==
  /\ c.where \in WhereClasses /\ c.text \in TextClasses /\ c.dialectKnown \in BOOLEAN
  /\ c.opts.names \in Seq(Seq(Idents \union {NoIdent}))
  /\ c.opts.regexps \in Seq({BadPattern} \union SUBSET DottedNames)
  /\ c.opts.defaultDB \in Idents \union {NoIdent}

ASSUME CallsAssumption == \A q \in Queries : \A c \in CallsOn(q) : c.query = q /\ IsCall(c)

VARIABLES
  call,      \* the arguments
  pc,        \* "compile", "prepare", "walk", "rewrite" or "done"
  scope,     \* the compiled scope options of the rewriter
  work,      \* the walk's stack: the nodes still to visit, each with its CTE scope
  decs,      \* the decisions made, in order
  wrapped,   \* the nodes replaced by a filtered subquery
  result     \* what the call returned

vars == <<call, pc, scope, work, decs, wrapped, result>>

Pending == "pending"
Results == {Pending, "rewritten", "unchanged",
            "configError", "decodeError", "ErrParse", "ErrUnsupported", "ErrInternal"}

NoScope == [scopeSet |-> FALSE, byCatalogKey |-> {}, byKey |-> {}, byName |-> {},
            regexps |-> {}, defaultDB |-> NoIdent]

Init ==
  /\ \E q \in Queries : call \in CallsOn(q)
  /\ pc = "compile"
  /\ scope = NoScope
  /\ work = <<>>
  /\ decs = <<>>
  /\ wrapped = {}
  /\ result = Pending

(* Mutant of Return: the call ends without a result.                         *)
ReturnNothing(r) == pc' = "done" /\ UNCHANGED result

Return(r) == pc' = "done" /\ result' = r

-----------------------------------------------------------------------------
(* compile and compileWhere, in the order of their checks.  What the parser  *)
(* returns, which is external, may fail to decode.                           *)

Unparsed == {"tooLarge", "nativeGuard", "syntax"}

ParseFailure(class) == IF class = "syntax" THEN "ErrParse" ELSE "ErrUnsupported"

BadConfiguration ==
  \/ call.where = "blank"
  \/ ~call.dialectKnown
  \/ HasBadPattern(call.opts)
  \/ ScopesNothing(CompiledScope(call.opts))

Compile ==
  /\ pc = "compile"
  /\ \/ /\ BadConfiguration
        /\ Return("configError")
        /\ UNCHANGED scope
     \/ /\ ~BadConfiguration
        /\ scope' = CompiledScope(call.opts)
        /\ \/ /\ call.where \in Unparsed
              /\ Return(ParseFailure(call.where))
           \/ /\ call.where \notin Unparsed
              /\ Return("decodeError")
           \/ /\ call.where \in {"notBoolean", "unbuildable"}
              /\ Return("configError")
           \/ /\ call.where = "ok"
              /\ pc' = "prepare"
              /\ UNCHANGED result
  /\ UNCHANGED <<call, work, decs, wrapped>>

(* prepare, up to the call of collect on the root.                           *)
Prepare ==
  /\ pc = "prepare"
  /\ \/ /\ call.text # "ok"
        /\ Return(ParseFailure(call.text))
        /\ UNCHANGED work
     \/ /\ call.text \notin Unparsed
        /\ Return("ErrInternal")
        /\ UNCHANGED work
     \/ /\ call.text = "ok"
        /\ pc' = "walk"
        /\ work' = <<[at |-> Root, ctes |-> {}]>>
        /\ UNCHANGED result
  /\ UNCHANGED <<call, scope, decs, wrapped>>

-----------------------------------------------------------------------------
(* The walk.  A frame's CTE scope is the union of the scope stack's sets,    *)
(* which is all inScope asks of it.                                          *)

(* Mutant of Frames: the last child is not visited.                          *)
FramesButLast(nodes, ctes) == [i \in 1 .. Len(nodes) - 1 |-> [at |-> nodes[i], ctes |-> ctes]]

Frames(nodes, ctes) == [i \in DOMAIN nodes |-> [at |-> nodes[i], ctes |-> ctes]]

(* The scope of a body's items and the one of its CTE bodies.                *)
NewScope(b, ctes) == ctes \union CteNames(call.query, b)

(* Mutant of BodyScope: every WITH is taken for a recursive one.             *)
BodyScopeIfAny(b, ctes) == NewScope(b, ctes)

BodyScope(b, ctes) == IF call.query[b].rec THEN NewScope(b, ctes) ELSE ctes

(* collectQuery and pushCTEs: the CTE bodies first, then the items.          *)
CollectQuery ==
  /\ pc = "walk" /\ work # <<>>
  /\ LET b == Head(work).at
         ctes == Head(work).ctes
         node == call.query[b]
     IN  /\ node.kind = "query"
         /\ work' = Frames(node.bodies, BodyScope(b, ctes))
                      \o Frames(node.items, NewScope(b, ctes)) \o Tail(work)
  /\ UNCHANGED <<call, pc, scope, decs, wrapped, result>>

(* Mutant of Decide: the qualifier of a reference is not looked at.          *)
DecideByBareName(n, ctes) ==
  LET cte == Fold[TableOf(call.query[n].name)] \in ctes
  IN  [node |-> n, cte |-> cte, wrap |-> ~cte /\ Matches(scope, call.query[n].name)]

(* decide                                                                    *)
Decide(n, ctes) ==
  LET cte == DenotesIn(call.query, n, ctes)
  IN  [node |-> n, cte |-> cte, wrap |-> ~cte /\ Matches(scope, call.query[n].name)]

CollectTable ==
  /\ pc = "walk" /\ work # <<>>
  /\ call.query[Head(work).at].kind = "table"
  /\ decs' = Append(decs, Decide(Head(work).at, Head(work).ctes))
  /\ work' = Tail(work)
  /\ UNCHANGED <<call, pc, scope, wrapped, result>>

WalkDone ==
  /\ pc = "walk" /\ work = <<>>
  /\ pc' = "rewrite"
  /\ UNCHANGED <<call, scope, work, decs, wrapped, result>>

-----------------------------------------------------------------------------
(* rewrite.  The generator and the parser that re-reads its output are       *)
(* external: any of their failures may happen.                               *)

Matched == {decs[i].node : i \in {i \in DOMAIN decs : decs[i].wrap}}

(* The generator may fail, its output may exceed the byte budget or not      *)
(* parse again.                                                              *)
GenerateResults == {"rewritten", "ErrInternal", "ErrUnsupported"}

Rewrite ==
  /\ pc = "rewrite"
  /\ wrapped' = Matched
  /\ \/ Matched = {} /\ Return("unchanged")
     \/ Matched # {} /\ \E r \in GenerateResults : Return(r)
  /\ UNCHANGED <<call, scope, work, decs>>

Done == pc = "done" /\ UNCHANGED vars

Next == Compile \/ Prepare \/ CollectQuery \/ CollectTable \/ WalkDone \/ Rewrite \/ Done

Spec == Init /\ [][Next]_vars

-----------------------------------------------------------------------------
(* Properties *)

(* Types, and the values each phase of a call can leave behind.              *)
TypeOK ==
  /\ IsCall(call)
  /\ pc \in {"compile", "prepare", "walk", "rewrite", "done"}
  /\ work \in Seq([at : DOMAIN call.query, ctes : SUBSET Idents])
  /\ decs \in Seq([node : Tables(call.query), cte : BOOLEAN, wrap : BOOLEAN])
  /\ wrapped \subseteq Tables(call.query)
  /\ result \in Results
  /\ pc \notin {"compile", "done"} => scope = CompiledScope(call.opts)
  /\ pc = "done" <=> result # Pending

(* The scope stack that collectQuery and pushCTEs thread through the walk    *)
(* tells CTE references from physical tables as SQL does, but for one case:  *)
(* a name that only an earlier CTE of the same plain WITH declares is taken  *)
(* for a table.                                                              *)
DecisionsFollowScoping ==
  \A i \in DOMAIN decs :
    decs[i].cte <=> /\ DenotesCte(call.query, decs[i].node)
                    /\ ~DenotesEarlierSibling(call.query, decs[i].node)

(* The walk misses no relation reference and visits none twice, wherever it  *)
(* is nested.  A second decision for one node would wrap it twice.           *)
EachReferenceDecidedOnce ==
  /\ \A i, j \in DOMAIN decs : decs[i].node = decs[j].node => i = j
  /\ pc = "rewrite" => {decs[i].node : i \in DOMAIN decs} = Tables(call.query)

(* The references to physical tables the caller asked to filter.             *)
MustFilter ==
  {n \in Tables(call.query) :
     ~DenotesCte(call.query, n) /\ Covered(call.opts, call.query[n].name)}

(* "every reference to an in-scope physical table is wrapped": SQL that the  *)
(* call returns has every one of them filtered, and the input comes back     *)
(* unchanged only when there is none.  Whatever else is wrapped is covered   *)
(* by the options and of the one kind the walk takes for a table.            *)
AnswerFiltersAll ==
  /\ result = "rewritten" =>
       /\ MustFilter \subseteq wrapped
       /\ \A n \in wrapped :
            /\ Covered(call.opts, call.query[n].name)
            /\ DenotesCte(call.query, n) => DenotesEarlierSibling(call.query, n)
  /\ result = "unchanged" => MustFilter = {}

(* easysql.go:499-502: CTE references "are recorded but never wrapped".      *)
CteReferencesNeverWrapped ==
  result = "rewritten" => \A n \in wrapped : ~DenotesCte(call.query, n)
=============================================================================
