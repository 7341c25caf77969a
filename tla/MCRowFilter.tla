------------------------------ MODULE MCRowFilter ------------------------------
(***************************************************************************)
(* Statements and calls for TLC: every statement tree over some names, and   *)
(* the calls that exercise the options and the error paths.                  *)
(***************************************************************************)
EXTENDS RowFilter

MCFold == [i \in {"a", "A", "b", "s", "S", "z", "dual"} |->
             CASE i = "A" -> "a" [] i = "S" -> "s" [] OTHER -> i]

(* The nodes that may follow in source order: below a body that is still     *)
(* open, CTE bodies before items.                                            *)
KidsIn(skel, b) == {n \in DOMAIN skel : n # Root /\ skel[n].up = b}

OpenBodies(skel) ==
  LET Chain[n \in DOMAIN skel] == {n} \union IF n = Root THEN {} ELSE Chain[skel[n].up]
  IN  {b \in Chain[Len(skel)] : skel[b].kind = "query"}

(* Nodes that may occur among k, and whether node x may follow skel.         *)
NodesOver(k, names, ctes) ==
  [kind : {"table"}, name : names, up : 1 .. k, cte : {0}]
    \union [kind : {"query"}, name : {<<>>}, up : 1 .. k, cte : {0}]
    \union [kind : {"query"}, name : ctes, up : 1 .. k, cte : 1 .. 3]

MayFollow(skel, x) ==
  /\ x.up \in OpenBodies(skel)
  /\ x.cte > 0 => /\ \A n \in KidsIn(skel, x.up) : skel[n].cte > 0
                  /\ x.cte = Cardinality(KidsIn(skel, x.up)) + 1

Grown(skels, nodes) ==
  {Append(p[1], p[2]) : p \in {p \in skels \X nodes : MayFollow(p[1], p[2])}}

SkeletonsOver(nodes, names, ctes) ==
  LET one   == {<<[kind |-> "query", name |-> <<>>, up |-> Root, cte |-> 0]>>}
      Of[k \in 1 .. nodes] == IF k = 1 THEN one ELSE Grown(Of[k - 1], NodesOver(nodes, names, ctes))
  IN  UNION {Of[k] : k \in 1 .. nodes}

WithClauses(skel) == {skel[n].up : n \in {n \in DOMAIN skel : skel[n].cte > 0}}

Complete(skel, recursive) ==
  LET Ordered(S) == SetToSortSeq(S, LAMBDA x, y : x < y)
      Bodies[n \in DOMAIN skel] == {c \in KidsIn(skel, n) : skel[c].cte > 0}
      In[n \in DOMAIN skel] == {n} \union IF n = Root THEN {} ELSE In[skel[n].up]
  IN  [n \in DOMAIN skel |->
         [rec    |-> n \in recursive,
          bodies |-> Ordered(Bodies[n]),
          items  |-> Ordered(KidsIn(skel, n) \ Bodies[n]),
          in     |-> In[n]] @@ skel[n]]

(* Every choice of the WITH clauses that are RECURSIVE.                      *)
Statements(skels) ==
  {Complete(p[1], p[2]) : p \in {p \in skels \X SUBSET (1 .. 5) : p[2] \subseteq WithClauses(p[1])}}

DefaultOpts == [names |-> <<>>, regexps |-> <<>>, defaultDB |-> NoIdent]

CallOn(q, opts) ==
  [where |-> "ok", dialectKnown |-> TRUE, text |-> "ok", query |-> q, opts |-> opts]

Skeletons(nodes) == SkeletonsOver(nodes, {<<"a">>, <<"b">>, <<"s", "a">>}, {<<"a">>, <<"b">>})

(* Statements of one reference, in every letter case and qualification.      *)
References ==
  SkeletonsOver(2, {<<"a">>, <<"A">>, <<"b">>, <<"dual">>, <<"s", "a">>, <<"s", "A">>, <<"S", "dual">>,
                    <<"z", "s", "a">>, <<"z", "S", "A">>, <<"s", "s", "a">>}, {})

IsReference(q) == Len(q) <= 2 /\ Tables(q) = DOMAIN q \ {Root}

(* Filtered everywhere, and filtered on the table a only.                    *)
ScopingCalls(q) == {CallOn(q, o) : o \in {DefaultOpts, [DefaultOpts EXCEPT !.names = <<<<"a">>>>]}}

(* Every option value.                                                       *)
Entries == {<<"A">>, <<"z">>, <<"s", "a">>, <<"S", "A">>, <<"z", "s", "a">>, <<"dual">>,
            <<NoIdent, "a">>, <<"z", "z", "s", "a">>}

Regexps == {BadPattern, {<<"a">>}, {<<"s", "A">>}, {<<"z", "s", "a">>}}

OptionSets ==
  {[names |-> ns, regexps |-> rs, defaultDB |-> db] :
     ns \in {<<>>} \union {<<e>> : e \in Entries} \union {<<e, f>> : e, f \in Entries},
     rs \in {<<>>} \union {<<r>> : r \in Regexps} \union {<<r, t>> : r, t \in Regexps},
     db \in {NoIdent, "s", "S", "z"}}

(* Every fault of a call.                                                    *)
FailingCalls(q) ==
  {[CallOn(q, DefaultOpts) EXCEPT !.where = w, !.dialectKnown = d, !.text = t] :
     w \in WhereClasses, d \in BOOLEAN, t \in TextClasses}

AllQueries == Statements(References \union Skeletons(5))

AllCallsOn(q) ==
  IF IsReference(q) THEN {CallOn(q, o) : o \in OptionSets} \union FailingCalls(q) ELSE ScopingCalls(q)

(* For the refutation, small trees.                                          *)
SmallTrees == Statements(Skeletons(4))
=============================================================================
