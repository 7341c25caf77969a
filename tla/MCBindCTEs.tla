------------------------------ MODULE MCBindCTEs ------------------------------
(***************************************************************************)
(* Calls for TLC: names in mixed case and names that need quotes, in        *)
(* bindings and consumers that read each other; and every fault.            *)
(***************************************************************************)
EXTENDS BindCTEs

MCNames == {"a", "A", "a b"}

MCFold == [n \in MCNames |-> IF n = "A" THEN "a" ELSE n]

MCSimple == {"a", "A"}

Id(n) == [name |-> n, quoted |-> FALSE]
Quoted(n) == [name |-> n, quoted |-> TRUE]

Idents == {Id("A"), Quoted("A"), Quoted("a b")}

Reads == {{}, {Id("A")}, {Quoted("A"), Quoted("a b")}}

UpTo(k, S) == UNION {[1 .. n -> S] : n \in 0 .. k}

Query(name, reads) == [name |-> name, size |-> 1, text |-> "query", reads |-> reads]

(* No consumer declares a name twice.                                        *)
Consumers ==
  {c \in UpTo(2, [alias : Idents, reads : Reads]) :
     \A i, j \in DOMAIN c : Key(c[i].alias) = Key(c[j].alias) => i = j}

Asked(recursive, ctes, reads, bs) ==
  [dialectKnown |-> TRUE, size |-> 1, text |-> "query", recursive |-> recursive,
   ctes |-> ctes, reads |-> reads, bindings |-> bs]

OneBinding ==
  {Asked(rec, ctes, reads, <<Query(n, brs)>>) :
     rec \in BOOLEAN, ctes \in Consumers, reads \in Reads, n \in MCNames, brs \in Reads}

TwoBindings ==
  {Asked(rec, ctes, {}, <<Query(m, mrs), Query(n, nrs)>>) :
     rec \in BOOLEAN, ctes \in {c \in Consumers : Len(c) < 2},
     m, n \in MCNames, mrs, nrs \in Reads}

Faulty ==
  {[dialectKnown |-> d, size |-> k, text |-> t, recursive |-> FALSE, ctes |-> <<>>, reads |-> {},
    bindings |-> bs] :
     d \in BOOLEAN, k \in {1, 2, 4}, t \in Texts,
     bs \in UpTo(2, [name : {"a", "A", NoName}, size : {0, 1, 3}, text : {"query", "ErrParse"},
                    reads : {{}}])}

MCCalls == OneBinding \union TwoBindings \union Faulty
=============================================================================
