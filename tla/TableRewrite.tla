----------------------------- MODULE TableRewrite -----------------------------
(***************************************************************************)
(* RewriteTableReferences (rewrite_tables.go): every reference to a table   *)
(* of the plan is replaced by a derived table, whose alias must not clash   *)
(* with its neighbours, and the column references to the table are bound    *)
(* to that alias.                                                           *)
(*                                                                         *)
(* A name is the sequence of its words, "_" between them, a numeral being    *)
(* the number it stands for; an identifier is a name and whether it is       *)
(* quoted.  A statement is a tree of nodes numbered in the order of the      *)
(* table walk:                                                              *)
(*   kind   "query", a SELECT; "setop", a set operation; or "table"         *)
(*   name   a table's dotted name, a sequence of one to three identifiers   *)
(*   alias  <<>> or <<identifier>>; for a CTE body, the name of the CTE     *)
(*   up     the query the node occurs in                                    *)
(*   place  "cte", "from" (an entry of FROM or JOIN) or "clause" (anywhere  *)
(*          else, the branches of a set operation included)                 *)
(* A column reference is known by its qualifier: the sequence of the keys   *)
(* of the identifiers before the column, or before the star.                *)
(***************************************************************************)
EXTENDS Naturals, FiniteSets, SequencesExt

CONSTANTS
  Words,        \* the words of names, numerals aside
  Fold,         \* strings.ToLower on words
  Statements,   \* the statements the parser may return
  Plan,         \* from the keys <<schema, table>> to <<>>, an inline rewrite,
                \* or <<alias>>, a union and its TableAlias
  Stripped      \* StripMatchCatalogs

VARIABLES
  q,         \* the statement as parsed
  pc,        \* the next step of RewriteTableReferences
  assigned,  \* the aliases of the identities that have one
  todo,      \* the identities whose default alias clashes and that wait for another
  used,      \* the names no further alias may take
  at,        \* the query whose references are bound next
  qualified, \* per query, its context: qualifiers and the alias they turn into
  bound      \* per query and qualifier, the qualifier it has now

vars == <<q, pc, assigned, todo, used, at, qualified, bound>>

Root == 1

Texts == Seq(Words \union Nat)

Identifiers == [text : Texts, quoted : BOOLEAN]

ASSUME WordsAssumption ==
  /\ Words \intersect Nat = {}
  /\ Fold \in [Words -> Words]
  /\ \A word \in Words : Fold[Fold[word]] = Fold[word]

ASSUME PlanAssumption ==
  \A key \in DOMAIN Plan : Plan[key] \in Seq(Texts) /\ Len(Plan[key]) <= 1

(* What the parser returns: the root is a query, every other node occurs in  *)
(* a query that the walk has met before; a set operation has no FROM.        *)
IsNode(n) ==
  /\ n.kind \in {"query", "setop", "table"}
  /\ n.alias \in Seq(Identifiers) /\ Len(n.alias) <= 1
  /\ n.kind = "table" => n.name \in Seq(Identifiers) /\ Len(n.name) \in 1 .. 3

ASSUME StatementsAssumption ==
  \A stmt \in Statements :
    /\ DOMAIN stmt = 1 .. Len(stmt) /\ Len(stmt) \in Nat \ {0}
    /\ stmt[Root].kind # "table"
    /\ \A n \in DOMAIN stmt : IsNode(stmt[n])
    /\ \A n \in DOMAIN stmt \ {Root} :
         /\ stmt[n].up \in 1 .. n - 1 /\ stmt[stmt[n].up].kind # "table"
         /\ stmt[n].place = "from" => stmt[stmt[n].up].kind = "query"
         /\ stmt[n].place = "cte" => stmt[n].alias # <<>>

Lower(name) == [i \in DOMAIN name |-> IF name[i] \in Words THEN Fold[name[i]] ELSE name[i]]

(* normName.                                                                 *)
Key(id) == IF id.quoted THEN id.text ELSE Lower(id.text)

NeedsQuote(name) == name # Lower(name)

Queries == {n \in DOMAIN q : q[n].kind # "table"}

Selects == {n \in Queries : q[n].kind = "query"}

(* fromJoinEntries.                                                          *)
Entries(b) == {n \in DOMAIN q : n # Root /\ q[n].up = b /\ q[n].place = "from"}

-----------------------------------------------------------------------------
(* Which references match, and what a reference is called.                   *)

BareName(n) == q[n].name[Len(q[n].name)].text

SchemaOf(n) == q[n].name[Len(q[n].name) - 1]

(* tableRewriteMatchKey; the table walk hands on physical tables only, which *)
(* every qualified name is.                                                  *)
IsMatch(n) ==
  /\ q[n].kind = "table"
  /\ Len(q[n].name) > 1
  /\ Len(q[n].name) = 3 => Lower(q[n].name[1].text) \in Stripped
  /\ <<Lower(SchemaOf(n).text), Lower(BareName(n))>> \in DOMAIN Plan

Matches == {n \in DOMAIN q : IsMatch(n)}

Unaliased == {n \in Matches : q[n].alias = <<>>}

Target(n) == Plan[<<Lower(SchemaOf(n).text), Lower(BareName(n))>>]

Keys(n) == [i \in DOMAIN q[n].name |-> Key(q[n].name[i])]

(* Mutant of Identity: quoted identifiers are folded too.                    *)
IdentityFolded(n) == [i \in DOMAIN q[n].name |-> Lower(q[n].name[i].text)]

Identity(n) == Keys(n)

(* defaultAlias.                                                             *)
DefaultAlias(n) ==
  IF Target(n) = <<>>
    THEN q[n].name[Len(q[n].name)]
    ELSE [text |-> Target(n)[1], quoted |-> NeedsQuote(Target(n)[1])]

(* relationEntryName, as a set of at most one name.                          *)
EntryNames(n) ==
  CASE q[n].alias # <<>>                      -> {Lower(q[n].alias[1].text)}
    [] q[n].alias = <<>> /\ q[n].kind = "table" -> {Lower(BareName(n))}
    [] OTHER                                  -> {}

CteNames(b) ==
  {Lower(q[n].alias[1].text) : n \in {m \in DOMAIN q : m # Root /\ q[m].up = b /\ q[m].place = "cte"}}

(* The CTE names around the query b, as the walk carries them: the body of a *)
(* CTE is walked without those of its own WITH.                              *)
CtesAround ==
  LET Around[b \in DOMAIN q] ==
        CASE b = Root                       -> {}
          [] b # Root /\ q[b].place = "cte" -> Around[q[b].up]
          [] OTHER                          -> Around[q[b].up] \union CteNames(q[b].up)
  IN  Around

(* computeMatchScopeOccupancy.                                               *)
Occupied(n) ==
  CtesAround[q[n].up] \union CteNames(q[n].up)
    \union UNION {EntryNames(m) : m \in Entries(q[n].up) \ {n}}

(* disambiguateAlias: schema_table, catalog_schema_table, or the default     *)
(* alias and the first number that is free.                                  *)
Numbered(default, taken) ==
  default \o <<Min({i \in 2 .. Cardinality(taken) + 2 : Lower(default \o <<i>>) \notin taken})>>

Candidates(identity) ==
  LET k == Len(identity)
  IN  <<identity[k - 1] \o identity[k]>>
        \o (IF k = 3 THEN <<identity[1] \o identity[2] \o identity[3]>> ELSE <<>>)

Disambiguated(identity, default, taken) ==
  LET names == Candidates(identity)
      free == {i \in DOMAIN names : Lower(names[i]) \notin taken}
      text == IF free # {} THEN names[Min(free)] ELSE Numbered(default.text, taken)
  IN  [text |-> text, quoted |-> NeedsQuote(text)]

-----------------------------------------------------------------------------
NoMap == [x \in {} |-> {}]

(* The qualifiers a relation answers to as it is written.                    *)
Exposes(n) ==
  CASE q[n].alias # <<>>                        -> {<<Key(q[n].alias[1])>>}
    [] q[n].alias = <<>> /\ q[n].kind = "table" -> Suffixes(Keys(n)) \ {<<>>}
    [] OTHER                                    -> {}

Chains == UNION {Exposes(n) : n \in {m \in DOMAIN q : m # Root /\ q[m].place = "from"}}

Init ==
  /\ q \in Statements
  /\ pc = "match"
  /\ assigned = NoMap /\ todo = {} /\ used = {} /\ at = 0
  /\ qualified = [b \in Queries |-> NoMap]
  /\ bound = [b \in Queries |-> [c \in Chains |-> c]]

Match ==
  /\ pc = "match"
  /\ pc' = IF Matches = {} THEN "unchanged" ELSE "reserve"
  /\ UNCHANGED <<q, assigned, todo, used, at, qualified, bound>>

(* assignDerivedAliases.                                                     *)
Group(id) == {n \in Unaliased : Identity(n) = id}

First(id) == Min(Group(id))

Default(id) == DefaultAlias(First(id))

Identities == {Identity(n) : n \in Unaliased}

Clashes(id) ==
  \/ \E other \in Identities \ {id} : Lower(Default(other).text) = Lower(Default(id).text)
  \/ \E n \in Group(id) : Lower(Default(id).text) \in Occupied(n)

Reserve ==
  /\ pc = "reserve"
  /\ LET keeping == {id \in Identities : ~Clashes(id)}
     IN  /\ assigned' = [id \in keeping |-> Default(id)]
         /\ used' = (UNION {Occupied(n) : n \in Unaliased})
                      \union {Lower(Default(id).text) : id \in keeping}
         /\ todo' = Identities \ keeping
  /\ pc' = "disambiguate"
  /\ UNCHANGED <<q, at, qualified, bound>>

(* The first identity that waits gets the alias.                             *)
Assign(id, alias) ==
  /\ \A other \in todo : First(id) <= First(other)
  /\ assigned' = [x \in DOMAIN assigned \union {id} |-> IF x = id THEN alias ELSE assigned[x]]
  /\ todo' = todo \ {id}

(* Mutant of Disambiguate: the new alias is not reserved.                    *)
DisambiguateUnreserved ==
  /\ pc = "disambiguate"
  /\ \E id \in todo : Assign(id, Disambiguated(id, Default(id), used))
  /\ UNCHANGED <<q, pc, used, at, qualified, bound>>

Disambiguate ==
  /\ pc = "disambiguate"
  /\ \E id \in todo :
       LET alias == Disambiguated(id, Default(id), used)
       IN  Assign(id, alias) /\ used' = used \union {Lower(alias.text)}
  /\ UNCHANGED <<q, pc, at, qualified, bound>>

(* replaceTableWithSubquery for every match.                                 *)
Replace ==
  /\ pc = "disambiguate" /\ todo = {}
  /\ pc' = "rebind" /\ at' = Root
  /\ UNCHANGED <<q, assigned, todo, used, qualified, bound>>

-----------------------------------------------------------------------------
(* Rebinding, once the matches are replaced.                                 *)

AliasOf(n) == IF q[n].alias # <<>> THEN q[n].alias[1] ELSE assigned[Identity(n)]

Own(b) == Entries(b) \cap Unaliased

(* claimedQualifiers.                                                        *)
Claims(n) == {c \in Suffixes(Keys(n)) : Len(c) > 1}

(* The tables of the query b that have c for a qualifier.                    *)
Owners(b, c) == {n \in Own(b) : c \in Claims(n)}

OwnerAlias(b, c) == Key(AliasOf(CHOOSE n \in Owners(b, c) : TRUE))

(* Mutant of QualifiedIn: the rules of the queries around are forgotten.     *)
QualifiedHere(b, inherited) ==
  LET keys == {c \in UNION {Claims(n) : n \in Own(b)} : Cardinality(Owners(b, c)) < 2}
  IN  [c \in keys |-> OwnerAlias(b, c)]

(* qualifiedRebindForScope.                                                  *)
QualifiedIn(b, inherited) ==
  LET keys == {c \in DOMAIN inherited \union UNION {Claims(n) : n \in Own(b)} : Cardinality(Owners(b, c)) < 2}
  IN  [c \in keys |-> IF Owners(b, c) = {} THEN inherited[c] ELSE OwnerAlias(b, c)]

(* collectFromRelationNames of the rewritten body.                           *)
Relations(b) ==
  UNION {IF n \in Matches THEN {Lower(AliasOf(n).text)} ELSE EntryNames(n) : n \in Entries(b)}

(* Mutant of Bare: tables that share a bare name, letter case aside.         *)
BareOfTwins(b, name) ==
  {n \in Own(b) : /\ Lower(BareName(n)) = name
                  /\ Lower(AliasOf(n).text) # name
                  /\ name \notin Relations(b)}

(* bareRebindForScope and the test lookupRebindAlias makes of a bare         *)
(* qualifier: the matches of the body it is rebound to, at most one.         *)
Bare(b, name) ==
  {n \in Own(b) : /\ Lower(BareName(n)) = name
                  /\ \A m \in Own(b) \ {n} : Lower(BareName(m)) # name
                  /\ Lower(AliasOf(n).text) # name
                  /\ name \notin Relations(b)}

(* lookupRebindAlias, and what rebindQuery does not ask it: the ORDER BY of  *)
(* a set operation is left as it is.                                         *)
Rebound(b, context, c) ==
  IF Len(c) = 1
    THEN IF Bare(b, c[1]) = {} THEN c ELSE <<Key(AliasOf(CHOOSE n \in Bare(b, c[1]) : TRUE))>>
    ELSE IF b \in Selects /\ c \in DOMAIN context THEN <<context[c]>> ELSE c

(* rebindQuery: the body's references, in the context of the bodies around.  *)
Rebind ==
  /\ pc = "rebind" 
  /\ LET context == QualifiedIn(at, IF at = Root THEN NoMap ELSE qualified[q[at].up])
     IN  /\ qualified' = [qualified EXCEPT ![at] = context]
         /\ bound' = [bound EXCEPT ![at] = [c \in Chains |-> Rebound(at, context, c)]]
  /\ LET later == {b \in Queries : b > at}
     IN  IF later = {} THEN pc' = "rewritten" /\ at' = 0 ELSE at' = Min(later) /\ UNCHANGED pc
  /\ UNCHANGED <<q, assigned, todo, used>>

Next == Match \/ Reserve \/ Disambiguate \/ Replace \/ Rebind

Spec == Init /\ [][Next]_vars
-----------------------------------------------------------------------------
(* What a qualifier denotes, by the scoping of SQL.                          *)

(* The qualifiers a relation answers to once the matches are replaced.       *)
NowExposes(n) == IF n \in Matches THEN {<<Key(AliasOf(n))>>} ELSE Exposes(n)

(* The query whose relations the query b sees beside its own: what occurs in *)
(* a FROM or a WITH does not see the relations next to it.                   *)
Outward ==
  LET Out[b \in Queries] ==
        CASE b = Root                            -> 0
          [] b # Root /\ q[b].place = "clause"   -> q[b].up
          [] OTHER                               -> Out[q[b].up]
  IN  Out

(* The relations c denotes in each query: those of the innermost query that  *)
(* has any; c is ambiguous if they are many.                                 *)
Denoted(exposed, c) ==
  LET In[b \in Queries] ==
        LET here == {n \in Entries(b) : c \in exposed[n]}
        IN  IF here # {} \/ Outward[b] = 0 THEN here ELSE In[Outward[b]]
  IN  In

Nodes == DOMAIN q \ {Root}

(* The row filter's use of all this: a table is replaced by a query of its   *)
(* own, FROM the table, WHERE the predicate.  The predicate's references are *)
(* bound like the statement's; the query has no match, so that only the      *)
(* rules it inherits apply.                                                  *)
PredicateBound(n, c) ==
  IF Len(c) > 1 /\ c \in DOMAIN qualified[q[n].up] THEN <<qualified[q[n].up][c]>> ELSE c

Before(b, c) == Denoted([n \in Nodes |-> Exposes(n)], c)[b]

After(b, c) == Denoted([n \in Nodes |-> NowExposes(n)], bound[b][c])[b]

(* The references of the statement: a SELECT and a qualifier that denotes    *)
(* one relation in it.  The ORDER BY of a set operation refers to the        *)
(* columns of its result.                                                    *)
References == {r \in Selects \X Chains : Cardinality(Before(r[1], r[2])) = 1}

Denotee(b, c) == CHOOSE n \in Before(b, c) : TRUE

IsLocal(b, c) == Denotee(b, c) \in Entries(b)

KeepsMeaning(b, c) == After(b, c) = Before(b, c)

-----------------------------------------------------------------------------
(* Where the rewrite falls short, by cause.                                  *)

IsRenamed(n) == n \in Unaliased /\ Key(AliasOf(n)) # Last(Keys(n))

(* A bare reference to a renamed table is rebound in the query that reads    *)
(* the table, when its key is in lower case and letter case is not all that  *)
(* tells it from the new alias or from another relation there.               *)
LeftBehind(b, c) ==
  /\ Len(c) = 1 /\ bound[b][c] = c
  /\ IsRenamed(Denotee(b, c))
  /\ \/ ~IsLocal(b, c)
     \/ c # <<Lower(c[1])>>
     \/ Lower(AliasOf(Denotee(b, c)).text) = c[1]
     \/ \E m \in Entries(b) \ {Denotee(b, c)} : Lower(c[1]) \in EntryNames(m)

(* A table of this query, quoted, differs from c in letter case alone.       *)
TakenForTwin(b, c) ==
  /\ Len(c) = 1
  /\ \E n \in Own(b) : Lower(BareName(n)) = c[1] /\ Denotee(b, c) # n

(* A table that is not rewritten, in a catalog that is not stripped, has the *)
(* schema and the name of one that is, in a query around.                    *)
TakenForOuter(b, c) ==
  Len(c) > 1 /\ Denotee(b, c) \notin Unaliased /\ c \in DOMAIN qualified[b]

(* The query b and those around it.                                          *)
Within ==
  LET In[b \in Queries] == {b} \union IF b = Root THEN {} ELSE In[q[b].up]
  IN  In

(* The rule that takes c to a new alias, in the query around or in one       *)
(* around that, is applied in the predicate of a table, which cannot see the *)
(* alias.                                                                    *)
RenamedInPredicate(n, c) ==
  \E m \in Unaliased : q[m].up \in Within[q[n].up] /\ c \in Claims(m) /\ IsRenamed(m)

(* A derived table is bound with the rules of the query whose FROM it stands *)
(* in, the tables of which it cannot see: one of them has c for itself.      *)
TakenForNeighbour(b, c) ==
  /\ Len(c) > 1
  /\ \E i \in Within[b] \ Within[q[Denotee(b, c)].up] : Owners(i, c) # {}

(* The query b and those whose relations it sees.                            *)
Seen ==
  LET Out[b \in Queries] == {b} \union IF Outward[b] = 0 THEN {} ELSE Out[Outward[b]]
  IN  Out

(* The queries from b outwards to the one that c denotes a relation of.      *)
Inside(b, c) == Seen[b] \ Seen[q[Denotee(b, c)].up]

(* A relation in between answers to the alias c has been bound to, or has    *)
(* taken c itself for its alias.                                             *)
Captured(b, c) ==
  \E i \in Inside(b, c) : \E m \in Entries(i) :
    \/ Denotee(b, c) \in Unaliased /\ <<Key(AliasOf(Denotee(b, c)))>> \in NowExposes(m)
    \/ m \in Unaliased /\ <<Key(AliasOf(m))>> = c

-----------------------------------------------------------------------------
(* Properties *)

Rewritten == pc = "rewritten"

(* Types; every identity has its alias or waits for one, in the end all have *)
(* one, and no alias is given out twice.                                     *)
TypeOK ==
  /\ pc \in {"match", "unchanged", "reserve", "disambiguate", "rebind", "rewritten"}
  /\ at \in Queries \union {0}
  /\ pc \in {"disambiguate", "rebind", "rewritten"} =>
       /\ DOMAIN assigned \union todo = Identities
       /\ DOMAIN assigned \intersect todo = {}
  /\ \A id \in DOMAIN assigned : Lower(assigned[id].text) \in used
  /\ \A x, y \in DOMAIN assigned : Lower(assigned[x].text) = Lower(assigned[y].text) => x = y

(* "the rewritten FROM has no duplicate relation names": the alias given to  *)
(* a match names no other relation of its FROM, unless the table itself is   *)
(* read there twice.                                                         *)
AliasesDistinct ==
  Rewritten =>
    \A b \in Queries : \A n \in Own(b) : \A m \in Entries(b) \ {n} :
      (m \in Unaliased => Keys(m) # Keys(n)) => NowExposes(n) \cap NowExposes(m) = {}

(* What a reference to a relation of its own FROM denotes, it still denotes  *)
(* when the tables are replaced and the references rebound; and so do the    *)
(* references of the row filter's predicate to the table it filters.         *)
LocalReferencesKeepMeaning ==
  Rewritten =>
    /\ \A r \in References : LET b == r[1] c == r[2] IN
         IsLocal(b, c) => KeepsMeaning(b, c) \/ LeftBehind(b, c) \/ TakenForOuter(b, c)
    /\ \A n \in Matches : \A c \in Suffixes(Keys(n)) \ {<<>>} :
         Target(n) = <<>> => PredicateBound(n, c) \in Suffixes(Keys(n)) \/ RenamedInPredicate(n, c)

(* The same of the references of subqueries to relations of the queries      *)
(* around them.                                                              *)
CorrelatedReferencesKeepMeaning ==
  Rewritten =>
    \A r \in References : LET b == r[1] c == r[2] IN
      ~IsLocal(b, c) =>
        \/ KeepsMeaning(b, c)
        \/ LeftBehind(b, c) \/ TakenForTwin(b, c) \/ TakenForOuter(b, c)
        \/ TakenForNeighbour(b, c) \/ Captured(b, c)

(* "Such qualified forms can only denote a physical table, so rebinding them *)
(* is scope-safe": qualified references keep their meaning.                  *)
QualifiedRebindingIsScopeSafe ==
  Rewritten => \A r \in References : Len(r[2]) > 1 => KeepsMeaning(r[1], r[2])

(* Bare references that are not rebound "already resolve or must stay with   *)
(* the shadowing relation": none is left that resolves to nothing.           *)
BareReferencesResolve ==
  Rewritten => \A r \in References : Len(r[2]) = 1 => After(r[1], r[2]) # {}
=============================================================================
