---------------------------- MODULE RowFilterProofs ----------------------------
(***************************************************************************)
(* Theorems about RowFilter, for all options, statements and calls.         *)
(*                                                                         *)
(* First, the lookup sets of compile() and the test of matches() mean what  *)
(* the options promise.  Then the walk: every frame on its stack carries    *)
(* exactly the names OuterScope gives to its node, and every relation that  *)
(* has no decision yet lies below a frame.                                  *)
(***************************************************************************)
EXTENDS RowFilter, SequenceTheorems, TLAPS

-----------------------------------------------------------------------------
(* Matching.                                                                 *)

OptsTyped(opts) ==
  /\ opts.names \in Seq(Seq(Idents \union {NoIdent}))
  /\ opts.defaultDB \in Idents \union {NoIdent}

LEMMA NameLength ==
  ASSUME NEW name \in DottedNames
  PROVE  /\ Len(name) \in 1 .. 3
         /\ DOMAIN name = 1 .. Len(name)
         /\ \A i \in 1 .. Len(name) : name[i] \in Idents
<1>1. PICK k \in 1 .. 3 : name \in [1 .. k -> Idents]
  BY DEF DottedNames
<1>2. name \in Seq(Idents) /\ Len(name) = k
  BY <1>1
<1>3. QED
  BY <1>1, <1>2

(* A bare name is completed by the default database, when there is one.      *)
LEMMA FullNameParts ==
  ASSUME NEW opts, OptsTyped(opts), NEW name \in DottedNames
  PROVE  LET t == FullName(opts, name)
         IN  /\ IsQualified(name) => t = name /\ Len(name) \in 2 .. 3
             /\ ~IsQualified(name) /\ opts.defaultDB = NoIdent => t = name /\ Len(name) = 1
             /\ ~IsQualified(name) /\ opts.defaultDB # NoIdent =>
                  /\ Len(name) = 1 /\ Len(t) = 2
                  /\ t[1] = opts.defaultDB /\ t[2] = name[1]
<1>1. Len(name) \in 1 .. 3
  BY NameLength
<1>2. CASE IsQualified(name) \/ opts.defaultDB = NoIdent
  <2>1. FullName(opts, name) = name
    BY <1>2 DEF FullName
  <2>2. Len(name) \in 2 .. 3 \/ (~IsQualified(name) /\ Len(name) = 1)
    BY <1>1 DEF IsQualified
  <2>3. CASE IsQualified(name)
    BY <2>1, <2>2, <2>3
  <2>4. CASE ~IsQualified(name)
    <3>1. opts.defaultDB = NoIdent
      BY <1>2, <2>4
    <3>2. Len(name) = 1
      BY <1>1, <2>4 DEF IsQualified
    <3>3. QED
      BY <2>1, <2>4, <3>1, <3>2
  <2>5. QED
    BY <2>3, <2>4
<1>3. CASE ~IsQualified(name) /\ opts.defaultDB # NoIdent
  <2>0. Len(name) = 1
    BY <1>1, <1>3 DEF IsQualified
  <2>1. FullName(opts, name) = <<opts.defaultDB>> \o name /\ Len(name) = 1
    BY <2>0, <1>3, Zenon DEF FullName
  <2>2. opts.defaultDB \in Idents
    BY <1>3 DEF OptsTyped
  <2>3. /\ Len(<<opts.defaultDB>> \o name) = 2
        /\ (<<opts.defaultDB>> \o name)[1] = opts.defaultDB
        /\ (<<opts.defaultDB>> \o name)[2] = name[1]
    <3>1. <<opts.defaultDB>> \in Seq(Idents) /\ Len(<<opts.defaultDB>>) = 1
      BY <2>2
    <3>2. name \in Seq(Idents)
      <4>1. PICK k \in 1 .. 3 : name \in [1 .. k -> Idents]
        BY DEF DottedNames
      <4>2. QED
        BY <4>1
    <3>3. QED
      BY <2>1, <3>1, <3>2, ConcatProperties
  <2>4. QED
    BY <1>3, <2>1, <2>3
<1>4. QED
  BY <1>2, <1>3

(* One lookup per length of entry decides whether the full name ends with it. *)
LEMMA EntryLookup ==
  ASSUME NEW opts, OptsTyped(opts), NEW name \in DottedNames,
         NEW e, DOMAIN e = 1 .. Len(e), IsSplittable(e)
  PROVE  EndsWith(FullName(opts, name), e) <=>
           \/ Len(e) = 3 /\ FoldName(name) = FoldName(e)
           \/ /\ Len(e) = 2
              /\ IsQualified(name) \/ opts.defaultDB # NoIdent
              /\ SchemaKey(CompiledScope(opts), name) = FoldName(e)
           \/ Len(e) = 1 /\ <<Fold[TableOf(name)]>> = FoldName(e)
<1> DEFINE t == FullName(opts, name)
<1>1. /\ Len(e) \in 1 .. 3 /\ DOMAIN e = 1 .. Len(e)
      /\ FoldName(e) = [i \in 1 .. Len(e) |-> Fold[e[i]]]
  BY DEF IsSplittable, FoldName
<1>2. /\ Len(name) \in 1 .. 3 /\ DOMAIN name = 1 .. Len(name)
      /\ FoldName(name) = [i \in 1 .. Len(name) |-> Fold[name[i]]]
  BY NameLength DEF FoldName
<1>3. CASE Len(e) = 3
  <2>1. EndsWith(t, e) <=> 3 <= Len(t) /\ \A i \in 1 .. 3 : Fold[t[Len(t) - 3 + i]] = Fold[e[i]]
    BY <1>3 DEF EndsWith
  <2>2. EndsWith(t, e) <=> Len(name) = 3 /\ \A i \in 1 .. 3 : Fold[name[i]] = Fold[e[i]]
    BY <2>1, <1>2, FullNameParts DEF IsQualified
  <2>3. FoldName(name) = FoldName(e) <=>
          Len(name) = 3 /\ \A i \in 1 .. 3 : Fold[name[i]] = Fold[e[i]]
    BY <1>1, <1>2, <1>3
  <2>4. QED
    BY <1>3, <2>2, <2>3
<1>4. CASE Len(e) = 2
  <2>1. EndsWith(t, e) <=> /\ 2 <= Len(t)
                           /\ Fold[t[Len(t) - 1]] = Fold[e[1]]
                           /\ Fold[t[Len(t)]] = Fold[e[2]]
    BY <1>4, <1>2, FullNameParts DEF EndsWith, IsQualified
  <2>2. FoldName(e) = <<Fold[e[1]], Fold[e[2]]>>
    BY <1>1, <1>4
  <2> DEFINE looked == /\ IsQualified(name) \/ opts.defaultDB # NoIdent
                       /\ SchemaKey(CompiledScope(opts), name) = FoldName(e)
  <2>3. ASSUME IsQualified(name)
        PROVE  EndsWith(t, e) <=> looked
    <3>1. SchemaKey(CompiledScope(opts), name) = <<Fold[name[Len(name) - 1]], Fold[name[Len(name)]]>>
      BY <1>2, <2>3 DEF SchemaKey, IsQualified
    <3>2. t = name /\ Len(name) \in 2 .. 3
      BY <2>3, FullNameParts
    <3>3. EndsWith(t, e) <=> /\ 2 <= Len(name)
                             /\ Fold[name[Len(name) - 1]] = Fold[e[1]]
                             /\ Fold[name[Len(name)]] = Fold[e[2]]
      BY <2>1, <3>2, Zenon
    <3>4. SchemaKey(CompiledScope(opts), name) = FoldName(e)
            <=> /\ Fold[name[Len(name) - 1]] = Fold[e[1]]
                /\ Fold[name[Len(name)]] = Fold[e[2]]
      BY <2>2, <3>1
    <3>5. QED
      BY <2>3, <3>2, <3>3, <3>4
  <2>4. ASSUME ~IsQualified(name), opts.defaultDB = NoIdent
        PROVE  EndsWith(t, e) <=> looked
    BY <2>1, <2>4, FullNameParts
  <2>5. ASSUME ~IsQualified(name), opts.defaultDB # NoIdent
        PROVE  EndsWith(t, e) <=> looked
    <3>1. SchemaKey(CompiledScope(opts), name) = <<Fold[opts.defaultDB], Fold[name[1]]>>
      BY <1>2, <2>5, FullNameParts DEF SchemaKey, CompiledScope
    <3>2. Len(t) = 2 /\ t[1] = opts.defaultDB /\ t[2] = name[1]
      BY <2>5, FullNameParts
    <3>3. EndsWith(t, e) <=> Fold[opts.defaultDB] = Fold[e[1]] /\ Fold[name[1]] = Fold[e[2]]
      BY <2>1, <3>2
    <3>4. QED
      BY <2>2, <2>5, <3>1, <3>3
  <2>6. EndsWith(t, e) <=> looked
    BY <2>3, <2>4, <2>5
  <2> HIDE DEF t
  <2>7. Len(e) # 3 /\ Len(e) # 1
    BY <1>4
  <2>8. QED
    BY <1>4, <2>6, <2>7, Zenon DEF t
<1>5. CASE Len(e) = 1
  <2>1. EndsWith(t, e) <=> 1 <= Len(t) /\ Fold[t[Len(t)]] = Fold[e[1]]
    BY <1>5, <1>2, FullNameParts DEF EndsWith, IsQualified
  <2>2. FoldName(e) = <<Fold[e[1]]>>
    BY <1>1, <1>5
  <2>3. t[Len(t)] = name[Len(name)] /\ 1 <= Len(t)
    BY <1>2, FullNameParts DEF IsQualified
  <2>4. QED
    BY <1>5, <2>1, <2>2, <2>3 DEF TableOf
<1>6. QED
  BY <1>1, <1>3, <1>4, <1>5

(* matches() accepts a reference exactly when the options cover it.          *)
THEOREM MatchesIffCovered ==
  ASSUME NEW opts, OptsTyped(opts), NEW name \in DottedNames
  PROVE  Matches(CompiledScope(opts), name) <=> Covered(opts, name)
<1> DEFINE sc == CompiledScope(opts)
           E(k) == EntriesOfLength(opts.names, k)
<1>1. ASSUME NEW k, NEW x
      PROVE  x \in E(k) <=> \E e \in ToSet(opts.names) : IsSplittable(e) /\ Len(e) = k /\ x = FoldName(e)
  BY DEF EntriesOfLength
<1>2. \A e \in ToSet(opts.names) : DOMAIN e = 1 .. Len(e)
  BY DEF OptsTyped, ToSet
<1>3. \A e \in ToSet(opts.names) : IsSplittable(e) =>
        (EndsWith(FullName(opts, name), e) <=>
           \/ Len(e) = 3 /\ FoldName(name) = FoldName(e)
           \/ /\ Len(e) = 2
              /\ IsQualified(name) \/ opts.defaultDB # NoIdent
              /\ SchemaKey(sc, name) = FoldName(e)
           \/ Len(e) = 1 /\ <<Fold[TableOf(name)]>> = FoldName(e))
  BY <1>2, EntryLookup
<1> DEFINE ByEntry == \E e \in ToSet(opts.names) : IsSplittable(e) /\ EndsWith(FullName(opts, name), e)
<1>4. ByEntry <=> \/ FoldName(name) \in E(3)
                  \/ (IsQualified(name) \/ opts.defaultDB # NoIdent) /\ SchemaKey(sc, name) \in E(2)
                  \/ <<Fold[TableOf(name)]>> \in E(1)
  <2> DEFINE qualifies == IsQualified(name) \/ opts.defaultDB # NoIdent
             schemaKey == SchemaKey(sc, name)
             whole == FoldName(name)
             table == <<Fold[TableOf(name)]>>
             found(k, x) == \E e \in ToSet(opts.names) : IsSplittable(e) /\ Len(e) = k /\ x = FoldName(e)
  <2> HIDE DEF sc, E, qualifies, schemaKey, whole, table, ByEntry
  <2>1. ASSUME NEW k, NEW x
        PROVE  x \in E(k) <=> found(k, x)
    BY <1>1
  <2>2. ByEntry <=> \/ found(3, whole)
                    \/ qualifies /\ found(2, schemaKey)
                    \/ found(1, table)
    BY <1>3 DEF ByEntry, qualifies, schemaKey, whole, table
  <2> HIDE DEF found
  <2>3. QED
    BY <2>1, <2>2 DEF qualifies, schemaKey, whole, table
<1>5. /\ sc.byCatalogKey = E(3) /\ sc.byKey = E(2) /\ sc.byName = E(1)
      /\ sc.regexps = ToSet(opts.regexps)
      /\ sc.scopeSet = (opts.names # <<>> \/ opts.regexps # <<>>)
      /\ sc.defaultDB # NoIdent <=> opts.defaultDB # NoIdent
  <2>1. sc.defaultDB # NoIdent <=> opts.defaultDB # NoIdent
    BY FoldAssumption DEF CompiledScope, OptsTyped
  <2>2. QED
    BY <2>1 DEF CompiledScope
<1> HIDE DEF sc, E, ByEntry
<1>6. QED
  BY <1>4, <1>5 DEF Matches, Covered, ByEntry, sc

-----------------------------------------------------------------------------
(* The scope of a child is the scope of its body plus what the body's WITH   *)
(* shows to that child.                                                      *)

LEMMA NodeFields ==
  ASSUME NEW q \in Queries, NEW n \in DOMAIN q
  PROVE  NodeTyped(q, n) /\ KidsLinked(q, n) /\ Enclosed(q, n)
BY QueriesAssumption DEF WellFormed

LEMMA RootIsNode ==
  ASSUME NEW q \in Queries
  PROVE  Root \in DOMAIN q /\ DOMAIN q \subseteq Nat /\ q[Root].kind = "query"
BY QueriesAssumption DEF WellFormed

LEMMA CteBodyFields ==
  ASSUME NEW q \in Queries, NEW b \in DOMAIN q, NEW i \in DOMAIN q[b].bodies
  PROVE  /\ i \in Nat \ {0}
         /\ q[b].bodies[i] \in DOMAIN q
         /\ IsCteOf(q, q[b].bodies[i], i, b)
<1>1. q[b].bodies \in Seq(DOMAIN q)
  BY NodeFields DEF NodeTyped
<1>2. i \in Nat \ {0} /\ q[b].bodies[i] \in DOMAIN q
  BY <1>1
<1>3. QED
  BY <1>2, NodeFields DEF KidsLinked

LEMMA ItemFields ==
  ASSUME NEW q \in Queries, NEW b \in DOMAIN q, NEW i \in DOMAIN q[b].items
  PROVE  q[b].items[i] \in DOMAIN q /\ IsItemOf(q, q[b].items[i], b)
<1>1. q[b].items \in Seq(DOMAIN q)
  BY NodeFields DEF NodeTyped
<1>2. q[b].items[i] \in DOMAIN q
  BY <1>1
<1>3. QED
  BY <1>2, NodeFields DEF KidsLinked

LEMMA CteNamesAreIdents ==
  ASSUME NEW q \in Queries, NEW b \in DOMAIN q
  PROVE  CteNames(q, b) \subseteq Idents
<1>1. ASSUME NEW i \in DOMAIN q[b].bodies
      PROVE  Fold[q[q[b].bodies[i]].name[1]] \in Idents
  <2> DEFINE c == q[b].bodies[i]
  <2>1. c \in DOMAIN q /\ Len(q[c].name) = 1
    BY CteBodyFields DEF IsCteOf
  <2>2. q[c].name \in Seq(Idents)
    BY <2>1, NodeFields DEF NodeTyped
  <2>3. q[c].name[1] \in Idents
    BY <2>1, <2>2
  <2>4. QED
    BY <2>3, FoldAssumption
<1>2. QED
  BY <1>1 DEF CteNames, ToSet

LEMMA OuterScopeOfRoot ==
  ASSUME NEW q \in Queries
  PROVE  OuterScope(q, Root) = {}
<1>1. q[Root].in = {Root}
  BY RootIsNode, NodeFields DEF Enclosed
<1>2. QED
  BY <1>1 DEF OuterScope

LEMMA OuterScopeOfChild ==
  ASSUME NEW q \in Queries, NEW a \in DOMAIN q \ {Root}
  PROVE  OuterScope(q, a) = OuterScope(q, q[a].up)
                              \union {Fold[q[c].name[1]] : c \in OuterSeen(q, a)}
<1>0. a \in DOMAIN q /\ a # Root
  OBVIOUS
<1>1. q[a].in = {a} \union q[q[a].up].in
  BY RootIsNode, NodeFields DEF Enclosed
<1>2. q[a].in \ {Root} = {a} \union (q[q[a].up].in \ {Root})
  BY <1>1
<1>3. QED
  BY <1>2 DEF OuterScope

(* What the walk hands to an item of a body and to a CTE body.               *)
LEMMA OuterScopeOfItem ==
  ASSUME NEW q \in Queries, NEW b \in DOMAIN q, NEW i \in DOMAIN q[b].items
  PROVE  OuterScope(q, q[b].items[i]) = OuterScope(q, b) \union CteNames(q, b)
<1> DEFINE a == q[b].items[i]
<1>1. a \in DOMAIN q \ {Root} /\ q[a].up = b /\ q[a].cte = 0
  BY ItemFields DEF IsItemOf
<1>2. OuterSeen(q, a) = ToSet(q[b].bodies)
  BY <1>1 DEF OuterSeen
<1>3. QED
  BY <1>1, <1>2, OuterScopeOfChild DEF CteNames

LEMMA OuterScopeOfCteBody ==
  ASSUME NEW q \in Queries, NEW b \in DOMAIN q, NEW i \in DOMAIN q[b].bodies
  PROVE  OuterScope(q, q[b].bodies[i]) =
           OuterScope(q, b) \union (IF q[b].rec THEN CteNames(q, b) ELSE {})
<1> DEFINE a == q[b].bodies[i]
<1>1. a \in DOMAIN q \ {Root} /\ q[a].up = b /\ q[a].cte # 0
  BY CteBodyFields DEF IsCteOf
<1>2. OuterSeen(q, a) = IF q[b].rec THEN ToSet(q[b].bodies) ELSE {}
  BY <1>1, NodeFields DEF OuterSeen, NodeTyped
<1>3. QED
  BY <1>1, <1>2, OuterScopeOfChild DEF CteNames

-----------------------------------------------------------------------------
(* The inductive invariant of the walk.                                      *)

ScopedFrames(q) == {[at |-> n, ctes |-> OuterScope(q, n)] : n \in DOMAIN q}

Decisions(q) == [node : Tables(q), cte : BOOLEAN, wrap : BOOLEAN]

(* A decision of the call c, as a function of the node alone.                *)
IsScoped(c, d) ==
  /\ d.cte <=> DenotesIn(c.query, d.node, OuterScope(c.query, d.node))
  /\ d.wrap <=> ~d.cte /\ Matches(CompiledScope(c.opts), c.query[d.node].name)

Decided == {decs[i].node : i \in DOMAIN decs}

BelowFrame(n) == \E i \in DOMAIN work : work[i].at \in call.query[n].in

WalkInv ==
  /\ call.query \in Queries /\ IsCall(call)
  /\ pc \in {"compile", "prepare", "walk", "rewrite", "done"}
  /\ pc \in {"prepare", "walk", "rewrite"} => scope = CompiledScope(call.opts)
  /\ work \in Seq(ScopedFrames(call.query))
  /\ decs \in Seq(Decisions(call.query))
  /\ \A i \in DOMAIN decs : IsScoped(call, decs[i])
  /\ pc \in {"compile", "prepare"} => decs = <<>>
  /\ pc = "walk" => \A n \in Tables(call.query) : n \in Decided \/ BelowFrame(n)
  /\ pc = "rewrite" => Tables(call.query) \subseteq Decided
  /\ result \in Results /\ (pc = "done" <=> result # Pending)
  /\ wrapped \subseteq Tables(call.query)
  /\ result \in {"rewritten", "unchanged"} =>
       /\ Tables(call.query) \subseteq Decided
       /\ wrapped = Matched
  /\ result = "unchanged" => wrapped = {}

LEMMA CallFields ==
  ASSUME WalkInv
  PROVE  call.query \in Queries /\ IsCall(call)
BY DEF WalkInv

LEMMA InitWalkInv == Init => WalkInv
<1> SUFFICES ASSUME Init PROVE WalkInv
  OBVIOUS
<1>1. work \in Seq(ScopedFrames(call.query)) /\ decs \in Seq(Decisions(call.query))
  BY EmptySeq DEF Init
<1>2. call.query \in Queries /\ IsCall(call)
  BY CallsAssumption DEF Init
<1>3. QED
  BY <1>1, <1>2 DEF Init, WalkInv, Results, Pending

LEMMA CompileKeepsWalkInv == WalkInv /\ Compile => WalkInv'
<1> SUFFICES ASSUME WalkInv, Compile PROVE WalkInv'
  OBVIOUS
<1> USE DEF WalkInv, Decided, BelowFrame, IsScoped
<1>1. /\ decs = <<>> /\ result = Pending
      /\ UNCHANGED <<call, work, decs, wrapped>>
      /\ Matched' = Matched
  BY DEF Compile, Matched
<1>2. CASE Return("configError") /\ UNCHANGED scope
  BY <1>1, <1>2 DEF Return, Results, Pending
<1>3. CASE scope' = CompiledScope(call.opts) /\ Return(ParseFailure(call.where))
  BY <1>1, <1>3 DEF Return, ParseFailure, Results, Pending
<1>4. CASE /\ scope' = CompiledScope(call.opts)
           /\ Return("configError") \/ Return("decodeError")
  BY <1>1, <1>4 DEF Return, Results, Pending
<1>5. CASE scope' = CompiledScope(call.opts) /\ pc' = "prepare" /\ UNCHANGED result
  BY <1>1, <1>5 DEF Results, Pending
<1>6. QED
  BY <1>2, <1>3, <1>4, <1>5 DEF Compile

LEMMA PrepareKeepsWalkInv == WalkInv /\ Prepare => WalkInv'
<1> SUFFICES ASSUME WalkInv, Prepare PROVE WalkInv'
  OBVIOUS
<1> USE DEF WalkInv, Decided, BelowFrame, IsScoped
<1>1. /\ decs = <<>> /\ result = Pending /\ scope = CompiledScope(call.opts)
      /\ UNCHANGED <<call, scope, decs, wrapped>>
      /\ Matched' = Matched
  BY DEF Prepare, Matched
<1>2. CASE (Return(ParseFailure(call.text)) \/ Return("ErrInternal")) /\ UNCHANGED work
  BY <1>1, <1>2 DEF Return, ParseFailure, Results, Pending
<1>3. CASE /\ pc' = "walk" /\ UNCHANGED result
           /\ work' = <<[at |-> Root, ctes |-> {}]>>
  <2> DEFINE q == call.query
             f == [at |-> Root, ctes |-> {}]
  <2>1. q \in Queries
    BY CallFields
  <2>2. f \in ScopedFrames(q)
    BY <2>1, RootIsNode, OuterScopeOfRoot DEF ScopedFrames
  <2>3. work' \in Seq(ScopedFrames(q)) /\ DOMAIN work' = {1} /\ work'[1] = f
    BY <1>3, <2>2
  <2>4. \A n \in Tables(q) : Root \in q[n].in
    BY <2>1, NodeFields DEF Tables, Enclosed
  <2>5. \A n \in Tables(q) : BelowFrame(n)'
    BY <1>1, <2>3, <2>4
  <2> HIDE DEF q, f
  <2>6. QED
    BY <1>1, <1>3, <2>3, <2>5 DEF Results, Pending, q
<1>4. QED
  BY <1>2, <1>3 DEF Prepare

(* The frames pushed for the children of a body carry their scopes.          *)
LEMMA FramesOfBodies ==
  ASSUME NEW b \in DOMAIN call.query, call.query \in Queries
  PROVE  Frames(call.query[b].bodies, BodyScope(b, OuterScope(call.query, b)))
           \in Seq(ScopedFrames(call.query))
<1> DEFINE q == call.query
           s == q[b].bodies
           fs == Frames(s, BodyScope(b, OuterScope(q, b)))
<1>1. s \in Seq(DOMAIN q)
  BY NodeFields DEF NodeTyped
<1>2. DOMAIN fs = 1 .. Len(s) /\ Len(s) \in Nat
  BY <1>1 DEF Frames
<1>3. ASSUME NEW i \in DOMAIN s
      PROVE  fs[i] \in ScopedFrames(q)
  <2>1. fs[i] = [at |-> s[i], ctes |-> BodyScope(b, OuterScope(q, b))]
    BY <1>3 DEF Frames
  <2>2. OuterScope(q, s[i]) = OuterScope(q, b) \union (IF q[b].rec THEN CteNames(q, b) ELSE {})
    BY <1>3, OuterScopeOfCteBody
  <2>3. BodyScope(b, OuterScope(q, b)) = OuterScope(q, s[i])
    BY <2>2 DEF BodyScope, NewScope
  <2>4. QED
    BY <2>1, <2>3, CteBodyFields, <1>3 DEF ScopedFrames
<1>4. fs = [i \in 1 .. Len(s) |-> fs[i]]
  BY <1>1 DEF Frames
<1>5. \A i \in 1 .. Len(s) : fs[i] \in ScopedFrames(q)
  BY <1>3, <1>1
<1> HIDE DEF fs
<1>6. QED
  BY <1>2, <1>4, <1>5, IsASeq DEF fs

LEMMA FramesOfItems ==
  ASSUME NEW b \in DOMAIN call.query, call.query \in Queries
  PROVE  Frames(call.query[b].items, NewScope(b, OuterScope(call.query, b)))
           \in Seq(ScopedFrames(call.query))
<1> DEFINE q == call.query
           s == q[b].items
           fs == Frames(s, NewScope(b, OuterScope(q, b)))
<1>1. s \in Seq(DOMAIN q)
  BY NodeFields DEF NodeTyped
<1>2. DOMAIN fs = 1 .. Len(s) /\ Len(s) \in Nat
  BY <1>1 DEF Frames
<1>3. ASSUME NEW i \in DOMAIN s
      PROVE  fs[i] \in ScopedFrames(q)
  <2>1. fs[i] = [at |-> s[i], ctes |-> NewScope(b, OuterScope(q, b))]
    BY <1>3 DEF Frames
  <2>2. NewScope(b, OuterScope(q, b)) = OuterScope(q, s[i])
    BY <1>3, OuterScopeOfItem DEF NewScope
  <2>3. QED
    BY <2>1, <2>2, ItemFields, <1>3 DEF ScopedFrames
<1>4. fs = [i \in 1 .. Len(s) |-> fs[i]]
  BY <1>1 DEF Frames
<1>5. \A i \in 1 .. Len(s) : fs[i] \in ScopedFrames(q)
  BY <1>3, <1>1
<1> HIDE DEF fs
<1>6. QED
  BY <1>2, <1>4, <1>5, IsASeq DEF fs

(* Where the frames of a body's children and the older frames end up.        *)
LEMMA PushedFrames ==
  ASSUME NEW SF, NEW w \in Seq(SF), w # <<>>, NEW s \in Seq(SF), NEW t \in Seq(SF)
  PROVE  LET pushed == (s \o t) \o Tail(w)
         IN  /\ Len(s) \in Nat /\ Len(t) \in Nat /\ Len(w) \in Nat \ {0}
             /\ DOMAIN w = 1 .. Len(w)
             /\ pushed \in Seq(SF)
             /\ DOMAIN pushed = 1 .. (Len(s) + Len(t) + (Len(w) - 1))
             /\ \A k \in 1 .. Len(s) : pushed[k] = s[k]
             /\ \A k \in 1 .. Len(t) : pushed[Len(s) + k] = t[k]
             /\ \A k \in 2 .. Len(w) : pushed[Len(s) + Len(t) + (k - 1)] = w[k]
<1> DEFINE st == s \o t
           tl == Tail(w)
<1>1. /\ Len(s) \in Nat /\ Len(t) \in Nat /\ Len(w) \in Nat \ {0}
      /\ DOMAIN w = 1 .. Len(w)
  BY LenProperties, EmptySeq
<1>2. /\ st \in Seq(SF) /\ Len(st) = Len(s) + Len(t)
      /\ \A k \in 1 .. Len(s) : st[k] = s[k]
      /\ \A k \in 1 .. Len(t) : st[Len(s) + k] = t[k]
  OBVIOUS
<1>3. /\ tl \in Seq(SF) /\ Len(tl) = Len(w) - 1
      /\ \A k \in 1 .. (Len(w) - 1) : tl[k] = w[k + 1]
  BY <1>1
<1> HIDE DEF st, tl
<1>4. /\ st \o tl \in Seq(SF)
      /\ Len(st \o tl) = Len(st) + Len(tl)
      /\ DOMAIN (st \o tl) = 1 .. Len(st \o tl)
      /\ \A k \in 1 .. Len(st) : (st \o tl)[k] = st[k]
      /\ \A k \in 1 .. Len(tl) : (st \o tl)[Len(st) + k] = tl[k]
  <2>1. st \in Seq(SF) /\ tl \in Seq(SF)
    BY <1>2, <1>3
  <2>2. QED
    BY <2>1, ConcatProperties, LenProperties
<1> DEFINE pushed == st \o tl
<1> HIDE DEF pushed
<1>5. \A k \in 1 .. Len(s) : pushed[k] = s[k]
  BY <1>1, <1>2, <1>4 DEF pushed
<1>6. \A k \in 1 .. Len(t) : pushed[Len(s) + k] = t[k]
  BY <1>1, <1>2, <1>4 DEF pushed
<1>7. ASSUME NEW k \in 2 .. Len(w)
      PROVE  pushed[Len(s) + Len(t) + (k - 1)] = w[k]
  <2>1. k - 1 \in 1 .. Len(tl) /\ (k - 1) + 1 = k
    BY <1>1, <1>3
  <2>2. pushed[Len(st) + (k - 1)] = tl[k - 1]
    BY <2>1, <1>4 DEF pushed
  <2>3. tl[k - 1] = w[k]
    BY <2>1, <1>3
  <2>4. QED
    BY <2>2, <2>3, <1>2
<1>8. DOMAIN pushed = 1 .. (Len(s) + Len(t) + (Len(w) - 1)) /\ pushed \in Seq(SF)
  BY <1>2, <1>3, <1>4 DEF pushed
<1>9. QED
  BY <1>1, <1>5, <1>6, <1>7, <1>8 DEF pushed, st, tl

LEMMA FramesFields ==
  ASSUME NEW N, NEW s \in Seq(N), NEW ctes, NEW i \in DOMAIN s
  PROVE  i \in 1 .. Len(Frames(s, ctes)) /\ Frames(s, ctes)[i].at = s[i]
<1>1. Frames(s, ctes) = [k \in 1 .. Len(s) |-> [at |-> s[k], ctes |-> ctes]]
      /\ Len(s) \in Nat /\ i \in 1 .. Len(s)
  BY DEF Frames
<1>2. Frames(s, ctes) \in Seq({[at |-> n, ctes |-> ctes] : n \in N})
  BY <1>1
<1>3. QED
  BY <1>1, <1>2

LEMMA FramesOf ==
  ASSUME NEW N, NEW s \in Seq(N), NEW ctes
  PROVE  /\ DOMAIN s = 1 .. Len(Frames(s, ctes))
         /\ \A i \in 1 .. Len(Frames(s, ctes)) : Frames(s, ctes)[i].at = s[i]
<1> DEFINE fs == Frames(s, ctes)
<1>1. fs = [i \in 1 .. Len(s) |-> [at |-> s[i], ctes |-> ctes]] /\ Len(s) \in Nat
  BY DEF Frames
<1>2. DOMAIN s = 1 .. Len(s)
  OBVIOUS
<1>3. Len(fs) = Len(s)
  <2>1. fs \in Seq({[at |-> n, ctes |-> ctes] : n \in N})
    BY <1>1
  <2>2. DOMAIN fs = 1 .. Len(s) /\ DOMAIN fs = 1 .. Len(fs)
    BY <1>1, <2>1
  <2>3. QED
    BY <2>1, <2>2, <1>1
<1>4. \A i \in 1 .. Len(s) : fs[i].at = s[i]
  BY <1>1
<1> HIDE DEF fs
<1>5. QED
  BY <1>2, <1>3, <1>4 DEF fs

LEMMA CollectQueryKeepsWalkInv == WalkInv /\ CollectQuery => WalkInv'
<1> SUFFICES ASSUME WalkInv, CollectQuery PROVE WalkInv'
  OBVIOUS
<1> DEFINE q == call.query
           b == Head(work).at
           bodies == Frames(q[b].bodies, BodyScope(b, OuterScope(q, b)))
           items == Frames(q[b].items, NewScope(b, OuterScope(q, b)))
           SF == ScopedFrames(q)
<1>1. q \in Queries /\ work \in Seq(SF) /\ work # <<>>
  BY CallFields DEF WalkInv, CollectQuery
<1>2. b \in DOMAIN q /\ Head(work).ctes = OuterScope(q, b) /\ q[b].kind = "query"
  <2>1. Head(work) \in SF
    BY <1>1, HeadTailProperties
  <2>2. PICK n \in DOMAIN q : Head(work) = [at |-> n, ctes |-> OuterScope(q, n)]
    BY <2>1 DEF ScopedFrames
  <2>3. b = n /\ Head(work).ctes = OuterScope(q, n)
    BY <2>2
  <2>4. q[b].kind = "query"
    BY DEF CollectQuery
  <2>5. QED
    BY <2>3, <2>4
<1>3. bodies \in Seq(SF) /\ items \in Seq(SF) /\ Tail(work) \in Seq(SF)
  BY <1>1, <1>2, FramesOfBodies, FramesOfItems, HeadTailProperties
<1>4. work' = (bodies \o items) \o Tail(work)
  <2>1. work' = bodies \o items \o Tail(work)
    BY <1>2 DEF CollectQuery
  <2>2. QED
    BY <2>1, <1>3
<1>5. UNCHANGED <<call, pc, scope, decs, wrapped, result>> /\ pc = "walk"
  BY DEF CollectQuery
<1> DEFINE nb == Len(bodies)
           ni == Len(items)
<1> HIDE DEF bodies, items, SF, nb, ni
<1>6. /\ nb \in Nat /\ ni \in Nat /\ Len(work) \in Nat \ {0}
      /\ DOMAIN work = 1 .. Len(work)
      /\ work' \in Seq(SF) /\ DOMAIN work' = 1 .. (nb + ni + (Len(work) - 1))
      /\ \A k \in 1 .. nb : work'[k] = bodies[k]
      /\ \A k \in 1 .. ni : work'[nb + k] = items[k]
      /\ \A k \in 2 .. Len(work) : work'[nb + ni + (k - 1)] = work[k]
  BY <1>1, <1>3, <1>4, PushedFrames, SMTT(60) DEF nb, ni
<1>8. ASSUME NEW n \in Tables(q), BelowFrame(n)
      PROVE  BelowFrame(n)'
  <2>1. PICK k \in 1 .. Len(work) : work[k].at \in q[n].in
    BY <1>6, <1>8 DEF BelowFrame
  <2>2. CASE k # 1
    <3>1. nb + ni + (k - 1) \in DOMAIN work' /\ work'[nb + ni + (k - 1)] = work[k]
      BY <1>6, <2>2
    <3>2. QED
      BY <3>1, <2>1, <1>5 DEF BelowFrame
  <2>3. CASE k = 1
    <3>1. b \in q[n].in /\ n # b /\ n \in DOMAIN q
      BY <2>1, <2>3, <1>1, <1>2 DEF Tables
    <3>2. PICK c \in Kids(q, b) : c \in q[n].in
      BY <3>1, <1>1, NodeFields DEF Enclosed
    <3>3. CASE \E i \in DOMAIN q[b].bodies : c = q[b].bodies[i]
      <4>1. PICK i \in DOMAIN q[b].bodies : c = q[b].bodies[i]
        BY <3>3
      <4>2. q[b].bodies \in Seq(DOMAIN q)
        BY <1>1, <1>2, NodeFields DEF NodeTyped
      <4>3. i \in 1 .. nb /\ bodies[i].at = c
        BY <4>1, <4>2, FramesFields DEF bodies, nb
      <4>4. i \in DOMAIN work' /\ work'[i].at = c
        BY <4>3, <1>6
      <4>5. QED
        BY <4>4, <3>2, <1>5 DEF BelowFrame
    <3>4. CASE \E i \in DOMAIN q[b].items : c = q[b].items[i]
      <4>1. PICK i \in DOMAIN q[b].items : c = q[b].items[i]
        BY <3>4
      <4>2. q[b].items \in Seq(DOMAIN q)
        BY <1>1, <1>2, NodeFields DEF NodeTyped
      <4>3. i \in 1 .. ni /\ items[i].at = c
        BY <4>1, <4>2, FramesFields DEF items, ni
      <4>4. nb + i \in DOMAIN work' /\ work'[nb + i].at = c
        BY <4>3, <1>6
      <4>5. QED
        BY <4>4, <3>2, <1>5 DEF BelowFrame
    <3>5. QED
      BY <3>2, <3>3, <3>4 DEF Kids, ToSet
  <2>4. QED
    BY <2>2, <2>3
<1>9. Matched' = Matched /\ Decided' = Decided
  BY <1>5 DEF Matched, Decided
<1>10. QED
  BY <1>5, <1>6, <1>8, <1>9 DEF WalkInv, SF

LEMMA CollectTableKeepsWalkInv == WalkInv /\ CollectTable => WalkInv'
<1> SUFFICES ASSUME WalkInv, CollectTable PROVE WalkInv'
  OBVIOUS
<1> DEFINE q == call.query
           t == Head(work).at
           d == Decide(t, Head(work).ctes)
           SF == ScopedFrames(q)
<1>1. q \in Queries /\ work \in Seq(SF) /\ work # <<>> /\ scope = CompiledScope(call.opts)
  BY CallFields DEF WalkInv, CollectTable
<1>2. t \in Tables(q) /\ Head(work).ctes = OuterScope(q, t)
  <2>1. Head(work) \in SF
    BY <1>1, HeadTailProperties
  <2>2. PICK n \in DOMAIN q : Head(work) = [at |-> n, ctes |-> OuterScope(q, n)]
    BY <2>1 DEF ScopedFrames
  <2>3. t = n /\ Head(work).ctes = OuterScope(q, n)
    BY <2>2
  <2>4. q[t].kind = "table"
    BY DEF CollectTable
  <2>5. QED
    BY <2>3, <2>4 DEF Tables
<1>3. /\ UNCHANGED <<call, pc, scope, wrapped, result>> /\ pc = "walk"
      /\ decs' = Append(decs, d) /\ work' = Tail(work)
  BY DEF CollectTable
<1>4. d \in Decisions(q) /\ d.node = t /\ IsScoped(call, d)
  <2>1. d.cte \in BOOLEAN /\ d.wrap \in BOOLEAN
    BY DEF Decide, DenotesIn
  <2>2. d \in Decisions(q) /\ d.node = t
    BY <2>1, <1>2 DEF Decide, Decisions
  <2>3. IsScoped(call, d)
    BY <1>1, <1>2 DEF Decide, IsScoped
  <2>4. QED
    BY <2>2, <2>3
<1>5. /\ work' \in Seq(SF) /\ Len(work) \in Nat /\ DOMAIN work = 1 .. Len(work)
      /\ DOMAIN work' = 1 .. (Len(work) - 1)
      /\ \A k \in 1 .. (Len(work) - 1) : work'[k] = work[k + 1]
  BY <1>1, <1>3, HeadTailProperties, LenProperties
<1> HIDE DEF d, SF
<1>6. /\ decs' \in Seq(Decisions(q))
      /\ DOMAIN decs' = 1 .. (Len(decs) + 1) /\ DOMAIN decs = 1 .. Len(decs) /\ Len(decs) \in Nat
      /\ \A i \in 1 .. Len(decs) : decs'[i] = decs[i]
      /\ decs'[Len(decs) + 1] = d
  BY <1>3, <1>4, AppendProperties, LenProperties DEF WalkInv
<1>7. Decided' = Decided \union {t}
  BY <1>6, <1>4 DEF Decided
<1>8. \A i \in DOMAIN decs' : IsScoped(call, decs'[i])
  BY <1>4, <1>6 DEF WalkInv
<1>9. ASSUME NEW n \in Tables(q), BelowFrame(n), n # t
      PROVE  BelowFrame(n)'
  <2>1. PICK k \in 1 .. Len(work) : work[k].at \in q[n].in
    BY <1>5, <1>9 DEF BelowFrame
  <2>2. k # 1
    <3>1. Kids(q, t) = {}
      BY <1>1, <1>2, NodeFields DEF Tables, NodeTyped
    <3>2. t \notin q[n].in
      BY <3>1, <1>1, <1>9, NodeFields DEF Enclosed, Tables
    <3>3. QED
      BY <3>2, <2>1, <1>1
  <2>3. k - 1 \in DOMAIN work' /\ work'[k - 1] = work[k]
    BY <2>2, <1>5
  <2>4. QED
    BY <2>3, <2>1, <1>3 DEF BelowFrame
<1>10. \A n \in Tables(q) : (n \in Decided \/ BelowFrame(n))'
  BY <1>3, <1>7, <1>9 DEF WalkInv
<1>11. result = Pending /\ UNCHANGED <<call, pc, scope, wrapped, result>>
  BY <1>3 DEF WalkInv
<1>12. QED
  BY <1>3, <1>5, <1>6, <1>8, <1>10, <1>11 DEF WalkInv, SF, Pending

LEMMA WalkDoneKeepsWalkInv == WalkInv /\ WalkDone => WalkInv'
<1> SUFFICES ASSUME WalkInv, WalkDone PROVE WalkInv'
  OBVIOUS
<1>1. /\ pc = "walk" /\ pc' = "rewrite" /\ work = <<>>
      /\ UNCHANGED <<call, scope, work, decs, wrapped, result>>
  BY DEF WalkDone
<1>2. \A n \in Tables(call.query) : ~BelowFrame(n)
  BY <1>1 DEF BelowFrame
<1>3. Tables(call.query) \subseteq Decided /\ result = Pending
  BY <1>1, <1>2 DEF WalkInv
<1>4. Decided' = Decided
  BY <1>1 DEF Decided
<1>5. QED
  BY <1>1, <1>3, <1>4 DEF WalkInv, Pending

LEMMA RewriteKeepsWalkInv == WalkInv /\ Rewrite => WalkInv'
<1> SUFFICES ASSUME WalkInv, Rewrite PROVE WalkInv'
  OBVIOUS
<1>1. /\ pc = "rewrite" /\ pc' = "done" /\ wrapped' = Matched
      /\ UNCHANGED <<call, scope, work, decs>>
      /\ \/ Matched = {} /\ result' = "unchanged"
         \/ result' \in GenerateResults
  BY DEF Rewrite, Return
<1>2. Decided' = Decided /\ Matched' = Matched
  BY <1>1 DEF Decided, Matched
<1>3. Matched \subseteq Tables(call.query)
  <2>1. \A i \in DOMAIN decs : decs[i] \in Decisions(call.query)
    BY DEF WalkInv
  <2>2. QED
    BY <2>1 DEF Matched, Decisions
<1>4. QED
  BY <1>1, <1>2, <1>3 DEF WalkInv, GenerateResults, Results, Pending

LEMMA StutterKeepsWalkInv == WalkInv /\ UNCHANGED vars => WalkInv'
<1> SUFFICES ASSUME WalkInv, UNCHANGED vars PROVE WalkInv'
  OBVIOUS
<1>1. Decided' = Decided /\ Matched' = Matched
  BY DEF vars, Decided, Matched
<1>2. \A n : BelowFrame(n)' <=> BelowFrame(n)
  BY DEF vars, BelowFrame
<1>3. QED
  BY <1>1, <1>2 DEF vars, WalkInv

(* The walk's invariant holds in every reachable state.                      *)
THEOREM WalkInvariant == Spec => []WalkInv
<1>1. WalkInv /\ [Next]_vars => WalkInv'
  BY CompileKeepsWalkInv, PrepareKeepsWalkInv, CollectQueryKeepsWalkInv,
     CollectTableKeepsWalkInv, WalkDoneKeepsWalkInv, RewriteKeepsWalkInv,
     StutterKeepsWalkInv DEF Next, Done
<1>2. QED
  BY InitWalkInv, <1>1, PTL DEF Spec

-----------------------------------------------------------------------------
(* The properties the runs check.                                            *)

LEMMA OuterScopeIdents ==
  ASSUME NEW q \in Queries, NEW n \in DOMAIN q
  PROVE  OuterScope(q, n) \subseteq Idents
<1>1. ASSUME NEW a \in q[n].in, NEW c \in OuterSeen(q, a)
      PROVE  Fold[q[c].name[1]] \in Idents
  <2>1. a \in DOMAIN q
    BY <1>1, NodeFields DEF NodeTyped
  <2>2. q[a].up \in DOMAIN q
    BY <2>1, NodeFields DEF NodeTyped
  <2>3. c \in ToSet(q[q[a].up].bodies)
    BY <1>1 DEF OuterSeen
  <2>4. Fold[q[c].name[1]] \in CteNames(q, q[a].up)
    BY <2>3 DEF CteNames
  <2>5. QED
    BY <2>2, <2>4, CteNamesAreIdents
<1>2. QED
  BY <1>1 DEF OuterScope

(* Every state of a call is of the declared types: the stack holds nodes of  *)
(* the statement with sets of identifiers, the decisions are about its       *)
(* relations, the scope in force is the compiled one, and a call has a       *)
(* result exactly when it has returned.                                      *)
THEOREM TypeCorrect == Spec => []TypeOK
<1>1. WalkInv => TypeOK
  <2> SUFFICES ASSUME WalkInv PROVE TypeOK
    OBVIOUS
  <2> DEFINE q == call.query
             F == [at : DOMAIN q, ctes : SUBSET Idents]
  <2>1. q \in Queries
    BY CallFields DEF WalkInv
  <2>2. ScopedFrames(q) \subseteq F
    BY <2>1, OuterScopeIdents DEF ScopedFrames
  <2>3. work \in Seq(ScopedFrames(q))
    BY DEF WalkInv
  <2> HIDE DEF F
  <2>4. work \in Seq(F)
    BY <2>2, <2>3
  <2>5. QED
    BY <2>4 DEF WalkInv, TypeOK, Decisions, F
<1>2. QED
  BY <1>1, WalkInvariant, PTL

(* The decisions of the walk follow SQL scoping but for earlier siblings.    *)
THEOREM ScopingFollowed == Spec => []DecisionsFollowScoping
<1>1. WalkInv => DecisionsFollowScoping
  <2> SUFFICES ASSUME WalkInv, NEW i \in DOMAIN decs
               PROVE  decs[i].cte <=> /\ DenotesCte(call.query, decs[i].node)
                                      /\ ~DenotesEarlierSibling(call.query, decs[i].node)
    BY DEF DecisionsFollowScoping
  <2> DEFINE q == call.query
             n == decs[i].node
  <2>1. decs[i].cte <=> DenotesIn(q, n, OuterScope(q, n))
    BY DEF WalkInv, IsScoped
  <2>2. OuterScope(q, n) \subseteq SqlScope(q, n)
    BY DEF OuterScope, SqlScope, OuterSeen, SqlSeen
  <2>3. DenotesIn(q, n, OuterScope(q, n)) => DenotesCte(q, n)
    BY <2>2 DEF DenotesIn, DenotesCte
  <2>4. QED
    BY <2>1, <2>3 DEF DenotesEarlierSibling
<1>2. QED
  BY <1>1, WalkInvariant, PTL

(* Once every relation has its decision, the nodes decided to be wrapped are *)
(* the covered ones that the enclosing scopes do not declare as CTEs.        *)
LEMMA MatchedNodes ==
  ASSUME WalkInv
  PROVE  Matched = {n \in Decided : /\ ~DenotesIn(call.query, n, OuterScope(call.query, n))
                                     /\ Covered(call.opts, call.query[n].name)}
<1> DEFINE q == call.query
<1>1. ASSUME NEW i \in DOMAIN decs
      PROVE  decs[i].wrap <=> /\ ~DenotesIn(q, decs[i].node, OuterScope(q, decs[i].node))
                              /\ Covered(call.opts, q[decs[i].node].name)
  <2> DEFINE n == decs[i].node
  <2>1. IsScoped(call, decs[i]) /\ decs[i] \in Decisions(q)
    BY DEF WalkInv
  <2>2. n \in Tables(q) /\ q \in Queries /\ IsCall(call)
    BY <2>1, CallFields DEF Decisions
  <2>3. q[n].name \in DottedNames /\ OptsTyped(call.opts)
    BY <2>2, NodeFields DEF Tables, NodeTyped, IsCall, OptsTyped
  <2>4. Matches(CompiledScope(call.opts), q[n].name) <=> Covered(call.opts, q[n].name)
    BY <2>3, MatchesIffCovered
  <2>5. QED
    BY <2>1, <2>4 DEF IsScoped
<1>2. QED
  BY <1>1 DEF Matched, Decided

(* ApplyRowFilter's promise: in the SQL a call returns, every reference to a *)
(* covered physical table is wrapped, and nothing is wrapped that is not     *)
(* covered or that denotes a CTE other than an earlier sibling; the input    *)
(* comes back unchanged only when there was nothing to wrap.                 *)
THEOREM AnswersFilterAll == Spec => []AnswerFiltersAll
<1>1. WalkInv => AnswerFiltersAll
  <2> SUFFICES ASSUME WalkInv, result \in {"rewritten", "unchanged"}
               PROVE  AnswerFiltersAll
    BY DEF AnswerFiltersAll
  <2> DEFINE q == call.query
             outer(n) == DenotesIn(q, n, OuterScope(q, n))
  <2>1. Tables(q) \subseteq Decided /\ wrapped = Matched
        /\ (result = "unchanged" => wrapped = {})
    BY DEF WalkInv
  <2>2. wrapped = {n \in Decided : ~outer(n) /\ Covered(call.opts, q[n].name)}
    BY <2>1, MatchedNodes
  <2>3. ASSUME NEW n
        PROVE  outer(n) => DenotesCte(q, n)
    <3>1. OuterScope(q, n) \subseteq SqlScope(q, n)
      BY DEF OuterScope, SqlScope, OuterSeen, SqlSeen
    <3>2. QED
      BY <3>1 DEF DenotesIn, DenotesCte
  <2> HIDE DEF q
  <2>4. MustFilter \subseteq wrapped
    BY <2>1, <2>2, <2>3 DEF MustFilter, q
  <2>5. \A n \in wrapped :
          /\ Covered(call.opts, call.query[n].name)
          /\ DenotesCte(call.query, n) => DenotesEarlierSibling(call.query, n)
    BY <2>2 DEF DenotesEarlierSibling, q
  <2>6. result = "unchanged" => MustFilter = {}
    BY <2>1, <2>4
  <2>7. QED
    BY <2>4, <2>5, <2>6 DEF AnswerFiltersAll
<1>2. QED
  BY <1>1, WalkInvariant, PTL

-----------------------------------------------------------------------------
(* No reference is decided twice: the nodes on the stack lie in different    *)
(* parts of the statement, so no node is below two of them, and what has     *)
(* been decided is below none.                                               *)

FramesApart ==
  \A n \in DOMAIN call.query : \A i, j \in DOMAIN work :
    work[i].at \in call.query[n].in /\ work[j].at \in call.query[n].in => i = j

DecidedApart == \A n \in Decided : ~BelowFrame(n)

DecisionsDistinct == \A i, j \in DOMAIN decs : decs[i].node = decs[j].node => i = j

Apart ==
  /\ pc \in {"compile", "prepare"} => work = <<>>
  /\ FramesApart /\ DecidedApart /\ DecisionsDistinct

LEMMA NodeInItself ==
  ASSUME NEW q \in Queries, NEW n \in DOMAIN q
  PROVE  n \in q[n].in
BY NodeFields DEF Enclosed

(* The body of a child lies around whatever the child lies around, and a     *)
(* node is below one child of a body at most.                                *)
LEMMA ChildAround ==
  ASSUME NEW q \in Queries, NEW n \in DOMAIN q, NEW b \in DOMAIN q,
         NEW c \in q[n].in, c # Root, q[c].up = b
  PROVE  /\ b \in q[n].in
         /\ \A d \in q[n].in : d # Root /\ q[d].up = b => d = c
BY NodeFields DEF Enclosed

LEMMA CollectQueryKeepsApart == WalkInv /\ Apart /\ CollectQuery => Apart'
<1> SUFFICES ASSUME WalkInv, Apart, CollectQuery PROVE Apart'
  OBVIOUS
<1> DEFINE q == call.query
           b == Head(work).at
           bodies == Frames(q[b].bodies, BodyScope(b, OuterScope(q, b)))
           items == Frames(q[b].items, NewScope(b, OuterScope(q, b)))
           SF == ScopedFrames(q)
<1>1. q \in Queries /\ work \in Seq(SF) /\ work # <<>>
  BY CallFields DEF WalkInv, CollectQuery
<1>2. b \in DOMAIN q /\ Head(work).ctes = OuterScope(q, b) /\ b = work[1].at
  <2>1. Head(work) \in SF
    BY <1>1, HeadTailProperties
  <2>2. PICK n \in DOMAIN q : Head(work) = [at |-> n, ctes |-> OuterScope(q, n)]
    BY <2>1 DEF ScopedFrames
  <2>3. QED
    BY <1>1, <2>2
<1>3. bodies \in Seq(SF) /\ items \in Seq(SF) /\ Tail(work) \in Seq(SF)
  BY <1>1, <1>2, FramesOfBodies, FramesOfItems, HeadTailProperties
<1>4. work' = (bodies \o items) \o Tail(work)
  <2>1. work' = bodies \o items \o Tail(work)
    BY <1>2 DEF CollectQuery
  <2>2. QED
    BY <2>1, <1>3
<1>5. UNCHANGED <<call, pc, decs>> /\ pc = "walk"
  BY DEF CollectQuery
<1>b. q[b].bodies \in Seq(DOMAIN q) /\ q[b].items \in Seq(DOMAIN q)
  BY <1>1, <1>2, NodeFields DEF NodeTyped
<1> DEFINE nb == Len(bodies)
           ni == Len(items)
<1>c. /\ DOMAIN q[b].bodies = 1 .. nb
      /\ \A i \in 1 .. nb : bodies[i].at = q[b].bodies[i]
  BY <1>b, FramesOf
<1>d. /\ DOMAIN q[b].items = 1 .. ni
      /\ \A i \in 1 .. ni : items[i].at = q[b].items[i]
  BY <1>b, FramesOf
<1> HIDE DEF bodies, items, SF, nb, ni
<1>6. /\ nb \in Nat /\ ni \in Nat /\ Len(work) \in Nat \ {0}
      /\ DOMAIN work = 1 .. Len(work)
      /\ DOMAIN work' = 1 .. (nb + ni + (Len(work) - 1))
      /\ \A k \in 1 .. nb : work'[k] = bodies[k]
      /\ \A k \in 1 .. ni : work'[nb + k] = items[k]
      /\ \A k \in 2 .. Len(work) : work'[nb + ni + (k - 1)] = work[k]
  BY <1>1, <1>3, <1>4, PushedFrames, SMTT(60) DEF nb, ni
<1> DEFINE at(k) == work'[k].at
<1>7. ASSUME NEW k \in 1 .. nb
      PROVE  at(k) # Root /\ q[at(k)].up = b /\ q[at(k)].cte = k
  <2>1. at(k) = q[b].bodies[k]
    BY <1>6, <1>c
  <2>2. k \in DOMAIN q[b].bodies
    BY <1>c
  <2>3. IsCteOf(q, q[b].bodies[k], k, b)
    BY <2>2, <1>1, <1>2, CteBodyFields
  <2>4. QED
    BY <2>1, <2>3 DEF IsCteOf
<1>8. ASSUME NEW k \in (nb + 1) .. (nb + ni)
      PROVE  /\ k - nb \in 1 .. ni /\ at(k) = q[b].items[k - nb]
             /\ at(k) # Root /\ q[at(k)].up = b /\ q[at(k)].cte = 0
  <2>1. k - nb \in 1 .. ni /\ nb + (k - nb) = k
    BY <1>6
  <2>2. at(k) = q[b].items[k - nb]
    <3>1. work'[nb + (k - nb)] = items[k - nb]
      BY <2>1, <1>6
    <3>2. items[k - nb].at = q[b].items[k - nb]
      BY <2>1, <1>d
    <3>3. QED
      BY <2>1, <3>1, <3>2
  <2>3. k - nb \in DOMAIN q[b].items
    BY <2>1, <1>d
  <2>4. IsItemOf(q, q[b].items[k - nb], b)
    BY <2>3, <1>1, <1>2, ItemFields
  <2>5. QED
    BY <2>1, <2>2, <2>4 DEF IsItemOf
<1>9. ASSUME NEW k \in 1 .. (nb + ni), NEW l \in 1 .. (nb + ni), at(k) = at(l)
      PROVE  k = l
  <2>1. CASE k \in 1 .. nb /\ l \in 1 .. nb
    BY <2>1, <1>7, <1>9
  <2>2. CASE k \in 1 .. nb /\ l \notin 1 .. nb
    <3>1. l \in (nb + 1) .. (nb + ni) /\ k # 0
      BY <2>2, <1>6
    <3>2. QED
      BY <3>1, <2>2, <1>7, <1>8, <1>9
  <2>3. CASE k \notin 1 .. nb /\ l \in 1 .. nb
    <3>1. k \in (nb + 1) .. (nb + ni) /\ l # 0
      BY <2>3, <1>6
    <3>2. QED
      BY <3>1, <2>3, <1>7, <1>8, <1>9
  <2>4. CASE k \notin 1 .. nb /\ l \notin 1 .. nb
    <3>1. k \in (nb + 1) .. (nb + ni) /\ l \in (nb + 1) .. (nb + ni)
      BY <2>4, <1>6
    <3>2. q[b].items[k - nb] = q[b].items[l - nb]
      BY <3>1, <1>8, <1>9
    <3>3. k - nb \in DOMAIN q[b].items /\ l - nb \in DOMAIN q[b].items
      BY <3>1, <1>8, <1>d
    <3>4. KidsLinked(q, b)
      BY <1>1, <1>2, NodeFields
    <3>5. k - nb = l - nb
      BY <3>2, <3>3, <3>4 DEF KidsLinked
    <3>6. QED
      BY <3>1, <3>5, <1>6
  <2>5. QED
    BY <2>1, <2>2, <2>3, <2>4
<1>10. ASSUME NEW k \in 1 .. (nb + ni)
       PROVE  at(k) # Root /\ q[at(k)].up = b
  <2>1. k \in 1 .. nb \/ k \in (nb + 1) .. (nb + ni)
    BY <1>6
  <2>2. QED
    BY <2>1, <1>7, <1>8
<1>11. ASSUME NEW k \in DOMAIN work', k \notin 1 .. (nb + ni)
       PROVE  LET o == k - (nb + ni) + 1
              IN  o \in 2 .. Len(work) /\ o \in DOMAIN work /\ at(k) = work[o].at
  <2> DEFINE o == k - (nb + ni) + 1
  <2>1. o \in 2 .. Len(work) /\ nb + ni + (o - 1) = k
    BY <1>6, <1>11
  <2>2. QED
    BY <2>1, <1>6
<1>12. 1 \in DOMAIN work
  BY <1>6
<1>13. FramesApart'
  <2> SUFFICES ASSUME NEW n \in DOMAIN q, NEW i \in DOMAIN work', NEW j \in DOMAIN work',
                      at(i) \in q[n].in, at(j) \in q[n].in
               PROVE  i = j
    BY <1>5 DEF FramesApart
  <2>1. CASE i \in 1 .. (nb + ni) /\ j \in 1 .. (nb + ni)
    <3>1. at(i) = at(j)
      BY <2>1, <1>1, <1>2, <1>10, ChildAround
    <3>2. QED
      BY <2>1, <3>1, <1>9
  <2>2. CASE i \in 1 .. (nb + ni) /\ j \notin 1 .. (nb + ni)
    <3>1. b \in q[n].in
      BY <2>2, <1>1, <1>2, <1>10, ChildAround
    <3>2. QED
      BY <2>2, <3>1, <1>2, <1>11, <1>12 DEF Apart, FramesApart
  <2>3. CASE i \notin 1 .. (nb + ni) /\ j \in 1 .. (nb + ni)
    <3>1. b \in q[n].in
      BY <2>3, <1>1, <1>2, <1>10, ChildAround
    <3>2. QED
      BY <2>3, <3>1, <1>2, <1>11, <1>12 DEF Apart, FramesApart
  <2>4. CASE i \notin 1 .. (nb + ni) /\ j \notin 1 .. (nb + ni)
    <3>1. i - (nb + ni) + 1 = j - (nb + ni) + 1
      BY <2>4, <1>11 DEF Apart, FramesApart
    <3>2. QED
      BY <3>1, <1>6
  <2>5. QED
    BY <2>1, <2>2, <2>3, <2>4
<1>14. DecidedApart'
  <2> SUFFICES ASSUME NEW n \in Decided, NEW k \in DOMAIN work', at(k) \in q[n].in
               PROVE  FALSE
    BY <1>5 DEF DecidedApart, Decided, BelowFrame
  <2>1. n \in DOMAIN q
    <3>1. \A i \in DOMAIN decs : decs[i] \in Decisions(q)
      BY DEF WalkInv
    <3>2. QED
      BY <3>1 DEF Decided, Decisions, Tables
  <2>2. CASE k \in 1 .. (nb + ni)
    <3>1. b \in q[n].in
      BY <2>1, <2>2, <1>1, <1>2, <1>10, ChildAround
    <3>2. QED
      BY <3>1, <1>2, <1>12 DEF Apart, DecidedApart, BelowFrame
  <2>3. CASE k \notin 1 .. (nb + ni)
    BY <2>3, <1>11 DEF Apart, DecidedApart, BelowFrame
  <2>4. QED
    BY <2>2, <2>3
<1>15. QED
  BY <1>5, <1>13, <1>14 DEF Apart, DecisionsDistinct

LEMMA CollectTableKeepsApart == WalkInv /\ Apart /\ CollectTable => Apart'
<1> SUFFICES ASSUME WalkInv, Apart, CollectTable PROVE Apart'
  OBVIOUS
<1> DEFINE q == call.query
           t == Head(work).at
           d == Decide(t, Head(work).ctes)
           SF == ScopedFrames(q)
<1>1. q \in Queries /\ work \in Seq(SF) /\ work # <<>>
  BY CallFields DEF WalkInv, CollectTable
<1>2. t \in DOMAIN q /\ t = work[1].at /\ 1 \in DOMAIN work
  <2>1. Head(work) \in SF
    BY <1>1, HeadTailProperties
  <2>2. PICK n \in DOMAIN q : Head(work) = [at |-> n, ctes |-> OuterScope(q, n)]
    BY <2>1 DEF ScopedFrames
  <2>3. QED
    BY <1>1, <2>2, LenProperties, EmptySeq
<1>3. /\ UNCHANGED <<call, pc>> /\ pc = "walk"
      /\ decs' = Append(decs, d) /\ work' = Tail(work) /\ d.node = t
  BY DEF CollectTable, Decide
<1>4. /\ Len(work) \in Nat /\ DOMAIN work = 1 .. Len(work)
      /\ DOMAIN work' = 1 .. (Len(work) - 1)
      /\ \A k \in 1 .. (Len(work) - 1) : work'[k] = work[k + 1]
  BY <1>1, <1>3, HeadTailProperties, LenProperties
<1> HIDE DEF d, SF
<1>5. /\ DOMAIN decs' = 1 .. (Len(decs) + 1) /\ DOMAIN decs = 1 .. Len(decs) /\ Len(decs) \in Nat
      /\ \A i \in 1 .. Len(decs) : decs'[i] = decs[i]
      /\ decs'[Len(decs) + 1] = d
  BY <1>3, AppendProperties, LenProperties DEF WalkInv
<1>6. Decided' = Decided \union {t}
  BY <1>5, <1>3 DEF Decided
<1>7. t \notin Decided
  BY <1>1, <1>2, NodeInItself DEF Apart, DecidedApart, BelowFrame
<1>8. ASSUME NEW k \in DOMAIN work'
      PROVE  k + 1 \in DOMAIN work /\ k + 1 # 1 /\ work'[k] = work[k + 1]
  BY <1>4
<1>9. FramesApart'
  <2> SUFFICES ASSUME NEW n \in DOMAIN q, NEW i \in DOMAIN work', NEW j \in DOMAIN work',
                      work'[i].at \in q[n].in, work'[j].at \in q[n].in
               PROVE  i = j
    BY <1>3 DEF FramesApart
  <2>1. i + 1 = j + 1
    BY <1>8 DEF Apart, FramesApart
  <2>2. QED
    BY <2>1, <1>4
<1>10. DecidedApart'
  <2> SUFFICES ASSUME NEW n \in Decided \union {t}, NEW k \in DOMAIN work', work'[k].at \in q[n].in
               PROVE  FALSE
    BY <1>3, <1>6 DEF DecidedApart, BelowFrame
  <2>1. CASE n \in Decided
    BY <2>1, <1>8 DEF Apart, DecidedApart, BelowFrame
  <2>2. CASE n = t
    BY <2>2, <1>1, <1>2, <1>8, NodeInItself DEF Apart, FramesApart
  <2>3. QED
    BY <2>1, <2>2
<1>11. DecisionsDistinct'
  <2> SUFFICES ASSUME NEW i \in DOMAIN decs', NEW j \in DOMAIN decs', decs'[i].node = decs'[j].node
               PROVE  i = j
    BY DEF DecisionsDistinct
  <2>1. \A k \in DOMAIN decs : decs[k].node # t
    BY <1>7 DEF Decided
  <2>2. CASE i \in DOMAIN decs /\ j \in DOMAIN decs
    BY <2>2, <1>5 DEF Apart, DecisionsDistinct
  <2>3. CASE i \notin DOMAIN decs \/ j \notin DOMAIN decs
    BY <2>1, <2>3, <1>3, <1>5
  <2>4. QED
    BY <2>2, <2>3
<1>12. QED
  BY <1>3, <1>9, <1>10, <1>11 DEF Apart

LEMMA OthersKeepApart ==
  ASSUME WalkInv, Apart,
         Compile \/ Prepare \/ WalkDone \/ Rewrite \/ UNCHANGED vars
  PROVE  Apart'
<1>1. CASE work' = <<>> /\ UNCHANGED <<call, decs>>
  BY <1>1 DEF Apart, FramesApart, DecidedApart, DecisionsDistinct, Decided, BelowFrame
<1>2. CASE UNCHANGED <<call, work, decs>> /\ (pc' \in {"compile", "prepare"} => pc \in {"compile", "prepare"})
  BY <1>2 DEF Apart, FramesApart, DecidedApart, DecisionsDistinct, Decided, BelowFrame
<1>3. CASE Prepare /\ pc' = "walk" /\ work' = <<[at |-> Root, ctes |-> {}]>>
  <2>1. decs = <<>> /\ UNCHANGED <<call, decs>>
    BY <1>3 DEF WalkInv, Prepare
  <2>2. DOMAIN work' = {1}
    BY <1>3
  <2>3. FramesApart'
    BY <2>2 DEF FramesApart
  <2>4. QED
    BY <2>1, <2>3, <1>3 DEF Apart, DecidedApart, DecisionsDistinct, Decided
<1>4. QED
  BY <1>1, <1>2, <1>3 DEF Apart, Compile, Prepare, Return, WalkDone, Rewrite, vars

THEOREM ApartInvariant == Spec => []Apart
<1>1. Init => Apart
  BY DEF Init, Apart, FramesApart, DecidedApart, DecisionsDistinct, Decided
<1>2. WalkInv /\ Apart /\ [Next]_vars => Apart'
  BY CollectQueryKeepsApart, CollectTableKeepsApart, OthersKeepApart DEF Next, Done
<1>3. QED
  BY <1>1, <1>2, WalkInvariant, PTL DEF Spec

(* The walk decides every relation reference of the statement, however it is *)
(* nested, and none of them twice.                                           *)
THEOREM DecidedOnce == Spec => []EachReferenceDecidedOnce
<1>1. WalkInv /\ Apart => EachReferenceDecidedOnce
  <2> SUFFICES ASSUME WalkInv, Apart, pc = "rewrite"
               PROVE  Decided = Tables(call.query)
    BY DEF EachReferenceDecidedOnce, Apart, DecisionsDistinct, Decided
  <2>1. Tables(call.query) \subseteq Decided
    BY DEF WalkInv
  <2>2. \A i \in DOMAIN decs : decs[i] \in Decisions(call.query)
    BY DEF WalkInv
  <2>3. QED
    BY <2>1, <2>2 DEF Decided, Decisions
<1>2. QED
  BY <1>1, WalkInvariant, ApartInvariant, PTL
=============================================================================
