# easysql in TLA+

easysql rewrites and analyses SQL text. Each public function parses a statement
with an external native engine (polyglot), takes the AST apart in Go, and
generates SQL or reports columns. The repository holds the Go code around the
engine, its process-wide startup, a C ABI, and SDKs on top of that ABI. The
engine itself is not part of the repository: here it is external, known from how
the Go code uses it.

This directory holds the specifications of that code, the TLC configurations
that check them on small instances, and proofs that TLAPS checks for every
instance.

## Inventory

| Component | State | Operations | Hard behaviour | What makes it correct |
|---|---|---|---|---|
| Engine startup (`ffi.go`) | `clientOnce`, `sharedClient`, `sharedErr`; the cache directory on disk | `Init`, `InitWithRuntimePath`, `defaultClient`, `bundledFFIPath`, `openClient` | several processes and goroutines at once, crashes, power loss, failing system calls, a damaged or emptied cache | only the pinned engine is loaded; the cache entry is never unfinished; nobody replaces a file another process is about to load; one result per process; calls return |
| Row filter (`easysql.go`) | per call: compiled options, scope stack, decisions | `ApplyRowFilter`: compile, prepare, collect, decide, rewrite | nested, recursive and shadowing WITH clauses; names of one to three parts in mixed case | every covered physical table is filtered, nothing else is |
| Table rewrite (`rewrite_tables.go`) | per call: plan, matches, aliases, rebinding maps | `RewriteTableReferences` | alias collisions, correlated references, shadowing | after the rewrite every reference denotes the relation it denoted before |
| CTE binding (`bind_ctes.go`) | per call | `BindCTEs` | name equality under quoting, recursion | bound names denote the bindings, bindings keep their meaning |
| Referenced columns (`referenced_columns.go`) | per call: scopes, memoised CTEs | `ReferencedColumns`, `ReferencedColumnUsages` | recursive CTEs, stars, set operations, DML | no physical column that the statement reads is missing |
| Lineage (`lineage.go`) | per call: seeded tables, flow-only resolver | `LineageSourceColumns`, aggregation | names of the engine against names of the query, fields the engine is silent about, UPDATE and MERGE | the answer is what flows, and part of what is referenced |
| Output columns (`parse_columns.go`) | per call | `ParseColumns` | tables known to have no columns, names the engine makes up, DDL forms | the names of the output, in its order |
| Native ABI (`internal/nativeffi`, `cmd/easysqlffi`) | `runtimeOnce`, `runtimeErr` | `easysql_execute`, `easysql_execute_into` | panics below the C boundary, a startup that fails or panics, sized buffers | one envelope per request, whose status says what went wrong; no write past the buffer |
| Go SDK (`packages/go`) | `mu`, `runtime`, `closed` | `Open`, `Execute`, `Close` | Close against running calls; two executions per read | no call reaches the library once Close has returned; an answer is one complete response |
| Bindings, packaging | none | | | |

The components interact by calls. Every API goes through `defaultClient`, so all
goroutines of a process meet in `clientOnce`, and all processes of a user meet in
the cache directory. The row filter's `prepare`/`collect`/`decide` is reused by
the table rewrite; `LineageSourceColumns` runs the resolver of `ReferencedColumns` a
second time, in flow-only mode. The SDK reaches the library through
`easysql_execute_into`, which executes its request every time it is called, and
the library reaches the APIs behind a `sync.Once` of its own.

## Modules

### Row filter

* `TableScope` - the scope options, their compilation to lookup sets
  (`CompiledScope`, from `compile`) and the test `Matches` (from `matches`);
  beside them `Covered`, what the options promise, stated without lookup sets.
* `QueryTree` - statements as trees of bodies, CTE bodies and table references,
  and the SQL scoping of CTE names (`SqlScope`). `DenotesEarlierSibling` singles
  out references that only an earlier CTE of the same plain WITH explains.
* `RowFilter` - one call: `Compile`, `Prepare`, then one action per visited node
  (`CollectQuery`, `CollectTable`), the recursion's stack being the variable
  `work`, then `Rewrite`. `Decide` is `decide`; `BodyScope`/`NewScope` are what
  `pushCTEs` gives to CTE bodies and to the rest of the body.
* `MCRowFilter` - every statement tree up to a size, and the calls made on each.
* `RowFilterProofs` - theorems.

### Engine startup

* `EngineCache` - processes and the cache directory. A process's `pc` is its
  place in `bundledFFIPath` and `openClient`; every system call, or group of
  system calls without an effect another process can see in between, is an
  action, and each may fail. `Crash`, `PowerLoss` and `CleanCache` are the
  environment. `unremoved` keeps what the code ignores, that a temporary file could
  not be removed, so that `TempsAccountedFor` excuses no other file of a run that
  has ended, whatever failed in it.
* `EngineOnce` - what callers are promised: the initialisation of a process has
  one result, and every caller is told that one.
* `EngineStartup` - extends `EngineCache` with the goroutines that call and with
  `clientOnce`; implements `EngineOnce` (`FirstCallWins`).
* `MCEngineCache`, `MCEngineStartup` - instances. `EngineStartupProofs` - theorems
  about both.

### Table rewrite

* `TableRewrite` - one call, from the parsed statement on. A statement is a tree
  of queries and table references with their aliases; a column reference is its
  qualifier, and every query is taken to refer to every relation in every way it
  can, so one statement stands for all references at once. A name is the sequence
  of its words, a numeral among them being a number; folding letter case is a
  function on words, any that is idempotent. `Match`, `Reserve`
  and one `Disambiguate` per clashing table are `assignDerivedAliases`
  (`Occupied` is `computeMatchScopeOccupancy`); `Replace` puts the derived tables
  in; `Rebind`, one step per query, is `rebindQuery` with the two rule sets of
  `qualifiedRebindForScope` (inherited from the queries around) and
  `bareRebindForScope` (this query's own). The queries are visited in source
  order: the code visits those of one expression in the order of a map, which
  cannot matter, because a query's rules depend on the queries around it alone.
  A set operation has no FROM and no rules but those it inherits; its ORDER BY
  refers to the columns of its result and is not rebound.
  `Before` and `After` are what a qualifier denotes by the scoping of SQL.
* `MCTableRewrite` - every statement up to a size over chosen tables.
* `TableRewriteProofs` - theorems.

The row filter replaces its tables through the same functions (`ApplyRowFilter` with
table names is a plan of inlines with every catalog stripped), but the query it
puts in holds the caller's predicate: `PredicateBound` is what becomes of a
reference in it.

What is checked is that references keep denoting the relation they denoted. Where
the code falls short, the properties name the cause instead of leaving the
statement out: `LeftBehind` (a bare reference to a renamed table from a
subquery, or one that letter case alone tells from its neighbour or from its new
alias), `Captured` (a relation in between bears the new alias, or takes the old
name), `TakenForOuter` (an inherited rule meets the same `schema.table` in another
catalog), `TakenForTwin` (letter case again), `TakenForNeighbour` (a derived table
is bound with the rules of the query whose FROM it stands in, whose tables it
cannot see: one of them is the `schema.table` it refers to further out) and
`RenamedInPredicate` (a predicate
that calls its table `s.t` is bound to the new alias of `s.t`, which is not
visible inside the filtered query: with a CTE `t` beside `s.t`, a predicate
`s.t.c = 1` becomes `s_t.c = 1` in `FROM s.t`).

### CTE binding

* `BindCTEs` - one call. `Start` checks the dialect and the consumer's size,
  `CheckName` one binding's name and size, `ParseConsumer` and `ParseBinding` ask
  the engine for its verdict on a text, `Combine` puts the bindings in front of the
  consumer's WITH clause, `Generate` is the engine's answer. Names are compared as
  `normName` does (`Key`), written as `needsQuote` does (`Alias`), and what a name
  in the result denotes is SQL's scoping of the combined clause.
* `MCBindCTEs` - the calls. `BindCTEsProofs` - theorems.

Two gaps are named in the properties: a binding in mixed case is compared in lower
case but written in quotes (`Unnoticed`), and a consumer under WITH RECURSIVE lets
the bindings see what comes behind them (`SeesBehind`).

### Referenced columns, lineage and output columns

* `SqlColumns` - statements as trees of queries and sources, and what a column
  reference means in SQL: the columns of every node with their physical roots
  (`Cols`), recursive CTEs by iteration, as many rounds as the statement has nodes
  (`Settled` keeps statements for which that is enough); `FlowCols` keeps only the roots whose
  values a column holds, which leaves out the right side of INTERSECT and EXCEPT.
  DELETE, UPDATE and MERGE are queries whose list holds the assigned values.
* `ReferencedColumns` - the resolver. `stack` holds the calls of `resolveQuery`;
  `EnterSource` descends into a derived table, a branch or a CTE met for the first
  time (`resolveCTE`), `ResolveSelect` and `ResolveSetOp` build the output and
  record the references, `EnterClause` descends into the subqueries of the
  clauses, `ResolveDML` is the three DML statements. `flowOnly` is the mode of
  `LineageSourceColumns`, in which nothing is recorded but the outputs
  (`ResolveValueFlow` for DML). Every select is taken to hold every reference it could, in a WHERE (input
  only), a GROUP BY and an ORDER BY (output first), which stand for the other
  clauses of either sort. `uses` keeps, beside the column and clause the code
  records, the query and the reference it was recorded for.
* `Lineage` - `LineageSourceColumns` after `ReferencedColumns` on the same statement.
  `Analyze` takes the engine's fields and credits their sources to the seeded
  tables (`ScopeTable`, which is `resolveScopeTable`); if a field has none, the
  resolver runs in flow mode and `Credit` adds what it finds. The engine is
  external: it finds all sources of a field or none, none at all without metadata
  for every table, and calls a table as the query or as the metadata does.
* `OutputColumns` - `ParseColumns`, after the others on the same statement.
  `ListedColumns` covers the names a statement lists, CREATE TABLE with LIKE
  included, `Inspect` and `Recover` the two inspections by the engine: the second
  one gives tables without columns an invented column, so as to recognise it in
  the answer. The engine (external) may or may not see through derived tables
  without a schema, may make up `_col_N` names, may match tables by exact name or
  by suffix, and may call a set operation complete or not.
* `MCReferencedColumns` - the statements, the metadata and the definitions.
* `ReferencedColumnsProofs` - theorems about the resolver, in all three functions;
  `ExactColumnsProofs` - theorems about the columns that the first two find.

The resolver is a conservative approximation, so the properties compare it with
SQL and name each case in which the two part: `OutputHidesInput` (GROUP BY takes a
name for the output's), `TakenNearer` and `CapturedNearer` (a correlated name is
taken by a nearer source of unknown columns, one that ends in the same name, or
one that a derived table does not see), `PassedOver` (a column without roots, a
constant, does not stop the search: `resolveUnqualified` goes on to the queries
around as long as it has found no roots), `ReadsItself` (a recursive CTE is empty to
itself), `MutuallyRecursive` (so is one of two CTEs that read one another, to the
other), expressions without a name under a star (`StarsNamed`: they are dropped)
and in a branch of a set operation (`BranchesNamed`: what comes after them is merged
by the wrong name), stars of unknown columns under column aliases and set
operations (`PositionsKnown`); `ReadsExact` also sets apart repeated column names
(`NamesDistinct`) and qualifiers that fit two tables (`Confused`). Where a SELECT list
is misread, whatever reads its columns may be wrong too, so these conditions are on
all lists of the statement (`ListsRead`, `ListsExact`). Each is needed: without it the
run finds a statement that violates the property.

Three of these reach further. First, because the flow mode follows fewer values and resolves
no clauses. `referenced_columns.go:242-243` says that `ReferencedColumns` returns a
superset of the lineage. In `SELECT (SELECT x FROM (SELECT 1 AS x INTERSECT SELECT y
FROM b) d) FROM a`, the `x` of `d` has the root `b.y` for `ReferencedColumns`, but no
value of `b` flows into it, so that the flow mode goes on to the `a` outside and
credits `a.x`, which nothing else reports (`FlowPassesOver`). Second, which of two CTEs
that read one another is empty to the other depends on which is met first, in a
clause perhaps. Third, the engine finds the column SQL means, also where the
resolver misreads it: in `FROM a, (SELECT (SELECT a.x) FROM b) d` inside a subquery
of a query over another `a`, a derived table does not see its neighbour, but the
resolver takes the neighbour for it (`CapturedNearer`). `LineageIsReferenced` sets these
apart.

`LineageExact` sets apart two more. When the query reads both `a` and `s.a` and the
engine calls one of them `k.s.a`, as the metadata does, `resolveScopeTable` finds
two tables that fit and drops the column without an error (`TablesTold`). And two
columns of one name in a derived table or a branch of a set operation, unnamed
expressions for instance, overwrite each other in `byName` (`ListsExact`).

`DefinitionTold` demands an order of the columns only where the code can know it.
`parse_columns.go:21-22` speaks of left-to-right projection order, but the parser
keeps a LIKE apart from the columns, and `CREATE TABLE t (LIKE src, a)` and
`(a, b, LIKE src)` are answered in another order than written, as the comment at
292-297 admits.

### Go SDK and native library

* `ClosableHandle` - what `Client` promises: calls are served only while the
  handle is open, and closing waits for those being served.
* `SDKClient` - goroutines that call and close one client. `RLock`, `Lock`,
  `Drained` and `Shut` are the two sides of `mu`, a `sync.RWMutex` whose waiting
  writer keeps new readers out; `QuerySize` and `Read` are `readInto`, every one
  of which executes the request anew. `dynamicLibrary.close` does nothing, so
  what matters after `Close` is that no call is served. It implements
  `ClosableHandle` (`ServedOnlyWhileOpen`).
* `NativeCalls` - the library that answers the calls of `SDKClient`. `Initialize`,
  `Initialized` and `InitializationPanics` are `initializeRuntime` under
  `runtimeOnce`; `Execute` is one execution, whose verdict, the way it ends
  (`Ends`, `Verdicts`), follows the checks of `executeRequest`, `Execute` and
  `dispatch` and the errors an operation may return, the plain ones of
  `compileWhere` included. The envelope has the status that `errorResponse` gives
  the verdict (`StatusOf`), and a size; `CallResult` is what `call` of the SDK makes
  of it. The SDK's checks of an envelope that does not decode, or is of another ABI
  version, are left out: its own library makes none.
* `ClientProofs` - theorems about both.

A panic of the startup is recovered in the first request and leaves both
`sync.Once` done, without an error and without a client. The envelope that tells
of it (status 4) answers the size query of the first call, whose answer is then
read by a second execution, so no SDK caller ever gets it. From then on an
operation that checks its client reports "nil polyglot client" with status 1, one
that does not panics (99) or reports whatever it meets, and one with nothing to do
succeeds.

`docs/native-library.md` keeps status 1 for invalid requests (line 168) and 4 for
internal errors (line 171). The "nil polyglot client" breaks this, and so do two
errors of `compileWhere`: a derived table whose AST does not decode
(`easysql.go:239-241`), and the failure of the template the predicate is put into,
whose ErrInternal is made a plain error (`easysql.go:250-252`). `InvalidBlamesRequest`
names these cases and says that they are the only ones; both are recorded as
findings.

### Shared by the proofs

* `TreeRecursion` - numbers, and trees whose nodes are numbered from the root
  down: the least-number principle (`LeastNumber`), induction from a node to those
  below it (`SmallerFirst`), a solution for a recursion that goes up the tree
  (`ChainRecursion`), the least and greatest of a set (`MinFacts`, `MaxFacts`).

## Runs

| Run | What it asks | Bounds |
|---|---|---|
| `row_filter` | does the walk tell CTEs from tables and miss nothing; is what gets filtered what the options describe | every statement tree of at most 5 nodes over 3 names, plain and recursive WITH: enough for two nested WITHs, for a chain of two CTEs with a reader, and for a CTE shadowing another. On statements of one reference (10 names): up to 2 names of 8 and 2 patterns of 4 with 4 default databases, and every error class. A third entry adds nothing: entries act one by one |
| `row_filter_chained_ctes` | finding: a comment says CTE references are never wrapped | 4 nodes |
| `engine_crashes` | is the cache safe under crashes, power loss, faults, cleaning | 2 processes, 1 restart each, 1 cleaning: a startup can meet the leftovers of its own earlier run, of a running process and of an earlier installation |
| `engine_calls` | do racing callers get one usable result, and do calls return | 1 process, 2 callers, an explicit file or the embedded engine, 1 restart, 1 cleaning: one caller runs the startup while the other waits; processes meet in the cache only, which is the run above |
| `rewrite_tables` | are aliases distinct, do references keep their meaning | every statement of at most 4 nodes over 10 table references that clash and over 9 that differ in letter case or quotes, with derived tables, CTEs and subqueries: a query, its subquery and one relation in each, or three relations in one FROM, which takes disambiguation to its numbered names; and 5 nodes over 4 table references: a CTE beside a renamed table, a subquery of a subquery; and 5 nodes over one table by two of its names, `s.t` and `y.s.t`. Set operations stand for a query that has two subqueries and no FROM, in the statements of 5 nodes over 4 table references: at the root, in a CTE, a derived table or a clause. `s.v` becomes a union called `u`, `r.v` one called `V`, which letter case alone tells from `v` |
| `rewrite_scope_safety` | finding: a doc says rebinding qualified references is scope-safe | the first of these families |
| `rewrite_bare_references` | finding: a doc says bare references that are left resolve | 4 nodes, 4 table references |
| `bind_ctes` | are the names of the result distinct, does each read of a binding denote what is promised, does the consumer keep its names, is the input bounded | up to 2 bindings and 2 consumer CTEs over three names (lower case, mixed case, in need of quotes), plain and recursive, and every fault: pairs of names are all there is to compare |
| `bind_duplicates` | finding: a doc says duplicates of a consumer's CTE are rejected | the same calls |
| `referenced_columns` | is every column that is read recorded, and only those; is every table found; does the resolver end; is the lineage what flows, and referenced; are the output's columns told | 2424 pairs of a statement and metadata: up to 3 sources in nested queries, three queries in one another, WITHs of two CTEs that shadow and read each other, or one another in a circle, names of constants, set operations at the root, in a derived table and in a recursive CTE, with and without column aliases; tables `a`, `s.a` (known as `k.s.a`) and `b`, which share columns and suffixes, and one known to have no columns; no, partial and full metadata; DELETE, UPDATE and MERGE over the same sources; definitions with and without a query, with a LIKE in every place; every answer of the engine |
| `referenced_unread_ctes` | finding: a comment says every table of a FROM is in the result | the same statements |
| `native_calls` | may a client be called and closed by anyone at any time; is what a call returns one complete response; does its status say what happened, whatever comes of the library's startup | 3 goroutines, each calling and closing without end, in three programs of three kinds of request each, so that each of the six kinds meets a startup that succeeds, fails, panics or is still running: a reader inside, one kept out and a writer at once; responses of 1 to 5 bytes and a limit of 5, one status over the limit: four growing responses in a row, so every end of the loop is met |

The five runs marked as findings are violated on purpose: each property is a
sentence of a comment, and the trace is what the code does.

* `rewrite_scope_safety`: in `FROM r.t WHERE EXISTS (SELECT ... FROM x AS t WHERE
  r.t.c = t.c)` the derived table is called `t`, and `r.t.c` becomes `t.c`, which
  the subquery reads as `x`'s column.
* `rewrite_bare_references`: in `FROM s.v WHERE EXISTS (SELECT ... WHERE v.c ...)`
  with `s.v` turned into a union called `u`, `v.c` is left as it is.
* `row_filter_chained_ctes`: in `WITH a AS (...), b AS (SELECT ... FROM a) ...` the
  `a` inside `b` is decided as a table and wrapped.
* `bind_duplicates`: a binding `Foo` is put beside a consumer's CTE `"Foo"`: it is
  looked up as `foo` and written `"Foo"`.
* `referenced_unread_ctes`: of `WITH c AS (SELECT * FROM a) SELECT * FROM b` the table
  `a` is missing, because nothing reads `c`, so it is never resolved.

Three more disagreements are recorded where a property names the case in which the
code parts from a sentence: two in `InvalidBlamesRequest` (above), and one in
`ReadsExact`. Set operations are said to merge by position
(`referenced_columns.go:630-631`), but in `SELECT x + 1, y FROM a UNION SELECT * FROM
a` the output `y`, which comes second, is merged with the first column of the right
branch (`BranchesNamed`).

### Fairness

`engine_calls` and `native_calls` assume some. In `engine_calls`, a goroutine that can run is eventually
scheduled by the Go runtime (`WF` on its steps), and so is the startup that the
first caller runs. Whether a goroutine calls at all, crashes, power failures and
cleaning are left without fairness.

In `native_calls` a goroutine that can take a step takes it (`WF` on the steps of a
call, those inside the library and `Close` included; the startup returns or
panics), and one that keeps finding the mutex free obtains it at
last (`SF` on `Lock`): `sync.Mutex`, which orders the writers of an `RWMutex`,
is handed over in order to a goroutine that has waited for a millisecond. Nobody
is obliged to call.

## Proofs

* `MatchesIffCovered`: for all options that `compile` accepts and every dotted
  name, the lookup sets and the promise agree. Split on the length of the name.
* `TypeCorrect`, `ScopingFollowed`, `AnswersFilterAll`, `DecidedOnce`: for every statement tree
  and every call. The inductive invariant `WalkInv` says of each stack frame that
  its CTE set is exactly the set of names visible to that node when earlier
  siblings of a plain WITH are left out (`OuterScope`), and that each table is
  decided or below a node still on the stack. Decisions inherit the first; the
  second gives completeness once the stack is empty. `DecidedOnce` adds `Apart`:
  no node lies below two frames, and none that is decided lies below one, because
  a node is below one child of a body at most.
* `CacheTypeCorrect`, `OnlyGenuineLoaded`, `OnlyCompletePublished`,
  `ChosenPathsStayPut`: for any number of processes, restarts, faults and
  cleanings. The invariant adds to the types that a process past the write owns
  a complete file, one past the sync a durable one (`WrittenOK`), and that a
  process about to load looks at its own or an explicit genuine file, or at the
  entry (`ChosenOK`): a linked file is durable, so an entry that is there is
  genuine or from earlier runs, and those are checked before use.
  `UndisturbedStartsSucceed` and `TempsStayAccountedFor` add what a startup that
  met no fault holds at each stage (`OnCourse`: its own file is there while it
  needs it, the file it is about to load is genuine, the entry or its own, and it
  comes to load its own only if the file system has no links or the entry that
  earlier runs left is damaged), and that a run's own file does not exist before it
  is created and is gone in the end, kept as the private copy it loads, or known as
  one that could not be removed (`TempAccounted`), the runs of a process being told
  apart by their number.

* `StartupTypeCorrect`, `ClientsAreUsable`, `FirstCallDoesWin`: for any number of
  processes and callers. Every step leaves the cache as it is or is a step of it
  (`CallersShareTheCache`), so the cache's invariant can be used. `OnceOK` says
  what each state of `clientOnce` means (new: nothing has started; done: the
  startup has ended, and the result is a client exactly if it is ready),
  `AnswersOK` that one caller at a time runs the startup and that whoever has
  returned was told the shared result, which never changes once it is there.

* `ClientTypeCorrect`, `ClientKeepsPromise`, `AnswersAreOneRun`, `ReadsStayInside`,
  `GivesUpOnGrowth`: for any number of goroutines, sizes and limits. The invariant
  adds to the types that only a call inside the read lock is being served and a
  closed client serves none (`Closed`), and that the sizes seen so far grow
  strictly, the last being what the buffer was made for (`ReadOK`). The
  refinement maps every step to a step of `ClosableHandle` or a stutter.

* `NativeImplementsClient`, `NativeTypeCorrect`, `FailureReachesEveryCall`,
  `BlameIsDeserved`, `DataNeedsEngine`: for any number of goroutines, programs and
  sizes. Every step of the library is a step of the client or a stutter, so the
  client's theorems hold of `NativeSpec` too. The invariant adds to the types that
  the verdict kept for a call is one its request can come to in the startup's
  state: a startup that has ended never changes, and an execution only ends once
  it has.

* `BindingsStayDistinct`, `BindTypeCorrect`, `InputStaysBounded`, `BindingsReadBack`,
  `ConsumerNamesKept`: for every set of names and calls, which is all that is said
  of `BindCTEs`. The invariant `Progress` says that the keys of the bindings looked
  at are distinct and are exactly those taken, so that two equal names of the
  result can only be a binding and a consumer's CTE, which `Conflicts` has
  compared; and that the combined clause is the bindings, then the consumer's
  CTEs, which settles what each name denotes. `Accounted` adds that the total is
  the sum of the sizes looked at. The sums are a recursive function; that it is what
  its definition says comes from the least-number principle: at
  the least length without sums, those one shorter could be extended.

* `RewriteTypeCorrect`, `AliasesAreDistinct`, `LocalReferencesKeepTheirMeaning`,
  `CorrelatedReferencesKeepTheirMeaning`: for every plan and for statements of any
  size and depth, which is all that is said of `TableRewrite`. Two invariants.
  `Aliasing`: an alias that has been given out is occupied around none of the
  tables it is for, has been reserved, and is not given out again. That the next
  one is free too rests on the numbered names: they are one more than the names
  taken and differ from one another, so one of them is free (the pigeonhole
  principle). `Rebinding`: the queries before the one at hand have the rules and
  the references that the definitions give them, the inherited rules being those
  the query around has in the end. From the two, nothing temporal is left to show:
  in the FROM a reference points to, exactly the relation it denoted answers to
  what it has become (`AliasFound`, `NameKept`, `BareFound`, `BareRebound`); for a
  correlated one, nothing in between does (`KeptReaches`, `AliasReaches`), and the
  rule that is applied is the one of the query it points to
  (`RuleReachesInwards`). The proof of the last two theorems found gaps that
  TLC's statements had been too small to show, and TLC, given larger ones,
  confirmed them: `TakenForNeighbour`, and the alias in `LeftBehind` that letter
  case alone tells from the table's name. The recursive functions of the model go
  up the tree, from a node to one with a lower number, so `ChainRecursion` and
  `SmallerFirst` apply.

* `AnalysisTypeCorrect`, `QueriesAreResolvedOnce`, `TablesAreAllPresent`,
  `ResolverEnds`: for statements of any size and depth, through `ReferencedColumns`,
  `LineageSourceColumns` and `ParseColumns`, which run the resolver up to three
  times. Every step is one of the resolver's (`EnterQuery`, `ResolveQuery`, `Leave`),
  a new resolver (`Restart`), or leaves it as it is (`AnalysisSteps`). The scopes that
  `newScope` builds on the way down give every name the CTE it denotes in SQL
  (`CteOfDenoted`): a scope holds, for each name that is declared around a node, the
  innermost declaration (`CtesShowInnermost`, by induction down the tree). `Sound`
  adds to the types that the queries on the stack differ and that each is one of
  the query before it, or a CTE (`StackOK`). So a query that is taken up cannot be
  on the stack already: the ones that `Before` names are asked for, and a subquery
  of a clause could only stand right behind its own query, which is the top.
  `Followed` says that whatever has been taken up is read, and that what a query
  reads has been taken up by the time it is left; with an empty stack the two are
  `TablesPresent`. `ResolverEnds` is no property of a run: each step of the
  resolver decreases `WorkLeft`, the number of queries not yet taken up, resolved
  and left, so a statement comes to an end even if its CTEs read one another. That
  the resolver does not stop before, TLC checks (deadlock).

* `ReadsAreExact`, `LineageIsExact`: for statements of any size and depth, if the
  metadata tells of every table and no SELECT list is misread (`ListsExact`), the
  columns recorded for each clause and put out for each position are exactly those
  that the references and values read in SQL; and the lineage is exactly what flows.
  Nothing is assumed beyond what the two properties say themselves. The invariant
  `Exact` says that every query resolved so far has the output that its columns in
  SQL make (`PutOut`) and that what is recorded for its references is what they mean
  or one of the named exceptions (`Understood`), in either mode of the resolver. It
  rests on `Nested`, which says what is on the stack: the queries around one are
  resolved before it (`Enclosed`), what a query sees of the query it is in has been
  taken up and left by then (`Prepared`), and a CTE on the stack reaches all that is
  taken up above it (`Leading`). So when a query is resolved, every source it sees is
  known, but for a CTE that it is in itself, which is empty to it on both sides
  (`Within`, `SeenTold`). The columns in SQL are rounds of a function on all nodes:
  they rest on the nodes that are read only (`ClosedUnder`), and `Settled` makes the
  last round a solution of the equations that the resolver solves on its way. A
  reference is then followed scope by scope on both sides (`Innermost`), and a list,
  a star and a set operation column by column. For the lineage, `Staged` tells which
  mode the resolver is in, and `Flowing` and `Arrived` that the tables credited so
  far are tables of what flows, and in the end all of it, whichever fields the
  engine was silent about and however it calls the tables.

The assumptions are those the modules state by name: distinct constants, a
`Fold` that is idempotent, words that are no numbers, plans with one alias for a
table at most, statement trees as the parser builds them. The statements of the
referenced columns are `Meaningful` from the start, of which the proofs use that
tables exist and that no WITH declares a name twice.

Only model-checked:

* `CallsReturn` and `EveryCallReturns`: liveness under fairness is out of the
  prover's reach.
* `ReadsCovered` and `LineageIsReferenced`: they hold with metadata for some of the
  tables or none, where a source of unknown columns takes any name and puts a star in
  the place of its columns. What the resolver keeps of a query is then no image of
  the query's columns in SQL, as `Exact` has it, but covers them in a sense that
  differs for names, positions and stars, and the second relates two runs of the
  resolver that are wrong in different ways. With complete metadata and lists
  without repeated names, `ReadsAreExact` and `LineageIsExact` cover both.
* `ColumnsTold`: `Inspect` and `Recover` of `OutputColumns` choose among answers of the
  engine, under the same partial knowledge; what a definition lists is selected with
  `SelectSeq`, which takes an operator and has no definition the provers could expand.

The library's induction theorems, which take an operator, cannot be used
either: an induction over data is an appeal to the least number that would be an
exception. No module with a theorem uses a RECURSIVE operator.

## Left out

* The engine: parsing and generating are nondeterministic where they can fail, and
  so are its answers about columns and lineage.
* The two `EASYSQL_SKIP_*` variables, which disable checks on request.
* The derived tables' own text, the column aliases and samples they inherit, LATERAL
  relations and parenthesised joins of the table rewrite. Of the row filter's
  predicate, the tables its subqueries read: a CTE of the statement may capture
  them, and no text says which is meant.
* Opening the SDK's library (paths, symbols, ABI version), the JSON form of
  envelopes and arguments, and `easysql_execute` with `easysql_free_string`, which
  keep no state between calls and are not used by the SDK.
* The StarRocks text normalisation and everything about text layout: it works on
  characters, and what counts as a string or a comment is the engine's to say.
* In the referenced columns: PIVOT, UNNEST and LATERAL, JOIN conditions and USING,
  dotted references and the normalisation of GROUP BY sets. A DML
  target that is named like a CTE of its own WITH is taken for the CTE
  (`referenced_columns.go:1287`, `1311`); no statement of the run has one.
* In the lineage, an engine that finds some of the sources of a field only. In the
  output columns, a user's alias of the form `_col_0`, which is renamed to `_col0`
  when a star was expanded with metadata (`parse_columns.go:95-96`).
* The bindings, the query builder helper and the packaging: thin wrappers, one
  call into the engine, and scripts, without state of their own.

## Plan

1. Row filter, engine startup, SDK client, table rewrite, CTE binding, and the
   queries of `ReferencedColumns` (done).
2. `ReferencedColumns` for DELETE, UPDATE and MERGE, its flow-only mode with
   `Lineage` on top of it, `OutputColumns`, `NativeCalls` under the SDK client, the
   row filter's predicate in `TableRewrite` (done).
3. Theorems about the startup with its callers, the undisturbed startup, the
   temporary files, `DecidedOnce`, all of `BindCTEs` and `TableRewrite`, the
   resolver of `ReferencedColumns`, and the columns it finds with full metadata (done).
