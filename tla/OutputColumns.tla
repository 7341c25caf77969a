---------------------------- MODULE OutputColumns -----------------------------
(***************************************************************************)
(* ParseColumns (parse_columns.go): the names of the columns a statement    *)
(* exposes, in the order of its projection.  It is called after             *)
(* LineageSourceColumns, with the same query and metadata.                  *)
(*                                                                         *)
(* Around the query, or in its place, there may be an INSERT or a CREATE,   *)
(* which may list its columns.  If not, the engine is asked for those of    *)
(* the query, first without and then with the metadata.  As it takes a      *)
(* table with no columns for one of unknown columns, the resolver is run if *)
(* there is one.                                                            *)
(*                                                                         *)
(* A definition is                                                          *)
(*   kind    "query", "insert", "view" or "table"                           *)
(*   parts   what is between its parentheses, [kind, name]: a "column", a   *)
(*           table "like" which it is, or a "key"                           *)
(*   values  an INSERT has VALUES                                           *)
(* A column of the answer is <<name>>, or <<"_col", i>> if the i-th, from   *)
(* 0, has none.                                                             *)
(***************************************************************************)
EXTENDS Lineage

CONSTANT Definitions

VARIABLES
  definition,  \* what is around the query
  slots,       \* what the engine said of the query, for the resolver to complete
  answer       \* what ParseColumns returned

columnVars == <<definition, slots, answer>>
analysisVars == <<allVars, columnVars>>

Pending     == [kind |-> "pending"]
Unsupported == [kind |-> "unsupported"]
NoColumns   == [kind |-> "nil"]
Answer(cols) == [kind |-> "columns", cols |-> cols]

NoDefinition == [kind |-> "query", parts |-> <<>>, values |-> FALSE]

ColumnsInit ==
  /\ LineageInit
  /\ definition = NoDefinition
  /\ slots = <<>>
  /\ answer = Pending

-----------------------------------------------------------------------------
(* Columns listed by the statement.                                          *)

Parts(d, kind) == SelectSeq(d.parts, LAMBDA p : p.kind = kind)

Listed(parts) == [i \in DOMAIN parts |-> <<parts[i].name>>]

Likened(parts) == FlattenSeq([i \in DOMAIN parts |-> LET cols == CHOOSE cols \in Known(parts[i].name) : TRUE
                                                    IN  [k \in DOMAIN cols |-> <<cols[k]>>]])

(* Mutant of Interleaved: the columns of the likeness come last.             *)
InterleavedLast(listed, likened, others) == listed \o likened

(* The parser puts a LIKE among the constraints, and its place is guessed.   *)
Interleaved(listed, likened, constraints) ==
  IF likened # <<>> /\ Len(listed) >= 2 /\ constraints = 1
    THEN <<Head(listed)>> \o likened \o Tail(listed) ELSE listed \o likened

(* createTableDDLColumns.  A parser may also leave a LIKE where it is.       *)
TableColumns(d, inline) ==
  LET keyless == SelectSeq(d.parts, LAMBDA p : p.kind # "key")
  IN  IF inline
        THEN FlattenSeq([i \in DOMAIN keyless |->
               IF keyless[i].kind = "like" THEN Likened(<<keyless[i]>>) ELSE Listed(<<keyless[i]>>)])
        ELSE Interleaved(Listed(Parts(d, "column")), Likened(Parts(d, "like")),
                         Len(d.parts) - Len(Parts(d, "column")))

(* The definitions that may stand around the query, or in its place.  One   *)
(* that is nothing is the query alone, an UPDATE and the like, or a DROP.    *)
Fitting ==
  {d \in Definitions \union {NoDefinition} :
     \/ d = NoDefinition
     \/ HasQuery /\ ~d.values /\ d.parts = Parts(d, "column")
     \/ q = <<>> /\ (d.values \/ d.kind = "table")}

Overrides(d) == Parts(d, "column") # <<>> /\ (d.kind = "table" => HasQuery)

IsTableOnly(d) == d.kind = "table" /\ ~HasQuery

(* expandLikeSource fails.                                                   *)
Unlike(d) == \E i \in DOMAIN d.parts : d.parts[i].kind = "like" /\ Known(d.parts[i].name) = {}

Answered(a) ==
  /\ answer' = a
  /\ stage' = "answered"
  /\ UNCHANGED <<vars, referenced, calls, tableCols, slots>>

(* Up to where parseColumns would look for a query.                          *)
ListedColumns ==
  /\ stage = "done"
  /\ \E d \in Fitting :
       /\ definition' = d
       /\ \/ Overrides(d) /\ Answered(Answer(Listed(Parts(d, "column"))))
          \/ ~Overrides(d) /\ d.values /\ Answered(Unsupported)
          \/ IsTableOnly(d) /\ Unlike(d) /\ Answered(Unsupported)
          \/ /\ IsTableOnly(d) /\ ~Unlike(d)
             /\ Parts(d, "column") \o Parts(d, "like") # <<>>
             /\ \E inline \in BOOLEAN : Answered(Answer(TableColumns(d, inline)))
          \/ IsTableOnly(d) /\ Parts(d, "column") \o Parts(d, "like") = <<>> /\ Answered(NoColumns)
          \/ ~HasQuery /\ d.kind = "query" /\ Answered(NoColumns)

-----------------------------------------------------------------------------
(* The engine's columns of a query, its slots.                               *)

Slot(kind, col) == [kind |-> kind, col |-> col]

(* The nodes whose columns are not all seen: those that rest, by a star, on  *)
(* tables that are not among those seen.  Without a schema the engine may    *)
(* not look into a derived table or CTE.                                     *)
Opaque(seen, deep) ==
  LET resting(n, hidden) ==
        CASE q[n].kind = "table"  -> DenotedCte(n) \intersect hidden # {}
          [] q[n].kind = "setop"  -> Min(Kids(n, "branch")) \in hidden
          [] q[n].kind = "select" -> \E item \in ToSet(q[n].items) :
                                       item.column = Star /\ Starred(n, item.qualifier) \intersect hidden # {}
      Round[k \in 0 .. Len(q)] ==
        IF k = 0 THEN {n \in Nodes : IF IsTable(n) THEN q[n].name \notin seen ELSE ~deep /\ q[n].place = "from"}
        ELSE CHOOSE rest \in {hidden \union {n \in Nodes : resting(n, hidden)} : hidden \in {Round[k - 1]}} : TRUE
  IN  Round[Len(q)]

(* The select that names the columns.                                        *)
Naming ==
  LET Left[b \in QueryNodes] == IF q[b].kind = "setop" THEN Left[Min(Kids(b, "branch"))] ELSE b
  IN  Left[Root]

(* OutputColumns and OutputColumnsWithSchema: a wildcard for a star that is  *)
(* not expanded; with a schema, names of its own for what has none.          *)
SlotsSeen(hidden, cols) ==
  LET items == q[Naming].items
      slot(c) == Slot(IF c.name = NoName THEN "unnamed" ELSE "named", <<c.name>>)
      slotsOf(item) ==
        CASE item.column # Star -> <<slot(item)>>
          [] item.column = Star /\ Starred(Naming, item.qualifier) \intersect hidden = {} ->
               LET starred == StarIn(Naming, item.qualifier, cols) IN [k \in DOMAIN starred |-> slot(starred[k])]
          [] OTHER -> <<Slot(IF item.qualifier = <<>> THEN "wildcard" ELSE "qualified wildcard", <<Star>>)>>
  IN  FlattenSeq([i \in DOMAIN items |-> slotsOf(items[i])])

Synthetic(seq) ==
  [i \in DOMAIN seq |-> IF seq[i].kind = "unnamed" THEN Slot("named", <<"_col_", i - 1>>) ELSE seq[i]]

IsWildcard(slot) == slot.kind \in {"wildcard", "qualified wildcard"}

IsOpen(seq) == \E i \in DOMAIN seq : IsWildcard(seq[i])

(* OrdinalComplete; of a set operation the other branches may count.         *)
Completeness(seq) == IF IsOpen(seq) THEN {FALSE} ELSE IF q[Root].kind = "setop" THEN BOOLEAN ELSE {TRUE}

(* The tables of the schema are told by name, or by a part of it.            *)
Schemas ==
  LET filled == {t \in {q[n].name : n \in {m \in Nodes : IsTable(m)}} : \E cols \in Known(t) : cols # <<>>}
  IN  {seen \in SUBSET filled : filled \intersect DOMAIN metadata \subseteq seen}

HasEmptyTable == \E t \in DOMAIN metadata : metadata[t] = <<>>

-----------------------------------------------------------------------------
(* Names of the columns.                                                     *)

(* normalizeSyntheticColumnName.                                             *)
Normalized(col) == IF col[1] = "_col_" THEN <<"_col", col[2]>> ELSE col

Numbered(i) == <<"_col", i - 1>>

OneStar == <<<<Star>>>>

Whole(seq) == \E i \in DOMAIN seq : seq[i].kind = "wildcard"

NamesOf(seq) ==
  IF Whole(seq) THEN OneStar
  ELSE [i \in DOMAIN seq |-> IF seq[i].kind = "unnamed" THEN Numbered(i) ELSE Normalized(seq[i].col)]

(* The resolver is run in flow mode.                                         *)
Unresolved(seq) ==
  /\ slots' = seq
  /\ stage' = "columns"
  /\ NewResolver(<<Root>>)
  /\ UNCHANGED <<q, metadata, referenced, calls, tableCols, answer>>

(* The engine answers, or leaves it to the resolver.                         *)
Inspect ==
  /\ stage = "done" /\ HasQuery
  /\ definition' \in {d \in Fitting : ~Overrides(d)}
  /\ \E cols \in {Cols} :
       \E first \in {SlotsSeen(hidden, cols) : hidden \in {Opaque({}, deep) : deep \in BOOLEAN}} :
         \E complete \in Completeness(first) :
           \/ (complete \/ metadata = Nothing) /\ Answered(Answer(NamesOf(first)))
           \/ /\ ~complete /\ metadata # Nothing
              /\ \E known \in {SlotsSeen(hidden, cols) : hidden \in {Opaque(seen, TRUE) : seen \in Schemas}} :
                   \E second \in {known, Synthetic(known)} : \E whole \in Completeness(second) :
                     \/ (whole \/ ~HasEmptyTable) /\ Answered(Answer(NamesOf(second)))
                     \/ ~whole /\ HasEmptyTable /\ Unresolved(second)

EmptySource == \E t \in tables : Known(t) = {<<>>}

(* The resolver knows of tables without columns.                             *)
Recover ==
  /\ stage = "columns" /\ stack = <<>>
  /\ LET names == out[Root].names
         resolved == [i \in DOMAIN names |-> IF names[i] = NoName THEN Numbered(i) ELSE <<names[i]>>]
     IN  IF EmptySource
           THEN Answered(Answer(IF Star \in ToSet(names) /\ Whole(slots) THEN OneStar ELSE resolved))
           ELSE Answered(Answer(NamesOf(slots)))
  /\ UNCHANGED definition

Analyzed == stage = "answered" /\ UNCHANGED analysisVars

AnalysisNext ==
  \/ Resolution /\ UNCHANGED <<lineageVars, columnVars>>
  \/ (Analyze \/ Credit) /\ UNCHANGED columnVars
  \/ ListedColumns \/ Inspect \/ Recover \/ Analyzed

AnalysisSpec == ColumnsInit /\ [][AnalysisNext]_analysisVars

-----------------------------------------------------------------------------
(* Properties.                                                               *)

(* The columns a statement's query has in SQL, however much the engine sees: *)
(* in order, none dropped or invented, those without a name numbered; or a   *)
(* star in place of some, if the metadata does not tell all there is.        *)
QueryColumnsTold ==
  stage = "answered" /\ HasQuery /\ ~Overrides(definition) =>
    \A cols \in {Cols} :
      \/ /\ \E i \in DOMAIN answer.cols : answer.cols[i] = <<Star>>
         /\ \E n \in Nodes : IsTable(n) /\ (q[n].name \notin DOMAIN metadata \/ Known(q[n].name) = {})
      \/ /\ Len(answer.cols) = Len(cols[Root])
         /\ \A i \in DOMAIN answer.cols :
              LET name == cols[Root][i].name
              IN  IF name = NoName THEN answer.cols[i][1] = "_col" ELSE answer.cols[i] = <<name>>

(* A statement without a query exposes the columns it defines, in order,     *)
(* with those of the tables it is like; these are in their place if they are *)
(* alone or second of several, elsewhere the parser does not tell where.  It *)
(* is refused when such a table is not in the metadata, or there are values  *)
(* only.                                                                     *)
DefinitionTold ==
  stage = "answered" /\ q = <<>> =>
    LET parts == SelectSeq(definition.parts, LAMBDA p : p.kind # "key")
        told(p) == IF p.kind = "like" THEN Likened(<<p>>) ELSE Listed(<<p>>)
        inOrder == FlattenSeq([i \in DOMAIN parts |-> told(parts[i])])
        likes == {i \in DOMAIN parts : parts[i].kind = "like"}
        placed == Len(parts) = 1 \/ likes = {} \/ (likes = {2} /\ Len(parts) > 2 /\ parts = definition.parts)
    IN  CASE answer.kind = "columns"     -> /\ ToSet(answer.cols) = ToSet(inOrder) /\ Len(answer.cols) = Len(inOrder)
                                            /\ placed => answer.cols = inOrder
          [] answer.kind = "unsupported" -> definition.values \/ \E i \in likes : Known(parts[i].name) = {}
          [] OTHER                       -> parts = <<>>

(* Both kinds of statement.                                                  *)
ColumnsTold == QueryColumnsTold /\ DefinitionTold
=============================================================================
