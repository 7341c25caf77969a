------------------------------- MODULE BindCTEs -------------------------------
(***************************************************************************)
(* BindCTEs (bind_ctes.go): queries given by name are put in front of the   *)
(* CTEs of a consumer statement.                                            *)
(*                                                                         *)
(* An identifier is its name and whether it is quoted.  Of a query, all     *)
(* that counts is the CTEs of its root WITH and the bare names it, or a     *)
(* CTE of it, leaves for the surroundings to resolve.                       *)
(***************************************************************************)
EXTENDS Naturals, Sequences, FiniteSets

CONSTANTS
  Names,
  Fold,           \* strings.ToLower on names
  Simple,         \* the names simpleIdentRe matches
  NoName,         \* a blank name
  Calls,          \* the calls that are made
  MaxInputBytes

ASSUME BindAssumption ==
  /\ Fold \in [Names -> Names]
  /\ \A n \in Names : Fold[Fold[n]] = Fold[n]
  /\ Simple \subseteq Names
  /\ NoName \notin Names
  /\ MaxInputBytes \in Nat

Ident == [name : Names, quoted : BOOLEAN]

Cte == [alias : Ident, reads : SUBSET Ident]

(* What the engine makes of a text, and the error that goes with it.        *)
Texts == {"query", "ErrParse", "ErrUnsupported", "ErrInternal"}

Binding == [name : Names \union {NoName}, size : Nat, text : Texts, reads : SUBSET Ident]

Call ==
  [dialectKnown : BOOLEAN, size : Nat, text : Texts, recursive : BOOLEAN,
   ctes : Seq(Cte), reads : SUBSET Ident, bindings : Seq(Binding)]

ASSUME CallsAssumption == Calls \subseteq Call

VARIABLES
  call,
  pc,      \* the next step of BindCTEs
  next,    \* the binding it looks at
  total,   \* totalInputBytes
  taken,   \* the keys of bindingNames
  with,    \* the CTEs of the consumer's WITH
  result   \* "none", "sql" or the error

vars == <<call, pc, next, total, taken, with, result>>

bindings == call.bindings

(* normName.                                                                 *)
Key(id) == IF id.quoted THEN id.name ELSE Fold[id.name]

(* How the names of bindings are compared, and how they are written.         *)
BindingKey(name) == Key([name |-> name, quoted |-> name \notin Simple])

Alias(name) == [name |-> name, quoted |-> name \notin Simple \/ name # Fold[name]]

Init ==
  /\ call \in Calls
  /\ pc = "start" /\ next = 1
  /\ total = 0 /\ taken = {} /\ with = call.ctes
  /\ result = "none"

Return(r) == pc' = "done" /\ result' = r /\ UNCHANGED <<call, next, total, taken, with>>

(* Mutant of GoOn: the loop goes one binding too far.                        *)
GoOnPast(loop, after) ==
  /\ IF next <= Len(bindings) THEN next' = next + 1 /\ pc' = loop ELSE next' = 1 /\ pc' = after
  /\ UNCHANGED <<call, result>>

(* The loops over the bindings.                                              *)
GoOn(loop, after) ==
  /\ IF next < Len(bindings) THEN next' = next + 1 /\ pc' = loop ELSE next' = 1 /\ pc' = after
  /\ UNCHANGED <<call, result>>

Start ==
  /\ pc = "start"
  /\ \/ bindings = <<>> /\ Return("sql")
     \/ bindings # <<>> /\ ~call.dialectKnown /\ Return("unknown dialect")
     \/ /\ bindings # <<>> /\ call.dialectKnown /\ call.size > MaxInputBytes
        /\ Return("ErrUnsupported")
     \/ /\ bindings # <<>> /\ call.dialectKnown /\ call.size <= MaxInputBytes
        /\ pc' = "names" /\ total' = call.size
        /\ UNCHANGED <<call, next, taken, with, result>>

(* Mutant of FitsBeside: each query is held against the limit alone.         *)
FitsAlone(size, before) == size <= MaxInputBytes

FitsBeside(size, before) == size <= MaxInputBytes - before

CheckName ==
  /\ pc = "names"
  /\ LET b == bindings[next]
         key == BindingKey(b.name)
     IN  \/ b.name = NoName /\ Return("empty name")
         \/ b.name # NoName /\ b.size = 0 /\ Return("empty query")
         \/ b.name # NoName /\ b.size > 0 /\ ~FitsBeside(b.size, total) /\ Return("ErrUnsupported")
         \/ /\ b.name # NoName /\ b.size > 0 /\ FitsBeside(b.size, total)
            /\ key \in taken /\ Return("duplicate")
         \/ /\ b.name # NoName /\ b.size > 0 /\ FitsBeside(b.size, total)
            /\ key \notin taken
            /\ total' = total + b.size
            /\ taken' = taken \union {key}
            /\ GoOn("names", "consumer") /\ UNCHANGED with

(* Mutant of Conflicts: the consumer's names are compared as written.        *)
ConflictsAsWritten == \E i \in DOMAIN call.ctes : call.ctes[i].alias.name \in taken

Conflicts == \E i \in DOMAIN call.ctes : Key(call.ctes[i].alias) \in taken

ParseConsumer ==
  /\ pc = "consumer"
  /\ \/ call.text # "query" /\ Return(call.text)
     \/ call.text = "query" /\ Conflicts /\ Return("conflict")
     \/ /\ call.text = "query" /\ ~Conflicts
        /\ pc' = "queries"
        /\ UNCHANGED <<call, next, total, taken, with, result>>

ParseBinding ==
  /\ pc = "queries"
  /\ \/ bindings[next].text # "query" /\ Return(bindings[next].text)
     \/ /\ bindings[next].text = "query"
        /\ GoOn("queries", "combine") /\ UNCHANGED <<total, taken, with>>

Bound == [i \in DOMAIN bindings |-> [alias |-> Alias(bindings[i].name), reads |-> bindings[i].reads]]

(* Mutant of Combined: the bindings come last.                               *)
CombinedLast == call.ctes \o Bound

(* Mutant of Combined: the bindings in reverse.                              *)
CombinedReversed == [i \in DOMAIN Bound |-> Bound[Len(Bound) + 1 - i]] \o call.ctes

Combined == Bound \o call.ctes

(* The templates of the WITH clause and its CTEs come from the engine.       *)
Combine ==
  /\ pc = "combine"
  /\ \/ Return("ErrInternal")
     \/ /\ with' = Combined
        /\ pc' = "generate"
        /\ UNCHANGED <<call, next, total, taken, result>>

(* The SQL is generated, measured and parsed again.                          *)
Generate ==
  /\ pc = "generate"
  /\ \E r \in {"sql", "ErrUnsupported", "ErrInternal"} : Return(r)

Done == pc = "done" /\ UNCHANGED vars

Next == Start \/ CheckName \/ ParseConsumer \/ ParseBinding \/ Combine \/ Generate \/ Done

Spec == Init /\ [][Next]_vars
-----------------------------------------------------------------------------
(* Properties *)

IsBound == result = "sql" /\ bindings # <<>>

(* Types, and what the checks so far have established.                       *)
TypeOK ==
  /\ call \in Call
  /\ pc \in {"start", "names", "consumer", "queries", "combine", "generate", "done"}
  /\ next \in Nat \ {0} /\ total \in Nat /\ taken \subseteq Names /\ with \in Seq(Cte)
  /\ pc \in {"names", "queries"} => next <= Len(bindings)
  /\ pc = "names" => \A key \in taken : \E i \in 1 .. next - 1 : BindingKey(bindings[i].name) = key
  /\ result = "none" <=> pc # "done"

(* Two CTEs of one WITH clause have one name.                                *)
SameName(i, j) == Key(with[i].alias) = Key(with[j].alias)

(* A name in mixed case is compared in lower case but written in quotes, so  *)
(* that a consumer's CTE quoted alike goes unnoticed.                        *)
Unnoticed(i) == i <= Len(bindings) /\ bindings[i].name # BindingKey(bindings[i].name)

(* "A binding name that duplicates another binding or an existing root       *)
(* consumer CTE is rejected": the WITH clause that is returned declares no   *)
(* name twice, mixed case aside.                                             *)
NamesDistinct ==
  IsBound => \A i \in 1 .. Len(bindings) : \A j \in DOMAIN with \ {i} :
               SameName(i, j) => Unnoticed(i) /\ j > Len(bindings)

(* The same without the exception.                                           *)
DuplicatesRejected ==
  IsBound => \A i \in 1 .. Len(bindings) : \A j \in DOMAIN with \ {i} : ~SameName(i, j)

(* The CTEs the name id denotes where the CTE at stands, or behind the last  *)
(* one; none if it denotes a table.                                          *)
Denoted(ctes, at, id) ==
  {i \in DOMAIN ctes : Key(ctes[i].alias) = Key(id) /\ (i < at \/ call.recursive)}

(* Under WITH RECURSIVE a binding also sees itself and what follows it.      *)
SeesBehind(at, id) ==
  call.recursive /\ \E i \in DOMAIN with : i >= at /\ Key(with[i].alias) = Key(id)

(* "Each binding may reference an earlier binding": its names denote earlier *)
(* bindings or tables, and nothing in the consumer that it knows nothing of, *)
(* unless the consumer's WITH is RECURSIVE.                                  *)
BindingsReadEarlierOnes ==
  IsBound => \A i \in 1 .. Len(bindings) : \A id \in bindings[i].reads :
    ~SeesBehind(i, id) =>
      Denoted(with, i, id) = {j \in 1 .. i - 1 : Alias(bindings[j].name).name = Key(id)}

(* What the reads of the consumer, where its CTE at stands, denote: what the *)
(* consumer resolves itself it still does, all else may be a binding.        *)
ConsumerReads(at, reads) ==
  \A id \in reads :
    LET own == {i + Len(bindings) : i \in Denoted(call.ctes, at, id)}
        bound == {i \in 1 .. Len(bindings) : Alias(bindings[i].name).name = Key(id)}
    IN  Denoted(with, at + Len(bindings), id) =
          IF own = {} THEN bound ELSE own \union {i \in bound : Unnoticed(i)}

(* "Existing consumer CTEs may reference any binding", and so may the query; *)
(* the names the consumer resolves itself it still resolves itself.          *)
ConsumerKeepsItsNames ==
  IsBound =>
    /\ ConsumerReads(Len(call.ctes) + 1, call.reads)
    /\ \A i \in DOMAIN call.ctes : ConsumerReads(i, call.ctes[i].reads)

(* All texts together stay below the limit before any is parsed.             *)
SizesOf(c) ==
  LET Upto[n \in 0 .. Len(c.bindings)] ==
        IF n = 0 THEN c.size ELSE Upto[n - 1] + c.bindings[n].size
  IN  Upto

InputBounded ==
  pc \in {"consumer", "queries", "combine", "generate"} =>
    SizesOf(call)[Len(bindings)] <= MaxInputBytes
=============================================================================
