------------------------------ MODULE TableScope ------------------------------
(***************************************************************************)
(* Which tables a row filter applies to: the scope options of              *)
(* ApplyRowFilter (WithTableNames, WithTableRegexp, WithDefaultDB), their   *)
(* compilation by compile() and the test matches() makes of a reference.    *)
(*                                                                         *)
(* A dotted name, of a reference or of a scope entry, is the sequence of    *)
(* its parts as written: <<table>>, <<schema, table>> or                    *)
(* <<catalog, schema, table>>.  A regular expression is the set of written  *)
(* dotted names it matches, or BadPattern when it is blank or does not      *)
(* compile.                                                                 *)
(***************************************************************************)
EXTENDS Naturals, SequencesExt

CONSTANTS
  Idents,      \* the identifiers, as written
  Fold,        \* strings.ToLower on identifiers
  NoIdent,     \* the empty string
  Dual,        \* "dual", MySQL's one-row pseudo table
  BadPattern   \* a blank or uncompilable regular expression

ASSUME FoldAssumption ==
  /\ Fold \in [Idents -> Idents]
  /\ \A i \in Idents : Fold[Fold[i]] = Fold[i]
  /\ NoIdent \notin Idents
  /\ Dual \in Idents

(* The dotted names a parser can return for a table reference.             *)
DottedNames == UNION {[1 .. k -> Idents] : k \in 1 .. 3}

FoldName(name) == [i \in DOMAIN name |-> Fold[name[i]]]

TableOf(name) == name[Len(name)]

IsQualified(name) == Len(name) > 1

-----------------------------------------------------------------------------
(* compile(): the options of one call become lookup sets.                  *)

(* splitName yields no table for an entry with an empty part or with more  *)
(* than three parts; compile skips such an entry.                          *)
IsSplittable(entry) == Len(entry) \in 1 .. 3 /\ \A i \in DOMAIN entry : entry[i] # NoIdent

EntriesOfLength(names, k) ==
  {FoldName(e) : e \in {f \in ToSet(names) : IsSplittable(f) /\ Len(f) = k}}

HasBadPattern(opts) == BadPattern \in ToSet(opts.regexps)

(* Mutant of CompiledScope: the default database keeps its letter case.      *)
CompiledScopeRawDefault(opts) ==
  [scopeSet     |-> opts.names # <<>> \/ opts.regexps # <<>>,
   byCatalogKey |-> EntriesOfLength(opts.names, 3),
   byKey        |-> EntriesOfLength(opts.names, 2),
   byName       |-> EntriesOfLength(opts.names, 1),
   regexps      |-> ToSet(opts.regexps),
   defaultDB    |-> opts.defaultDB]

(* scopeSet is raised by the values the options carry: an option supplied   *)
(* with no value leaves the slice nil and the flag down.                    *)
CompiledScope(opts) ==
  [scopeSet     |-> opts.names # <<>> \/ opts.regexps # <<>>,
   byCatalogKey |-> EntriesOfLength(opts.names, 3),
   byKey        |-> EntriesOfLength(opts.names, 2),
   byName       |-> EntriesOfLength(opts.names, 1),
   regexps      |-> ToSet(opts.regexps),
   defaultDB    |-> IF opts.defaultDB = NoIdent THEN NoIdent ELSE Fold[opts.defaultDB]]

(* "a table scope option was provided but matched no tables"               *)
ScopesNothing(sc) ==
  /\ sc.scopeSet
  /\ sc.byCatalogKey = {} /\ sc.byKey = {} /\ sc.byName = {} /\ sc.regexps = {}

-----------------------------------------------------------------------------
(* matches(): is the table reference called name in the compiled scope?    *)

IsDual(name) == ~IsQualified(name) /\ Fold[TableOf(name)] = Dual

SchemaKey(sc, name) ==
  LET folded == FoldName(name)
  IN  IF IsQualified(name)
        THEN <<folded[Len(name) - 1], folded[Len(name)]>>
        ELSE <<sc.defaultDB, folded[1]>>

Matches(sc, name) ==
  /\ ~IsDual(name)
  /\ \/ ~sc.scopeSet
     \/ FoldName(name) \in sc.byCatalogKey
     \/ (IsQualified(name) \/ sc.defaultDB # NoIdent) /\ SchemaKey(sc, name) \in sc.byKey
     \/ <<Fold[TableOf(name)]>> \in sc.byName
     \/ \E rx \in sc.regexps : <<TableOf(name)>> \in rx \/ name \in rx

-----------------------------------------------------------------------------
(* What the options promise, stated without the lookup sets: an entry       *)
(* covers a reference when it is a suffix of the reference's full name,     *)
(* letter case aside, the default database completing a bare reference; a   *)
(* pattern covers it when it matches the bare or the full name as written.  *)
(* Without an entry or a pattern every table is covered; DUAL never is.     *)

FullName(opts, name) ==
  IF IsQualified(name) \/ opts.defaultDB = NoIdent THEN name ELSE <<opts.defaultDB>> \o name

(* The last parts of the dotted name t are those of s, letter case aside.    *)
EndsWith(t, s) ==
  /\ Len(s) <= Len(t)
  /\ \A i \in 1 .. Len(s) : Fold[t[Len(t) - Len(s) + i]] = Fold[s[i]]

Covered(opts, name) ==
  /\ ~IsDual(name)
  /\ \/ opts.names = <<>> /\ opts.regexps = <<>>
     \/ \E e \in ToSet(opts.names) : IsSplittable(e) /\ EndsWith(FullName(opts, name), e)
     \/ \E rx \in ToSet(opts.regexps) : <<TableOf(name)>> \in rx \/ name \in rx
=============================================================================
