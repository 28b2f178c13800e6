---------------------------- MODULE ExportTables -----------------------------
(***************************************************************************)
(* Resolution of the modules' export tables: a depth-first search over the *)
(* re-exports, with a table of finished modules and a flag for each module *)
(* in progress.  A module that is re-entered answers with its local table, *)
(* so what the modules of a cycle finish with depends on where the search  *)
(* entered it.                                                             *)
(*                                                                         *)
(* The model follows the value side of the tables: a name's symbol is its  *)
(* declaration, the namespace of a module or unknown; a name may be marked *)
(* as exported for types only.  Of the type side it keeps the names bound  *)
(* to an unknown type, which count as found; the modules declare values.   *)
(* Every specifier is relative.  default, export =, ambient modules, the   *)
(* re-export of an imported name and export type { x } without a module,   *)
(* which marks a name in the local table, are left out.                    *)
(***************************************************************************)
EXTENDS Naturals, Sequences, FiniteSets, SequencesExt

CONSTANTS
    N,         \* the modules are 1..N, in the order of the files
    Name,      \* exported names
    Programs,  \* what the modules declare and re-export
    None

Module == 1..N

Target == Module \cup {None}

\* export { name as as } from to, export * as as from to, export * from to.
StarStatement(T) == [kind : {"star"}, to : Target, name : {None}, as : {None}, typeOnly : T]

StatementOf(T) ==
    [kind : {"named"}, to : Target, name : Name, as : Name, typeOnly : T]
    \cup [kind : {"namespace"}, to : Target, name : {None}, as : Name, typeOnly : T]
    \cup StarStatement(T)

Statement == StatementOf(BOOLEAN)

IsStar(s) == s.kind = "star"

Program == [locals : [Module -> SUBSET Name], exports : [Module -> Seq(Statement)]]

ASSUME ExportTablesAssumption ==
    /\ N \in Nat \ {0}
    /\ IsFiniteSet(Name)
    /\ Programs \subseteq Program
    /\ None \notin Module

VARIABLES
    program,    \* the modules
    next,       \* the file the outer loop is at
    resolved,   \* [Module -> a table, or None]
    resolving,  \* [Module -> is it in progress?]
    stack,      \* the modules in progress, with their tables so far
    reported,   \* the specifiers reported as missing exports
    entered     \* the modules the outer loop entered with nothing reachable resolved

vars == <<program, next, resolved, resolving, stack, reported, entered>>

-----------------------------------------------------------------------------

Absent == [kind |-> "absent", of |-> None, name |-> None]
UnknownSymbol == [kind |-> "unknown", of |-> None, name |-> None]
Declared(m, n) == [kind |-> "declared", of |-> m, name |-> n]
NamespaceOf(m) == [kind |-> "namespace", of |-> m, name |-> None]

Symbol == [kind : {"absent", "unknown", "declared", "namespace"},
           of : Module \cup {None}, name : Name \cup {None}]

\* ModuleExportTable: symbols, the names of type_declarations, type_only_exports,
\* has_unresolved_star_export.
Table == [symbols : [Name -> Symbol], types : SUBSET Name, typeOnly : SUBSET Name,
          openStar : BOOLEAN]

ASSUME NoneAssumption == None \notin Table

Has(t, n) == t.symbols[n] # Absent

LocalTable(m) ==
    [symbols |-> [n \in Name |-> IF n \in program.locals[m] THEN Declared(m, n) ELSE Absent],
     types |-> {}, typeOnly |-> {}, openStar |-> FALSE]

\* A module in progress: the statements that are left, by their position in the
\* file, its table, and the targets of its type-only stars.
Frame == [module : Module, todo : SUBSET Nat, table : Table, later : Seq(Table)]

Init ==
    /\ program \in Programs
    /\ next = 1
    /\ resolved = [m \in Module |-> None]
    /\ resolving = [m \in Module |-> FALSE]
    /\ stack = <<>>
    /\ reported = {}
    /\ entered = {}

\* The modules that m re-exports from, directly or not, and m.
Reach(m) ==
    LET step(S) == S \cup ({s.to : s \in UNION {ToSet(program.exports[x]) : x \in S}} \ {None})
        upto[k \in 0..N] == IF k = 0 THEN {m} ELSE step(upto[k - 1])
    IN  upto[N]

Push(m) ==
    /\ resolving' = [resolving EXCEPT ![m] = TRUE]
    /\ stack' = Append(stack, [module |-> m, todo |-> DOMAIN program.exports[m],
                               table |-> LocalTable(m), later |-> <<>>])

\* The loop of resolve_module_export_tables.
ResolveNext ==
    /\ stack = <<>> /\ next <= N
    /\ next' = next + 1
    /\ IF resolved[next] = None
       THEN /\ Push(next)
            /\ entered' = IF \A x \in Reach(next) : resolved[x] = None
                          THEN entered \cup {next} ELSE entered
       ELSE UNCHANGED <<resolving, stack, entered>>
    /\ UNCHANGED <<program, resolved, reported>>

Top == stack[Len(stack)]

SetTop(f) == stack' = [stack EXCEPT ![Len(stack)] = f]

StatementAt(i) == program.exports[Top.module][i]

\* The named and namespace exports first, then the stars.
Before(i, j) ==
    IF IsStar(StatementAt(i)) = IsStar(StatementAt(j)) THEN i < j ELSE IsStar(StatementAt(j))

\* The innermost module has reached its i-th statement.
Reached(i) ==
    /\ stack # <<>>
    /\ i \in Top.todo
    /\ \A j \in Top.todo \ {i} : Before(i, j)

Unentered(m) == resolved[m] = None /\ ~ resolving[m]

\* The statement's module has to be resolved first.
Descend(i) ==
    /\ Reached(i)
    /\ StatementAt(i).to # None
    /\ Unentered(StatementAt(i).to)
    /\ Push(StatementAt(i).to)
    /\ UNCHANGED <<program, next, resolved, reported, entered>>

\* It is at a statement of this kind whose module, if it was found, need not be.
At(i, kind) ==
    /\ Reached(i)
    /\ StatementAt(i).kind = kind
    /\ StatementAt(i).to # None => ~ Unentered(StatementAt(i).to)

\* Mutant of TargetTable: the finished table is not consulted.
TargetTableLocal(m) == LocalTable(m)

\* What a module that need not be entered answers.
TargetTable(m) == IF resolved[m] # None THEN resolved[m] ELSE LocalTable(m)

\* The statement is done, with this table.
Advance(i, t) == SetTop([Top EXCEPT !.todo = @ \ {i}, !.table = t])

WithSymbol(t, n, sym) == [t EXCEPT !.symbols[n] = sym]

\* republish_value_export: what is there stays.
Republished(t, n, sym) == IF Has(t, n) THEN t ELSE WithSymbol(t, n, sym)

WithType(t, n) == [t EXCEPT !.types = @ \cup {n}]

MarkedIf(t, n, b) == IF b THEN [t EXCEPT !.typeOnly = @ \cup {n}] ELSE t

\* The target or a module it re-exports by star directly could not be found.
HasOpenStar(m, target) ==
    \/ target.openStar
    \/ \E s \in ToSet(program.exports[m]) : IsStar(s) /\ s.to = None

\* Mutant of Specifier: the export is looked up under its new name.
SpecifierRenamed(s) == s.as

\* The name of the export in its own module.
Specifier(s) == s.name

\* A name whose export is not found: an unknown type, and an unknown value unless it
\* was asked for as a type.
Unfound(t, s) ==
    LET typed == WithType(t, s.as)
    IN  IF s.typeOnly THEN typed ELSE WithSymbol(typed, s.as, UnknownSymbol)

\* A name whose export is found: its value, with the mark of the statement or of the
\* target, and its type.
Found(t, s, target) ==
    LET n == Specifier(s)
        valued == IF Has(target, n)
                  THEN MarkedIf(Republished(t, s.as, target.symbols[n]), s.as,
                                s.typeOnly \/ n \in target.typeOnly)
                  ELSE t
    IN  IF n \in target.types THEN WithType(valued, s.as) ELSE valued

ReexportNamed(i) ==
    /\ At(i, "named")
    /\ LET s == StatementAt(i)
           t == Top.table
           target == TargetTable(s.to)
           found == s.to # None /\ (Has(target, Specifier(s)) \/ Specifier(s) \in target.types)
           excused == s.to = None \/ (~ s.typeOnly /\ HasOpenStar(s.to, target))
       IN  /\ Advance(i, IF found THEN Found(t, s, target) ELSE Unfound(t, s))
           /\ reported' = IF found \/ excused THEN reported
                          ELSE reported \cup {<<Top.module, s>>}
    /\ UNCHANGED <<program, next, resolved, resolving, entered>>

ReexportNamespace(i) ==
    /\ At(i, "namespace")
    /\ LET s == StatementAt(i)
           t == MarkedIf(Top.table, s.as, s.typeOnly)
       IN  Advance(i, WithSymbol(t, s.as, IF s.to = None THEN UnknownSymbol ELSE NamespaceOf(s.to)))
    /\ UNCHANGED <<program, next, resolved, resolving, reported, entered>>

\* Mutant of StarCopied: the marks of the target are not copied.
StarCopiedUnmarked(t, target, marks) ==
    [t EXCEPT !.symbols = [n \in Name |-> IF Has(t, n) THEN t.symbols[n] ELSE target.symbols[n]]]

\* The symbols of a star's target that the table lacks, with these marks.
StarCopied(t, target, marks) ==
    [t EXCEPT !.symbols = [n \in Name |-> IF Has(t, n) THEN t.symbols[n] ELSE target.symbols[n]],
              !.typeOnly = @ \cup {n \in marks : ~ Has(t, n) /\ Has(target, n)}]

\* The types of a star are copied at once, the symbols of a type-only star after the
\* other stars.
ReexportStar(i) ==
    /\ At(i, "star")
    /\ LET s == StatementAt(i)
           target == TargetTable(s.to)
           typed == [Top.table EXCEPT !.types = @ \cup target.types]
       IN  \/ /\ s.to = None
              /\ Advance(i, [Top.table EXCEPT !.openStar = TRUE])
           \/ /\ s.to # None /\ ~ s.typeOnly
              /\ Advance(i, StarCopied(typed, target, target.typeOnly))
           \/ /\ s.to # None /\ s.typeOnly
              /\ SetTop([Top EXCEPT !.todo = @ \ {i}, !.table = typed,
                                    !.later = Append(@, target)])
    /\ UNCHANGED <<program, next, resolved, resolving, reported, entered>>

\* A type-only star marks all that it copies.
LaterStar(t, target) == StarCopied(t, target, Name)

\* The symbols of the next type-only star are copied.
CopyTypeOnlyStar ==
    /\ stack # <<>>
    /\ Top.todo = {} /\ Top.later # <<>>
    /\ SetTop([Top EXCEPT !.table = LaterStar(Top.table, Head(Top.later)), !.later = Tail(@)])
    /\ UNCHANGED <<program, next, resolved, resolving, reported, entered>>

\* The module is resolved.
FinishModule ==
    /\ stack # <<>>
    /\ Top.todo = {} /\ Top.later = <<>>
    /\ resolving' = [resolving EXCEPT ![Top.module] = FALSE]
    /\ resolved' = [resolved EXCEPT ![Top.module] = Top.table]
    /\ stack' = Front(stack)
    /\ UNCHANGED <<program, next, reported, entered>>

Done == stack = <<>> /\ next > N

Terminated == Done /\ UNCHANGED vars

-----------------------------------------------------------------------------

\* The innermost module takes its next statement.
StatementStep ==
    \E i \in Top.todo :
        Descend(i) \/ ReexportNamed(i) \/ ReexportNamespace(i) \/ ReexportStar(i)

Next ==
    \/ ResolveNext
    \/ stack # <<>> /\ StatementStep
    \/ CopyTypeOnlyStar \/ FinishModule
    \/ Terminated

Spec == Init /\ [][Next]_vars

-----------------------------------------------------------------------------
(* Properties. *)

\* The entries <module, name, symbol> that program p has whatever it re-exports:
\* its declarations, and the namespaces of the statements in S.
Originals(p, S) ==
    UNION {{<<m, n, Declared(m, n)>> : n \in p.locals[m]} \cup
           {<<m, s.as, NamespaceOf(s.to)>> :
               s \in {x \in ToSet(p.exports[m]) \cap S : x.kind = "namespace" /\ x.to # None}} :
           m \in Module}

\* The entries that the statement s of module m makes of the entries in R.
Reexported(m, s, R) ==
    IF s.to = None \/ s.kind = "namespace" THEN {}
    ELSE {<<m, IF IsStar(s) THEN e[2] ELSE s.as, e[3]>> :
             e \in {x \in R : x[1] = s.to /\ (IsStar(s) \/ x[2] = s.name)}}

\* What each module exports by the language's rules, through any chain of the
\* statements in S.  Each round adds an entry of every symbol or is the last.
Exported(p, S) ==
    LET round(R) == R \cup UNION {UNION {Reexported(m, s, R) : s \in ToSet(p.exports[m]) \cap S} :
                                     m \in Module}
        upto[k \in 0..(N * Cardinality(Name))] ==
            IF k = 0 THEN Originals(p, S) ELSE round(upto[k - 1])
    IN  upto[N * Cardinality(Name)]

UsableStatement == StatementOf({FALSE})

\* The symbol of name n of module m is none, unknown or in R.
Backed(m, n, sym, R) == sym \in {Absent, UnknownSymbol} \/ <<m, n, sym>> \in R

\* A resolved name is a symbol the module really exports under that name, wherever
\* a cycle was cut (table.rs:806-810).
TablesSound ==
    LET R == Exported(program, Statement)
    IN  \A m \in Module : resolved[m] # None =>
            \A n \in Name : Backed(m, n, resolved[m].symbols[n], R)

\* A value that no chain of re-exports leaves usable is marked, so that no importer
\* uses it as a value.
TypeOnlyKept ==
    LET R == Exported(program, UsableStatement)
    IN  \A m \in Module : resolved[m] # None =>
            \A n \in Name \ resolved[m].typeOnly : Backed(m, n, resolved[m].symbols[n], R)

\* m reaches no cycle of re-exports.
CycleFree(m) ==
    \A x \in Reach(m) : \A s \in ToSet(program.exports[x]) : s.to # None => x \notin Reach(s.to)

\* m reaches nothing but stars.
StarsOnly(m) == \A x \in Reach(m) : \A s \in ToSet(program.exports[x]) : IsStar(s)

\* A module that the outer loop enters before anything it can reach exports every
\* name it should, even in a cycle of stars: what a cut left out of an inner table
\* arrives through the outer ones (table.rs:806-810).  The names of a type-only star
\* count, as values that are marked: so does the code (table.rs:1421-1431) and so do
\* its tests, although ast.rs:1393-1395 says that it re-exports types only.
EntryComplete ==
    \A m \in {x \in entered : resolved[x] # None /\ (StarsOnly(x) \/ CycleFree(x))} :
        \A e \in Exported(program, Statement) : e[1] = m => Has(resolved[m], e[2])

\* A name that an export * reaches without a type-only star is not made type-only by
\* another star (table.rs:1321-1323), cycles aside.
StarNotTypeOnly ==
    LET R == Exported(program, StarStatement({FALSE}))
    IN  \A m \in Module : (resolved[m] # None /\ CycleFree(m)) =>
            \A n \in resolved[m].typeOnly : ~ \E e \in R : e[1] = m /\ e[2] = n
=============================================================================
