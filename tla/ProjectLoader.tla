---------------------------- MODULE ProjectLoader ----------------------------
(***************************************************************************)
(* The project loader (Project::prepare): the files of a program are found *)
(* by three scanners that share one append-only list of sources and are    *)
(* run in turn until a round adds nothing:                                 *)
(*   packages    bare specifiers, resolved through node_modules;           *)
(*   graph       relative specifiers and path aliases, wave by wave, with  *)
(*               a wave's files read by several threads;                   *)
(*   references  /// <reference path> and <reference types> directives.    *)
(* Each scanner has a cursor of its own over the list and its own idea of  *)
(* which files are known.                                                  *)
(*                                                                         *)
(* inputs and sources are always extended together and are one list here.  *)
(* Files are canonical names.  What a specifier resolves to is a fact of   *)
(* the file system, which does not change while the project is loaded.     *)
(***************************************************************************)
EXTENDS Naturals, Sequences, FiniteSets, SequencesExt, FiniteSetsExt, Functions, TLC

CONSTANTS
    File,          \* canonical file names
    Name,          \* module specifiers
    NumReaders,    \* threads that read the files of a wave
    ParallelFrom,  \* a wave of fewer files is read by one thread
    Worlds,        \* file systems with a configuration
    None

Readers == 1..NumReaders

Kind == {"none", "missing", "declaration", "runtime", "json"}

\* ImportUsage: a declaration, an `import x = require()`, or a resolution-mode
\* attribute that asks for one of the two modes.
Overrides == {"require", "import"}

Usage == {"plain", "equals"} \cup Overrides

\* A specifier as written: what the import graph finds for it, the JavaScript
\* file it finds otherwise, and what package resolution finds.
Use == [name : Name, usage : Usage,
        local : File \cup {None}, script : File \cup {None},
        kind : Kind, package : File \cup {None}]

World == [roots : Seq(File), types : Seq(File), uses : [File -> Seq(Use)],
          refs : [File -> Seq(File)], readable : SUBSET File]

\* A package specifier means one thing in one file and usage.
UseDetermined(uses) ==
    \A i, j \in DOMAIN uses :
        /\ uses[i].name = uses[j].name /\ uses[i].usage = uses[j].usage
        /\ uses[i].kind # "none" /\ uses[j].kind # "none"
        => uses[i] = uses[j]

\* A file system the loader can meet.
IsWorld(w) ==
    /\ w \in World
    /\ w.roots # <<>> /\ IsInjective(w.roots)
    /\ \A f \in File :
        /\ UseDetermined(w.uses[f])
        /\ \A u \in ToSet(w.uses[f]) :
            /\ (u.package = None) <=> (u.kind \in {"none", "missing"})
            /\ u.kind = "json" => w.uses[u.package] = <<>>

ASSUME ProjectLoaderAssumption ==
    /\ IsFiniteSet(File) /\ None \notin File
    /\ NumReaders \in Nat \ {0}
    /\ ParallelFrom \in Nat
    /\ \A w \in Worlds : IsWorld(w)

VARIABLES
    world,       \* the file system and the configuration
    pc,          \* the part of prepare that is running
    sources,     \* the sources so far: file, whose text it has, who loaded it
    before,      \* files_before: the length of sources when the round began
    loading,     \* the files load_type_package_file is still to be called for
    scanned,     \* scanned_sources: how many sources the package scanner has queued
    at,          \* where it is: sources done, uses done of the next, where it ends
    requests,    \* packages_to_resolve
    queued,      \* queued_specifiers
    graph,       \* ImportGraphState: known, next, synced; and added
    wave,        \* the wave: its end, uses done of the next source, what it found
                 \* and how much of that is pushed
    reads,       \* its reads: files claimed, what each reader read, readers
                 \* joined, their results and the texts
    referenced,  \* scanned_files of the reference scanner
    pending,     \* the sources it collected, by index
    resolved,    \* resolved_modules: the fallback for every importer
    importers,   \* resolved_modules_by_importer
    scripts      \* javascript_modules

list == <<sources, before, loading>>
packages == <<scanned, at, requests, queued>>
expansion == <<graph, wave, reads>>
references == <<referenced, pending>>
answers == <<resolved, importers, scripts>>
vars == <<world, pc, list, packages, expansion, references, answers>>

-----------------------------------------------------------------------------

Source(f, text, by) == [file |-> f, text |-> text, by |-> by]

Files(s) == {s[i].file : i \in DOMAIN s}

UsesOf(source) == world.uses[source.text]

NoWave == [end |-> 0, use |-> 0, found |-> <<>>, pushed |-> 0]

NoReads == [claimed |-> 0, out |-> [r \in Readers |-> <<>>], joined |-> 0,
            results |-> <<>>, texts |-> <<>>]

Init ==
    /\ world \in Worlds
    /\ pc = "roots"
    /\ sources = <<>> /\ before = 0 /\ loading = <<>>
    /\ scanned = 0 /\ at = [source |-> 0, use |-> 0, end |-> 0]
    /\ requests = <<>> /\ queued = {}
    /\ graph = [known |-> {}, next |-> 0, synced |-> 0, added |-> 0]
    /\ wave = NoWave /\ reads = NoReads
    /\ referenced = {} /\ pending = {}
    /\ resolved = <<>> /\ importers = <<>> /\ scripts = <<>>

\* The configured files; one that cannot be read is an error of the project.
ReadRoots ==
    /\ pc = "roots"
    /\ IF ToSet(world.roots) \subseteq world.readable
       THEN /\ sources' = [i \in DOMAIN world.roots |->
                              Source(world.roots[i], world.roots[i], "root")]
            /\ loading' = world.types
            /\ pc' = "types"
       ELSE pc' = "failed" /\ UNCHANGED <<sources, loading>>
    /\ UNCHANGED <<world, before, packages, expansion, references, answers>>

\* load_type_package_file for the next file.
LoadNext(by) ==
    /\ loading # <<>>
    /\ LET f == Head(loading)
       IN  sources' = IF f \in Files(sources) \/ f \notin world.readable THEN sources
                      ELSE Append(sources, Source(f, f, by))
    /\ loading' = Tail(loading)
    /\ UNCHANGED <<world, pc, before, packages, expansion, references, answers>>

TypePackage == pc = "types" /\ LoadNext("types")

EndTypePackages ==
    /\ pc = "types" /\ loading = <<>>
    /\ pc' = "round"
    /\ UNCHANGED <<world, list, packages, expansion, references, answers>>

-----------------------------------------------------------------------------
(* Packages. *)

\* A round begins: the sources not queued before are to be.
BeginRound ==
    /\ pc = "round"
    /\ before' = Len(sources)
    /\ at' = [source |-> scanned, use |-> 0, end |-> Len(sources)]
    /\ requests' = <<>> /\ queued' = {}
    /\ pc' = "packages"
    /\ UNCHANGED <<world, sources, loading, scanned, expansion, references, answers>>

Extracting == pc = "packages" /\ at.source < at.end

ExtractedUses == UsesOf(sources[at.source + 1])

\* The next specifier of a source is queued, each (importer, specifier, usage) once.
QueueUse ==
    /\ Extracting /\ at.use < Len(ExtractedUses)
    /\ LET u == ExtractedUses[at.use + 1]
           f == sources[at.source + 1].file
           key == <<f, u.name, u.usage>>
       IN  IF u.kind = "none" \/ key \in queued THEN UNCHANGED <<requests, queued>>
           ELSE /\ requests' = Append(requests, [importer |-> f, use |-> u])
                /\ queued' = queued \cup {key}
    /\ at' = [at EXCEPT !.use = @ + 1]
    /\ UNCHANGED <<world, pc, list, scanned, expansion, references, answers>>

EndSource ==
    /\ Extracting /\ at.use = Len(ExtractedUses)
    /\ at' = [at EXCEPT !.source = @ + 1, !.use = 0]
    /\ UNCHANGED <<world, pc, list, scanned, requests, queued, expansion, references, answers>>

\* Mutant of Fallback: the last resolution is kept.
FallbackLast(u) ==
    IF u.package = None \/ u.usage \in Overrides THEN resolved
    ELSE (u.name :> u.package) @@ resolved

\* The flat map keeps the first resolution of a specifier.
Fallback(u) ==
    IF u.package = None \/ u.usage \in Overrides \/ u.name \in DOMAIN resolved THEN resolved
    ELSE [n \in DOMAIN resolved \cup {u.name} |->
             IF n = u.name THEN u.package ELSE resolved[n]]

\* The key of its own that a usage has in the importer's map.
OwnKey(u) == IF u.usage = "equals" THEN "require" ELSE u.usage

\* Mutant of PerImporter: an import-equals replaces the plain key.
PerImporterReplaced(f, u) ==
    LET own == <<f, u.name, OwnKey(u)>> :> u.package
        plain == <<f, u.name, "plain">> :> u.package
    IN  IF u.usage = "equals" THEN own @@ plain @@ importers ELSE own @@ importers

\* The importer's map.  The answer is kept even if it is None.  An import-equals
\* also fills the plain key, which a declaration replaces and it does not.
PerImporter(f, u) ==
    LET own == <<f, u.name, OwnKey(u)>> :> u.package
        plain == <<f, u.name, "plain">> :> u.package
    IN  IF u.usage = "equals" THEN own @@ importers @@ plain ELSE own @@ importers

Loads(u) == /\ u.kind \in {"declaration", "json"}
            /\ u.package \notin Files(sources)
            /\ u.package \in world.readable

\* The first request is resolved, recorded, and its file loaded; the specifiers
\* of a declaration file are queued next.
ResolvePackage ==
    /\ pc = "packages" /\ at.source = at.end /\ requests # <<>>
    /\ LET r == Head(requests)
           u == r.use
       IN  /\ resolved' = Fallback(u)
           /\ importers' = PerImporter(r.importer, u)
           /\ sources' = IF Loads(u)
                         THEN Append(sources, Source(u.package, u.package, "package"))
                         ELSE sources
           /\ at' = IF Loads(u) /\ u.kind = "declaration"
                    THEN [source |-> Len(sources), use |-> 0, end |-> Len(sources) + 1]
                    ELSE at
    /\ requests' = Tail(requests)
    /\ UNCHANGED <<world, pc, before, loading, scanned, queued, expansion, references, scripts>>

\* Mutant of Synced: files that other scanners appended are not folded in.
SyncedNot(g) == [g EXCEPT !.added = 0, !.synced = Len(sources)]

\* Files that other scanners appended since the last call are known.
Synced(g) ==
    [g EXCEPT !.added = 0,
              !.known = @ \cup {sources[i].file : i \in (g.synced + 1)..Len(sources)}]

\* The package scanner is done; the import graph starts.
EndPackages ==
    /\ pc = "packages" /\ at.source = at.end /\ requests = <<>>
    /\ scanned' = Len(sources)
    /\ graph' = Synced(graph)
    /\ pc' = "graph"
    /\ UNCHANGED <<world, list, at, requests, queued, wave, reads, references, answers>>

-----------------------------------------------------------------------------
(* The import graph. *)

OpenWave ==
    /\ pc = "graph" /\ graph.next < Len(sources)
    /\ wave' = [NoWave EXCEPT !.end = Len(sources)]
    /\ pc' = "scan"
    /\ UNCHANGED <<world, list, packages, graph, reads, references, answers>>

Scanning == pc = "scan" /\ graph.next < wave.end

ScannedUses == UsesOf(sources[graph.next + 1])

\* The next specifier of a source of the wave: its file is found unless it is
\* known.  A JavaScript file is noted where there is no other.
ScanUse ==
    /\ Scanning /\ wave.use < Len(ScannedUses)
    /\ LET u == ScannedUses[wave.use + 1]
           new == u.local # None /\ u.local \notin graph.known
           lost == u.local = None /\ u.script # None
       IN  /\ wave' = [wave EXCEPT !.use = @ + 1,
                                   !.found = IF new THEN Append(@, u.local) ELSE @]
           /\ graph' = [graph EXCEPT !.known = IF new THEN @ \cup {u.local} ELSE @]
           /\ scripts' = IF lost
                         THEN Append(scripts, <<sources[graph.next + 1].file, u.name, u.script>>)
                         ELSE scripts
    /\ UNCHANGED <<world, pc, list, packages, reads, references, resolved, importers>>

NextSource ==
    /\ Scanning /\ wave.use = Len(ScannedUses)
    /\ graph' = [graph EXCEPT !.next = @ + 1]
    /\ wave' = [wave EXCEPT !.use = 0]
    /\ UNCHANGED <<world, pc, list, packages, reads, references, answers>>

EndScan ==
    /\ pc = "scan" /\ graph.next = wave.end
    /\ pc' = "read"
    /\ UNCHANGED <<world, list, packages, expansion, references, answers>>

TextOf(f) == IF f \in world.readable THEN f ELSE None

InParallel == pc = "read" /\ Len(wave.found) >= ParallelFrom

\* A reader takes the next index and reads that file.
ReadOne(r) ==
    /\ InParallel
    /\ reads.claimed < Len(wave.found)
    /\ LET i == reads.claimed + 1
       IN  reads' = [reads EXCEPT !.claimed = i,
                                  !.out[r] = Append(@, <<i, TextOf(wave.found[i])>>)]
    /\ UNCHANGED <<world, pc, list, packages, graph, wave, references, answers>>

\* No index is left, so the readers end; they are joined in turn.
JoinReader ==
    /\ InParallel
    /\ reads.claimed = Len(wave.found) /\ reads.joined < NumReaders
    /\ LET r == reads.joined + 1
       IN  reads' = [reads EXCEPT !.joined = r, !.results = @ \o reads.out[r]]
    /\ UNCHANGED <<world, pc, list, packages, graph, wave, references, answers>>

\* Mutant of InFileOrder: the readers' results are taken as they were joined.
InFileOrderJoined(results) == [i \in DOMAIN results |-> results[i][2]]

\* The results sorted by index: each is where as many are before it as have a
\* smaller index.
InFileOrder(results) ==
    LET smaller(j) == {k \in DOMAIN results : results[k][1] < results[j][1]}
    IN  [i \in DOMAIN results |->
            results[CHOOSE j \in DOMAIN results : Cardinality(smaller(j)) = i - 1][2]]

SortResults ==
    /\ InParallel
    /\ reads.joined = NumReaders
    /\ reads' = [reads EXCEPT !.texts = InFileOrder(reads.results)]
    /\ pc' = "push"
    /\ UNCHANGED <<world, list, packages, graph, wave, references, answers>>

ReadAll ==
    /\ pc = "read"
    /\ Len(wave.found) < ParallelFrom
    /\ reads' = [reads EXCEPT !.texts = [i \in DOMAIN wave.found |-> TextOf(wave.found[i])]]
    /\ pc' = "push"
    /\ UNCHANGED <<world, list, packages, graph, wave, references, answers>>

\* Mutant of Unpushed: the last file read is pushed first.
UnpushedReversed == Len(wave.found) - wave.pushed

\* The index of the file to push: in the order of their discovery.
Unpushed == wave.pushed + 1

\* A file of the wave becomes a source, unless it could not be read.
PushNext ==
    /\ pc = "push" /\ wave.pushed < Len(wave.found)
    /\ LET f == wave.found[Unpushed]
           text == reads.texts[Unpushed]
       IN  IF text = None THEN UNCHANGED <<sources, graph>>
           ELSE /\ sources' = Append(sources, Source(f, text, "graph"))
                /\ graph' = [graph EXCEPT !.added = @ + 1]
    /\ wave' = [wave EXCEPT !.pushed = @ + 1]
    /\ UNCHANGED <<world, pc, before, loading, packages, reads, references, answers>>

EndWave ==
    /\ pc = "push" /\ wave.pushed = Len(wave.found)
    /\ wave' = NoWave /\ reads' = NoReads
    /\ pc' = "graph"
    /\ UNCHANGED <<world, list, packages, graph, references, answers>>

EndGraph ==
    /\ pc = "graph" /\ graph.next = Len(sources)
    /\ graph' = [graph EXCEPT !.synced = Len(sources)]
    /\ pc' = "references"
    /\ UNCHANGED <<world, list, packages, wave, reads, references, answers>>

-----------------------------------------------------------------------------
(* References. *)

Unscanned == {i \in DOMAIN sources : sources[i].file \notin referenced}

AtDirectives == pc = "references" /\ loading = <<>>

CollectPending ==
    /\ AtDirectives /\ pending = {} /\ Unscanned # {}
    /\ pending' = Unscanned
    /\ UNCHANGED <<world, pc, list, packages, expansion, referenced, answers>>

IsNextPending(i) == i \in pending /\ \A j \in pending : i <= j

\* Mutant of ScanReferences: a source is not remembered as scanned.
ScanReferencesForgets ==
    /\ AtDirectives
    /\ \E i \in DOMAIN sources :
        /\ IsNextPending(i)
        /\ loading' = world.refs[sources[i].text]
        /\ pending' = pending \ {i}
    /\ UNCHANGED <<world, pc, sources, before, packages, expansion, referenced, answers>>

\* The files that the next collected source refers to are to be loaded.
ScanReferences ==
    /\ AtDirectives
    /\ \E i \in DOMAIN sources :
        /\ IsNextPending(i)
        /\ referenced' = referenced \cup {sources[i].file}
        /\ loading' = world.refs[sources[i].text]
        /\ pending' = pending \ {i}
    /\ UNCHANGED <<world, pc, sources, before, packages, expansion, answers>>

LoadReference == pc = "references" /\ LoadNext("reference")

\* Mutant of Settled: only the graph's additions count.
SettledGraph == graph.added = 0

\* The round added nothing.
Settled == graph.added = 0 /\ Len(sources) = before

\* The JavaScript files fill what no package resolution answered.
WithScripts ==
    FoldLeft(LAMBDA m, x : m @@ (<<x[1], x[2], "plain">> :> x[3]), importers, scripts)

\* The references are resolved: another round, or the end.
EndRound ==
    /\ AtDirectives /\ pending = {} /\ Unscanned = {}
    /\ IF Settled THEN pc' = "done" /\ importers' = WithScripts
                  ELSE pc' = "round" /\ UNCHANGED importers
    /\ UNCHANGED <<world, list, packages, expansion, references, resolved, scripts>>

Over == pc \in {"done", "failed"}

Terminated == Over /\ UNCHANGED vars

-----------------------------------------------------------------------------

Step ==
    \/ ReadRoots \/ TypePackage \/ EndTypePackages
    \/ BeginRound \/ QueueUse \/ EndSource \/ ResolvePackage \/ EndPackages
    \/ OpenWave \/ ScanUse \/ NextSource \/ EndScan
    \/ (\E r \in Readers : ReadOne(r)) \/ JoinReader \/ SortResults \/ ReadAll
    \/ PushNext \/ EndWave \/ EndGraph
    \/ CollectPending \/ ScanReferences \/ LoadReference \/ EndRound

Next == Step \/ Terminated

Spec == Init /\ [][Next]_vars

\* The loader's thread runs, and so does some reader while a wave is read.
FairSpec == Spec /\ WF_vars(Step)

-----------------------------------------------------------------------------
(* Properties. *)

\* No file is loaded twice, though three scanners load and each keeps its own
\* account of what is known (import_graph.rs:39-46).
LoadedOnce == \A i, j \in DOMAIN sources : i # j => sources[i].file # sources[j].file

\* Every source has the text of its own file, whatever order the readers of a
\* wave finished in.
OwnText == \A i \in DOMAIN sources : sources[i].text = sources[i].file

\* The specifiers of the program, as (source, specifier), and their order.
Places == UNION {{<<i, k>> : k \in DOMAIN UsesOf(sources[i])} : i \in DOMAIN sources}

UseAt(p) == UsesOf(sources[p[1]])[p[2]]

Earlier(a, b) == a[1] < b[1] \/ (a[1] = b[1] /\ a[2] < b[2])

First(S) == CHOOSE a \in S : \A b \in S \ {a} : Earlier(a, b)

\* The places where the import graph finds file f.
Mentions(f) == {p \in Places : UseAt(p).local = f}

\* The graph appends files in the order a loop over single files would: by the
\* first specifier that names them (import_graph.rs:50-53).
DiscoveryOrder ==
    \A i, j \in DOMAIN sources :
        i < j /\ sources[i].by = "graph" /\ sources[j].by = "graph"
            => Earlier(First(Mentions(sources[i].file)), First(Mentions(sources[j].file)))

\* The places that package resolution answers for specifier n.
Resolutions(n) ==
    {p \in Places : UseAt(p).name = n /\ UseAt(p).package # None /\ UseAt(p).usage \notin Overrides}

\* The project-wide fallback of a specifier is its first resolution in the order
\* of the sources, over all rounds (lib.rs:361-364).
FirstResolution ==
    pc = "done" =>
        /\ DOMAIN resolved = {n \in Name : Resolutions(n) # {}}
        /\ \A n \in DOMAIN resolved : resolved[n] = UseAt(First(Resolutions(n))).package

\* The uses of specifier n in file f that package resolution answers.
Asked(f, n, usages) ==
    {u \in ToSet(world.uses[f]) : u.name = n /\ u.usage \in usages /\ u.kind # "none"}

\* Key k of file f and specifier n answers one of the uses in S, if there are any.
Answers(f, n, k, S) ==
    S # {} => /\ <<f, n, k>> \in DOMAIN importers
              /\ \E u \in S : importers[<<f, n, k>>] = u.package

\* Every loaded file, whichever scanner and round loaded it, has answers of its own:
\* the plain key is that of its declarations, wherever an import-equals stands, and a
\* failure stays a failure although the fallback may have a file (lib.rs:360-366).
OwnResolution ==
    pc = "done" =>
        \A f \in Files(sources), n \in Name :
            LET plain == Asked(f, n, {"plain"})
            IN  /\ Answers(f, n, "plain", IF plain # {} THEN plain ELSE Asked(f, n, {"equals"}))
                /\ Answers(f, n, "require", Asked(f, n, {"equals", "require"}))
                /\ Answers(f, n, "import", Asked(f, n, {"import"}))

\* What a file names, by any of the three scanners.
NamedBy(f) ==
    (ToSet(world.refs[f]) \cup
     UNION {{u.local} \cup (IF u.kind \in {"declaration", "json"} THEN {u.package} ELSE {}) :
               u \in ToSet(world.uses[f])}) \ {None}

\* The loader finds the least set of files closed under what files name.
Closure == INSTANCE FileClosure WITH
    graph <- [roots |-> ToSet(world.roots), types |-> ToSet(world.types),
              readable |-> world.readable, names |-> [f \in File |-> NamedBy(f)]],
    loaded <- Files(sources),
    over <- Over

ImplementsClosure == Closure!Spec

\* The rounds come to an end.
Termination == <>Over
=============================================================================
