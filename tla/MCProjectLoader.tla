--------------------------- MODULE MCProjectLoader ---------------------------
(* Small file systems for ProjectLoader: files 1..N, the first a root. *)
EXTENDS ProjectLoader

CONSTANT N

MCFile == 1..N

Local(f) == [name |-> "local", usage |-> "plain", local |-> f, script |-> None,
             kind |-> "none", package |-> None]

Script(f) == [Local(None) EXCEPT !.script = f]

Package(n, usage, kind, f) == [Local(None) EXCEPT !.name = n, !.usage = usage,
                                                  !.kind = kind, !.package = f]

PackageOf == <<"one", "two", "three", "four">>

MCName == {"local", "pkg"} \cup {PackageOf[i] : i \in 1..4}

\* What a file names: by a use or by a reference directive.
Edge(g) == {[use |-> <<Local(g)>>, ref |-> <<>>],
            [use |-> <<Package(PackageOf[g], "plain", "declaration", g)>>, ref |-> <<>>],
            [use |-> <<>>, ref |-> <<g>>]}

NoEdge == [use |-> <<>>, ref |-> <<>>]

EdgeTo(S) == {NoEdge} \cup UNION {Edge(g) : g \in S}

Both(a, b) == [use |-> a.use \o b.use, ref |-> a.ref \o b.ref]

\* The root names file 2 and perhaps another file; those name one file each.
MixedWorlds(readables) ==
    {LET out == <<Both(a, x), b, c, d>>
     IN  [roots |-> <<1>>, types |-> <<>>, readable |-> readable,
          uses |-> [f \in MCFile |-> IF f \in DOMAIN out THEN out[f].use ELSE <<>>],
          refs |-> [f \in MCFile |-> IF f \in DOMAIN out THEN out[f].ref ELSE <<>>]] :
        a \in Edge(2), x \in EdgeTo({3}), b \in EdgeTo({3, 4}), c \in EdgeTo({2, 4}),
        d \in EdgeTo({2}), readable \in readables}

\* Relative imports: the root names up to three files, the others two.
LocalSeqs(S) == {SetToSeq({Local(g) : g \in T}) : T \in SUBSET S}

LocalWorlds(readables) ==
    {[roots |-> <<1>>, types |-> t, readable |-> readable,
      uses |-> [f \in MCFile |-> IF f = 1 THEN a ELSE IF f = 2 THEN b ELSE
                                 IF f = 3 THEN c ELSE <<>>],
      refs |-> [f \in MCFile |-> <<>>]] :
        a \in LocalSeqs({2, 3, 4}), b \in LocalSeqs({3, 4, 5}), c \in LocalSeqs({4, 5}),
        t \in {<<>>, <<3>>}, readable \in readables}

\* Package specifiers in every usage, resolved in different ways by each file.
PackageUses ==
    {Package("pkg", usage, "declaration", g) : usage \in {"plain", "equals"}, g \in {2, 3}}
    \cup {Package("pkg", usage, "missing", None) : usage \in {"plain", "equals"}}
    \cup {Package("pkg", "require", "declaration", 2), Package("pkg", "import", "missing", None),
          Package("pkg", "plain", "runtime", 4),
          Package("pkg", "plain", "json", 4), Local(3), Script(4)}

Bodies(k) == {s \in UNION {[1..j -> PackageUses] : j \in 0..k} : UseDetermined(s)}

PackageWorlds(first) ==
    {[roots |-> <<1>>, types |-> <<>>, readable |-> MCFile,
      uses |-> [f \in MCFile |-> IF f = 1 THEN a ELSE IF f = 2 THEN b ELSE
                                 IF f = 3 THEN c ELSE <<>>],
      refs |-> [f \in MCFile |-> IF f = 1 THEN r ELSE <<>>]] :
        a \in first, b \in Bodies(1),
        c \in {<<>>} \cup {<<Package("pkg", usage, "declaration", 2)>> : usage \in {"plain", "equals"}},
        r \in {<<>>, <<3>>}}

MCWorlds ==
    MixedWorlds({MCFile, MCFile \ {3}})
    \cup LocalWorlds({MCFile, MCFile \ {2}, MCFile \ {4}})
    \cup PackageWorlds(Bodies(2))
=============================================================================
