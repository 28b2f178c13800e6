------------------------- MODULE ProjectLoaderProofs -------------------------
(***************************************************************************)
(* Proofs about the project loader, for every file system, every number of *)
(* readers and every size from which a wave is read in parallel.           *)
(***************************************************************************)
EXTENDS ProjectLoader, FiniteSetTheorems, SequenceTheorems, TLAPS

(* The inductive invariant. *)

Origin == {"root", "types", "package", "graph", "reference"}

LoadedSource == [file : File, text : File, by : Origin]

Request == [importer : File, use : Use]

Text == File \cup {None}

ListTyped == sources \in Seq(LoadedSource) /\ before \in Nat /\ loading \in Seq(File)

AtTyped == at \in [source : Nat, use : Nat, end : Nat]

QueueTyped ==
    scanned \in Nat /\ requests \in Seq(Request) /\ queued \subseteq File \X Name \X Usage

GraphTyped == graph \in [known : SUBSET File, next : Nat, synced : Nat, added : Nat]

WaveTyped == wave \in [end : Nat, use : Nat, found : Seq(File), pushed : Nat]

ReadsTyped == reads \in [claimed : Nat, out : [Readers -> Seq(Nat \X Text)], joined : Nat,
                         results : Seq(Nat \X Text), texts : Seq(Text)]

ReferencesTyped == referenced \subseteq File /\ pending \subseteq Nat

Typed ==
    /\ world \in Worlds
    /\ ListTyped /\ AtTyped /\ QueueTyped /\ GraphTyped /\ WaveTyped /\ ReadsTyped
    /\ ReferencesTyped

\* The parts of prepare in which the import graph runs, and those after it.
InGraph == pc \in {"graph", "scan", "read", "push"}

PcInv == pc \in {"roots", "failed", "types", "round", "packages", "references", "done"} \/ InGraph

\* The cursors are within the list.
BoundsInv ==
    /\ before <= Len(sources) /\ scanned <= Len(sources)
    /\ graph.next <= Len(sources) /\ graph.synced <= Len(sources)
    /\ pending \subseteq DOMAIN sources

\* What the package scanner passes over has no specifiers.
PackageCursorInv ==
    /\ pc = "packages" =>
        /\ scanned <= at.source /\ at.source <= at.end /\ at.end <= Len(sources)
        /\ at.source = at.end => at.use = 0
        /\ \A i \in (at.end + 1)..Len(sources) : UsesOf(sources[i]) = <<>>
    /\ pc # "packages" => requests = <<>>

WaveCursorInv ==
    /\ pc = "scan" => /\ graph.next <= wave.end /\ wave.end <= Len(sources)
                      /\ graph.next = wave.end => wave.use = 0
    /\ pc \in {"scan", "read"} => wave.pushed = 0
    /\ pc = "push" => wave.pushed <= Len(wave.found)
    /\ pc # "scan" => wave.use = 0
    /\ pc \notin {"scan", "read", "push"} => wave = NoWave

\* Each scanner starts where the round's list began or after it.
RoundInv ==
    /\ InGraph \/ pc = "references" => before <= scanned
    /\ pc = "references" => scanned <= graph.next
    /\ loading # <<>> => pc \in {"types", "references"}
    /\ pc = "done" => scanned = Len(sources)

RootsInv ==
    /\ pc \in {"roots", "failed"} => sources = <<>>
    /\ pc \notin {"roots", "failed"} => ToSet(world.roots) \subseteq Files(sources)

CursorInv ==
    PcInv /\ BoundsInv /\ PackageCursorInv /\ WaveCursorInv /\ RoundInv /\ RootsInv

\* The files found and not yet pushed.
Unpushable == {wave.found[k] : k \in (wave.pushed + 1)..Len(wave.found)}

\* What the import graph knows: what the scanners have loaded, as far as it was
\* told, and what it found itself.
KnownInv ==
    /\ \A i \in 1..graph.synced : sources[i].file \in graph.known
    /\ InGraph => Files(sources) \subseteq graph.known
    /\ graph.known \cap world.readable \subseteq Files(sources) \cup Unpushable
    /\ Unpushable \subseteq graph.known \ Files(sources)
    /\ \A k, l \in (wave.pushed + 1)..Len(wave.found) :
        wave.found[k] = wave.found[l] => k = l

\* A result is of its index, and the results of all readers together have each
\* claimed index once.
OutInv ==
    /\ \A r \in Readers : \A a \in DOMAIN reads.out[r] :
        /\ reads.out[r][a][1] \in 1..reads.claimed
        /\ reads.out[r][a][2] = TextOf(wave.found[reads.out[r][a][1]])
    /\ \A i \in 1..reads.claimed :
        \E r \in Readers : \E a \in DOMAIN reads.out[r] : reads.out[r][a][1] = i
    /\ \A r, s \in Readers : \A a \in DOMAIN reads.out[r], b \in DOMAIN reads.out[s] :
        reads.out[r][a][1] = reads.out[s][b][1] => r = s /\ a = b

\* What the readers joined so far read is in the results, once.
JoinInv ==
    /\ \A x, y \in DOMAIN reads.results : reads.results[x][1] = reads.results[y][1] => x = y
    /\ \A x \in DOMAIN reads.results : \E r \in 1..reads.joined :
        \E a \in DOMAIN reads.out[r] : reads.results[x] = reads.out[r][a]
    /\ \A r \in 1..reads.joined : \A a \in DOMAIN reads.out[r] :
        \E x \in DOMAIN reads.results : reads.results[x] = reads.out[r][a]

\* The readers of a wave read each claimed file once, and the texts are those of
\* the files found.
ReadInv ==
    /\ pc \notin {"read", "push"} => reads = NoReads
    /\ pc = "read" =>
        /\ reads.claimed <= Len(wave.found) /\ reads.joined <= NumReaders
        /\ reads.joined > 0 => reads.claimed = Len(wave.found)
        /\ OutInv /\ JoinInv
    /\ pc = "push" =>
        /\ Len(reads.texts) = Len(wave.found)
        /\ \A i \in 1..Len(wave.found) : reads.texts[i] = TextOf(wave.found[i])

\* What is about to be loaded is named by the configuration or by a source.
NamedInv ==
    /\ \A f \in ToSet(loading) : IF pc = "types" THEN f \in ToSet(world.types)
                                 ELSE \E g \in Files(sources) : f \in ToSet(world.refs[g])
    /\ \A f \in Unpushable : \E g \in Files(sources) :
        \E u \in ToSet(world.uses[g]) : u.local = f
    /\ \A a \in DOMAIN requests :
        /\ requests[a].importer \in Files(sources)
        /\ requests[a].use \in ToSet(world.uses[requests[a].importer])

BaseInv == Typed /\ LoadedOnce /\ OwnText /\ CursorInv /\ KnownInv /\ ReadInv /\ NamedInv

-----------------------------------------------------------------------------
(* Places. *)

IsFirst(p, S) == p \in S /\ \A q \in S : q = p \/ Earlier(p, q)

\* The places whose specifiers the package scanner has queued.
Collected(p) == IF pc = "packages" THEN p[1] <= at.source \/ (p[1] = at.source + 1 /\ p[2] <= at.use)
                ELSE p[1] <= scanned

\* The places that the import graph has looked at.
Seen(p) == p[1] <= graph.next \/ (p[1] = graph.next + 1 /\ p[2] <= wave.use)

KeyOf(p) == <<sources[p[1]].file, UseAt(p).name, UseAt(p).usage>>

PlacesOf(r) == {p \in Places : sources[p[1]].file = r.importer /\ UseAt(p) = r.use}

\* A specifier that needs no further request: its file is loaded and its
\* resolution is in the fallback.
Handled(u) ==
    /\ u.kind \in {"declaration", "json"} /\ u.package \in world.readable
            => u.package \in Files(sources)
    /\ u.package # None /\ u.usage \notin Overrides => u.name \in DOMAIN resolved

Requested(p) == \E a \in DOMAIN requests : p \in PlacesOf(requests[a])

\* Every specifier that the scanners have passed is taken care of.
DoneInv ==
    /\ \A f \in ToSet(world.types) \cap world.readable :
        pc \in {"roots", "failed"} \/ f \in Files(sources) \/ (pc = "types" /\ f \in ToSet(loading))
    /\ \A f \in referenced : \A g \in ToSet(world.refs[f]) \cap world.readable :
        g \in Files(sources) \/ (pc = "references" /\ g \in ToSet(loading))
    /\ \A p \in Places : Seen(p) /\ UseAt(p).local # None => UseAt(p).local \in graph.known
    /\ \A p \in Places : Collected(p) /\ UseAt(p).kind # "none"
                            => Requested(p) \/ Handled(UseAt(p))

\* The keys of a round are those of the places it has queued.
QueueInv ==
    pc = "packages" =>
        /\ \A p \in Places : Collected(p) /\ p[1] > scanned /\ UseAt(p).kind # "none"
                                => KeyOf(p) \in queued
        /\ \A key \in queued : \E p \in Places :
            Collected(p) /\ UseAt(p).kind # "none" /\ KeyOf(p) = key

\* The requests are in the order of their places.
RequestInv ==
    /\ \A a \in DOMAIN requests : \E p \in Places :
        IsFirst(p, PlacesOf(requests[a])) /\ Collected(p)
    /\ \A a, b \in DOMAIN requests : \A p, q \in Places :
        a < b /\ IsFirst(p, PlacesOf(requests[a])) /\ q \in PlacesOf(requests[b])
            => Earlier(p, q)

\* The fallback of a specifier is its first resolution.
FallbackInv ==
    /\ DOMAIN resolved \subseteq Name
    /\ \A n \in DOMAIN resolved : \E p \in Places :
        IsFirst(p, Resolutions(n)) /\ resolved[n] = UseAt(p).package

\* f was found before g was.
FoundBefore(f, g) ==
    \E p, q \in Places : IsFirst(p, Mentions(f)) /\ IsFirst(q, Mentions(g)) /\ Earlier(p, q)

FoundAndSeen(f) == \E p \in Places : IsFirst(p, Mentions(f)) /\ Seen(p)

OrderInv ==
    /\ \A i \in DOMAIN sources : sources[i].by = "graph" => FoundAndSeen(sources[i].file)
    /\ \A f \in Unpushable : FoundAndSeen(f)
    /\ \A i, j \in DOMAIN sources :
        i < j /\ sources[i].by = "graph" /\ sources[j].by = "graph"
            => FoundBefore(sources[i].file, sources[j].file)
    /\ \A i \in DOMAIN sources : \A f \in Unpushable :
        sources[i].by = "graph" => FoundBefore(sources[i].file, f)
    /\ \A k, l \in (wave.pushed + 1)..Len(wave.found) :
        k < l => FoundBefore(wave.found[k], wave.found[l])

-----------------------------------------------------------------------------
(* Sequences, records and file systems. *)

LEMMA AppendOne ==
    ASSUME NEW S, NEW s \in Seq(S), NEW x \in S
    PROVE  /\ Append(s, x) \in Seq(S)
           /\ Len(Append(s, x)) = Len(s) + 1
           /\ DOMAIN Append(s, x) = 1..(Len(s) + 1)
           /\ \A i \in 1..Len(s) : Append(s, x)[i] = s[i]
           /\ Append(s, x)[Len(s) + 1] = x
BY AppendProperties, LenProperties

LEMMA HeadAndTail ==
    ASSUME NEW S, NEW s \in Seq(S), s # <<>>
    PROVE  /\ Head(s) \in S /\ Head(s) = s[1] /\ Len(s) > 0
           /\ Tail(s) \in Seq(S)
           /\ Len(Tail(s)) = Len(s) - 1
           /\ DOMAIN Tail(s) = 1..(Len(s) - 1)
           /\ \A i \in 1..(Len(s) - 1) : Tail(s)[i] = s[i + 1]
BY HeadTailProperties, LenProperties, EmptySeq

\* The elements of a sequence are its head and those of its tail.
LEMMA ToSetOfTail ==
    ASSUME NEW S, NEW s \in Seq(S), s # <<>>
    PROVE  ToSet(s) = {Head(s)} \cup ToSet(Tail(s))
<1>1. \A i \in DOMAIN s : i = 1 \/ (i - 1 \in DOMAIN Tail(s) /\ Tail(s)[i - 1] = s[i])
  BY HeadAndTail, LenProperties
<1>2. \A i \in DOMAIN Tail(s) : i + 1 \in DOMAIN s /\ Tail(s)[i] = s[i + 1]
  BY HeadAndTail, LenProperties
<1>3. 1 \in DOMAIN s /\ s[1] = Head(s)
  BY HeadAndTail, LenProperties
<1>4. ASSUME NEW i \in DOMAIN s
      PROVE  s[i] \in {Head(s)} \cup ToSet(Tail(s))
  BY <1>1, <1>3 DEF ToSet
<1>5. ASSUME NEW i \in DOMAIN Tail(s)
      PROVE  Tail(s)[i] \in ToSet(s)
  BY <1>2 DEF ToSet
<1>6. Head(s) \in ToSet(s)
  BY <1>3 DEF ToSet
<1>7. QED BY <1>4, <1>5, <1>6 DEF ToSet

\* What IsWorld says of the file system that is loaded.
LEMMA WorldFacts ==
    ASSUME world \in Worlds
    PROVE  /\ world.roots \in Seq(File) /\ world.types \in Seq(File)
           /\ world.readable \subseteq File
           /\ \A f \in File : world.uses[f] \in Seq(Use) /\ world.refs[f] \in Seq(File)
           /\ world.roots # <<>>
           /\ \A i, j \in DOMAIN world.roots : world.roots[i] = world.roots[j] => i = j
           /\ \A f \in File : UseDetermined(world.uses[f])
           /\ \A f \in File : \A u \in ToSet(world.uses[f]) :
                /\ (u.package = None) <=> (u.kind \in {"none", "missing"})
                /\ u.kind = "json" => world.uses[u.package] = <<>>
<1>1. IsWorld(world)
  BY ProjectLoaderAssumption
<1>2. IsInjective(world.roots)
  BY <1>1 DEF IsWorld
<1>3. QED BY <1>1, <1>2 DEF IsWorld, World, IsInjective

-----------------------------------------------------------------------------
(* Types. *)

\* The specifiers of a source.
LEMMA UsesFacts ==
    ASSUME Typed, NEW i \in DOMAIN sources
    PROVE  /\ sources[i] \in LoadedSource /\ sources[i].file \in File /\ sources[i].text \in File
           /\ UsesOf(sources[i]) \in Seq(Use)
           /\ Len(UsesOf(sources[i])) \in Nat
           /\ DOMAIN UsesOf(sources[i]) = 1..Len(UsesOf(sources[i]))
           /\ \A k \in 1..Len(UsesOf(sources[i])) : UsesOf(sources[i])[k] \in Use
<1>1. sources[i] \in LoadedSource
  BY ElementOfSeq, LenProperties DEF Typed, ListTyped
<1>2. UsesOf(sources[i]) \in Seq(Use)
  BY <1>1, WorldFacts DEF Typed, LoadedSource, UsesOf
<1>3. QED BY <1>1, <1>2, ElementOfSeq, LenProperties DEF LoadedSource

\* The fields of the records, one by one.
LEMMA FieldTypes ==
    ASSUME Typed
    PROVE  /\ at.source \in Nat /\ at.use \in Nat /\ at.end \in Nat
           /\ scanned \in Nat /\ before \in Nat
           /\ graph.next \in Nat /\ graph.synced \in Nat /\ graph.added \in Nat
           /\ graph.known \subseteq File
           /\ wave.end \in Nat /\ wave.use \in Nat /\ wave.pushed \in Nat
           /\ wave.found \in Seq(File) /\ Len(wave.found) \in Nat
           /\ DOMAIN wave.found = 1..Len(wave.found)
           /\ \A k \in 1..Len(wave.found) : wave.found[k] \in File
           /\ Len(sources) \in Nat /\ DOMAIN sources = 1..Len(sources)
<1>1. wave.found \in Seq(File) /\ sources \in Seq(LoadedSource)
  BY DEF Typed, WaveTyped, ListTyped
<1>2. QED
  BY <1>1, LenProperties, ElementOfSeq
     DEF Typed, AtTyped, QueueTyped, ListTyped, GraphTyped, WaveTyped

LEMMA ReadFieldTypes ==
    ASSUME Typed
    PROVE  /\ reads.claimed \in Nat /\ reads.joined \in Nat
           /\ \A r \in Readers : reads.out[r] \in Seq(Nat \X Text)
           /\ reads.results \in Seq(Nat \X Text) /\ reads.texts \in Seq(Text)
BY DEF Typed, ReadsTyped

LEMMA TypedInit == Init => Typed
<1> SUFFICES ASSUME Init PROVE Typed
  OBVIOUS
<1>1. NoReads \in [claimed : Nat, out : [Readers -> Seq(Nat \X Text)], joined : Nat,
                   results : Seq(Nat \X Text), texts : Seq(Text)]
  BY EmptySeq DEF NoReads
<1>2. ReadsTyped
  BY <1>1 DEF Init, ReadsTyped
<1>3. WaveTyped
  BY EmptySeq DEF Init, WaveTyped, NoWave
<1>4. ListTyped /\ QueueTyped
  BY EmptySeq DEF Init, ListTyped, QueueTyped
<1>5. AtTyped /\ GraphTyped /\ ReferencesTyped
  BY DEF Init, AtTyped, GraphTyped, ReferencesTyped
<1>6. QED BY <1>2, <1>3, <1>4, <1>5 DEF Init, Typed

\* What a step leaves alone keeps its type.
LEMMA TypedFrame ==
    ASSUME Typed
    PROVE  /\ UNCHANGED <<sources, before, loading>> => ListTyped'
           /\ UNCHANGED at => AtTyped'
           /\ UNCHANGED <<scanned, requests, queued>> => QueueTyped'
           /\ UNCHANGED graph => GraphTyped'
           /\ UNCHANGED wave => WaveTyped'
           /\ UNCHANGED reads => ReadsTyped'
           /\ UNCHANGED <<referenced, pending>> => ReferencesTyped'
<1>1. UNCHANGED <<sources, before, loading>> => ListTyped'
  BY DEF Typed, ListTyped
<1>2. UNCHANGED at => AtTyped'
  BY DEF Typed, AtTyped
<1>3. UNCHANGED <<scanned, requests, queued>> => QueueTyped'
  BY DEF Typed, QueueTyped
<1>4. UNCHANGED graph => GraphTyped'
  BY DEF Typed, GraphTyped
<1>5. UNCHANGED wave => WaveTyped'
  BY DEF Typed, WaveTyped
<1>6. UNCHANGED reads => ReadsTyped'
  BY DEF Typed, ReadsTyped
<1>7. UNCHANGED <<referenced, pending>> => ReferencesTyped'
  BY DEF Typed, ReferencesTyped
<1>8. QED BY <1>1, <1>2, <1>3, <1>4, <1>5, <1>6, <1>7

\* A file is loaded, or it is not.
LEMMA LoadNextTyped ==
    ASSUME Typed, NEW by \in Origin, LoadNext(by)
    PROVE  Typed'
<1> DEFINE f == Head(loading)
<1>1. f \in File /\ Tail(loading) \in Seq(File)
  BY HeadAndTail DEF Typed, ListTyped, LoadNext
<1>2. Source(f, f, by) \in LoadedSource
  BY <1>1 DEF Source, LoadedSource
<1>3. sources' \in Seq(LoadedSource)
  BY <1>2, AppendOne DEF Typed, ListTyped, LoadNext
<1>4. ListTyped'
  BY <1>1, <1>3 DEF ListTyped, LoadNext, Typed
<1>5. QED
  BY <1>4, TypedFrame DEF Typed, LoadNext, packages, expansion, references, answers

\* The cursors of the two scanners are at a source and a specifier.
LEMMA ExtractedPlace ==
    ASSUME Typed, CursorInv, QueueUse
    PROVE  /\ at.source + 1 \in DOMAIN sources /\ at.use + 1 \in 1..Len(ExtractedUses)
           /\ sources[at.source + 1].file \in File /\ ExtractedUses[at.use + 1] \in Use
<1>1. pc = "packages" /\ at.source < at.end /\ at.use < Len(ExtractedUses)
  BY DEF QueueUse, Extracting
<1>2. at.end <= Len(sources)
  BY <1>1 DEF CursorInv, PackageCursorInv
<1>t. at.source \in Nat /\ at.end \in Nat /\ at.use \in Nat /\ Len(sources) \in Nat
      /\ DOMAIN sources = 1..Len(sources)
  BY FieldTypes
<1>3. at.source + 1 \in DOMAIN sources
  BY <1>1, <1>2, <1>t
<1>4. Len(ExtractedUses) \in Nat
  BY <1>3, UsesFacts DEF ExtractedUses
<1>5. at.use + 1 \in 1..Len(ExtractedUses)
  BY <1>1, <1>4, <1>t
<1>6. QED BY <1>3, <1>5, UsesFacts DEF ExtractedUses

LEMMA ScannedPlace ==
    ASSUME Typed, CursorInv, ScanUse
    PROVE  /\ graph.next + 1 \in DOMAIN sources /\ wave.use + 1 \in 1..Len(ScannedUses)
           /\ ScannedUses[wave.use + 1] \in Use
<1>1. pc = "scan" /\ graph.next < wave.end /\ wave.use < Len(ScannedUses)
  BY DEF ScanUse, Scanning
<1>2. wave.end <= Len(sources)
  BY <1>1 DEF CursorInv, WaveCursorInv
<1>t. graph.next \in Nat /\ wave.end \in Nat /\ wave.use \in Nat /\ Len(sources) \in Nat
      /\ DOMAIN sources = 1..Len(sources)
  BY FieldTypes
<1>3. graph.next + 1 \in DOMAIN sources
  BY <1>1, <1>2, <1>t
<1>4. Len(ScannedUses) \in Nat
  BY <1>3, UsesFacts DEF ScannedUses
<1>5. wave.use + 1 \in 1..Len(ScannedUses)
  BY <1>1, <1>4, <1>t
<1>6. QED BY <1>3, <1>5, UsesFacts DEF ScannedUses

LEMMA ReadRootsTyped ==
    ASSUME Typed, ReadRoots
    PROVE  Typed'
<1> USE DEF list, packages, expansion, references, answers
<1>1. CASE ToSet(world.roots) \subseteq world.readable
  <2>1. world.roots \in Seq(File) /\ world.types \in Seq(File)
    BY WorldFacts DEF Typed
  <2>2. DOMAIN world.roots = 1..Len(world.roots) /\ Len(world.roots) \in Nat
    BY <2>1, LenProperties
  <2>3. \A i \in 1..Len(world.roots) : world.roots[i] \in File
    BY <2>1, ElementOfSeq
  <2>4. \A i \in 1..Len(world.roots) :
          Source(world.roots[i], world.roots[i], "root") \in LoadedSource
    BY <2>3 DEF Source, LoadedSource, Origin
  <2>5. sources' = [i \in 1..Len(world.roots) |-> Source(world.roots[i], world.roots[i], "root")]
    BY <1>1, <2>2 DEF ReadRoots
  <2>6. sources' \in Seq(LoadedSource)
    BY <2>2, <2>4, <2>5, IsASeq
  <2>7. loading' = world.types /\ before' = before
    BY <1>1 DEF ReadRoots
  <2>8. ListTyped'
    BY <2>1, <2>6, <2>7 DEF Typed, ListTyped
  <2>9. QED BY <2>8, TypedFrame DEF ReadRoots, Typed
<1>2. CASE ~ (ToSet(world.roots) \subseteq world.readable)
  BY <1>2, TypedFrame DEF ReadRoots, Typed
<1>3. QED BY <1>1, <1>2

LEMMA PackagesTyped ==
    ASSUME Typed, CursorInv, BeginRound \/ QueueUse \/ EndSource \/ ResolvePackage \/ EndPackages
    PROVE  Typed'
<1> USE DEF list, packages, expansion, references, answers
<1>1. CASE BeginRound
  <2>1. before' \in Nat /\ sources' = sources /\ loading' = loading
    BY <1>1, FieldTypes DEF BeginRound
  <2>2. ListTyped'
    BY <2>1 DEF Typed, ListTyped
  <2>3. AtTyped'
    BY <1>1, FieldTypes DEF BeginRound, AtTyped
  <2>4. QueueTyped'
    BY <1>1, EmptySeq DEF BeginRound, Typed, QueueTyped
  <2>5. QED BY <1>1, <2>2, <2>3, <2>4, TypedFrame DEF BeginRound, Typed
<1>2. CASE QueueUse
  <2> DEFINE u == ExtractedUses[at.use + 1]
             f == sources[at.source + 1].file
  <2>3. u \in Use /\ f \in File
    BY <1>2, ExtractedPlace
  <2>4. [importer |-> f, use |-> u] \in Request /\ <<f, u.name, u.usage>> \in File \X Name \X Usage
    BY <2>3 DEF Request, Use, Usage
  <2>5. QueueTyped'
    <3>1. \/ UNCHANGED <<requests, queued>>
          \/ /\ requests' = Append(requests, [importer |-> f, use |-> u])
             /\ queued' = queued \cup {<<f, u.name, u.usage>>}
      BY <1>2 DEF QueueUse
    <3>2. scanned' = scanned
      BY <1>2 DEF QueueUse
    <3> HIDE DEF f, u
    <3>3. Append(requests, [importer |-> f, use |-> u]) \in Seq(Request)
      BY <2>4, AppendOne DEF Typed, QueueTyped
    <3>4. QED BY <2>4, <3>1, <3>2, <3>3 DEF Typed, QueueTyped
  <2>6. AtTyped'
    BY <1>2 DEF QueueUse, Typed, AtTyped
  <2>7. QED BY <1>2, <2>5, <2>6, TypedFrame DEF QueueUse, Typed
<1>3. CASE EndSource
  <2>1. AtTyped'
    <3> DEFINE x == at.source + 1
    <3>1. at' = [at EXCEPT !.source = x, !.use = 0] /\ x \in Nat
      BY <1>3, FieldTypes DEF EndSource
    <3> HIDE DEF x
    <3>2. QED BY <3>1 DEF Typed, AtTyped
  <2>2. QED BY <1>3, <2>1, TypedFrame DEF EndSource, Typed
<1>4. CASE ResolvePackage
  <2> DEFINE u == Head(requests).use
  <2>1. Tail(requests) \in Seq(Request)
    BY <1>4, HeadAndTail DEF ResolvePackage, Typed, QueueTyped
  <2>2. Loads(u) => u.package \in File
    BY WorldFacts DEF Loads, Typed
  <2>3. Loads(u) => Source(u.package, u.package, "package") \in LoadedSource
    BY <2>2 DEF Source, LoadedSource, Origin
  <2>4. ListTyped'
    BY <1>4, <2>3, AppendOne DEF ResolvePackage, Typed, ListTyped
  <2>5. AtTyped'
    BY <1>4, FieldTypes DEF ResolvePackage, Typed, AtTyped
  <2>6. QueueTyped'
    BY <1>4, <2>1 DEF ResolvePackage, Typed, QueueTyped
  <2>7. QED BY <1>4, <2>4, <2>5, <2>6, TypedFrame DEF ResolvePackage, Typed
<1>5. CASE EndPackages
  <2>1. \A i \in (graph.synced + 1)..Len(sources) : i \in DOMAIN sources
    BY FieldTypes
  <2>2. \A i \in (graph.synced + 1)..Len(sources) : sources[i].file \in File
    BY <2>1, UsesFacts
  <2>3. GraphTyped'
    <3> DEFINE K == graph.known \cup {sources[i].file : i \in (graph.synced + 1)..Len(sources)}
    <3>1. graph' = [graph EXCEPT !.added = 0, !.known = K]
      BY <1>5 DEF EndPackages, Synced
    <3>2. K \in SUBSET File
      BY <2>2, FieldTypes
    <3> HIDE DEF K
    <3>3. QED BY <3>1, <3>2 DEF Typed, GraphTyped
  <2>4. QueueTyped'
    BY <1>5, FieldTypes DEF EndPackages, Typed, QueueTyped
  <2>5. QED BY <1>5, <2>3, <2>4, TypedFrame DEF EndPackages, Typed
<1>6. QED BY <1>1, <1>2, <1>3, <1>4, <1>5

LEMMA ScanTyped ==
    ASSUME Typed, CursorInv,
           OpenWave \/ ScanUse \/ NextSource \/ EndScan \/ EndWave \/ EndGraph
    PROVE  Typed'
<1> USE DEF list, packages, expansion, references, answers
<1>w. NoWave \in [end : Nat, use : Nat, found : Seq(File), pushed : Nat]
  BY EmptySeq DEF NoWave
<1>1. CASE OpenWave
  <2>1. WaveTyped'
    BY <1>1, <1>w, FieldTypes DEF OpenWave, WaveTyped
  <2>2. QED BY <1>1, <2>1, TypedFrame DEF OpenWave, Typed
<1>2. CASE ScanUse
  <2> DEFINE u == ScannedUses[wave.use + 1]
             new == u.local # None /\ u.local \notin graph.known
  <2>3. u \in Use
    BY <1>2, ScannedPlace
  <2>4. new => u.local \in File
    BY <2>3 DEF Use
  <2>5. wave' = [wave EXCEPT !.use = @ + 1, !.found = IF new THEN Append(@, u.local) ELSE @]
        /\ graph' = [graph EXCEPT !.known = IF new THEN @ \cup {u.local} ELSE @]
    BY <1>2 DEF ScanUse
  <2> HIDE DEF u, new
  <2>6. new => Append(wave.found, u.local) \in Seq(File)
    BY <2>4, AppendOne, FieldTypes
  <2>7. WaveTyped'
    <3> DEFINE x == wave.use + 1
               F == IF new THEN Append(wave.found, u.local) ELSE wave.found
    <3>1. wave' = [wave EXCEPT !.use = x, !.found = F]
      BY <2>5
    <3>2. x \in Nat /\ F \in Seq(File)
      BY <2>6, FieldTypes
    <3> HIDE DEF x, F
    <3>3. QED BY <3>1, <3>2 DEF Typed, WaveTyped
  <2>8. GraphTyped'
    BY <2>4, <2>5 DEF Typed, GraphTyped
  <2>9. QED BY <1>2, <2>7, <2>8, TypedFrame DEF ScanUse, Typed
<1>3. CASE NextSource
  <2>1. GraphTyped' /\ WaveTyped'
    <3> DEFINE x == graph.next + 1
    <3>1. graph' = [graph EXCEPT !.next = x] /\ wave' = [wave EXCEPT !.use = 0]
      BY <1>3 DEF NextSource
    <3>2. x \in Nat
      BY FieldTypes
    <3> HIDE DEF x
    <3>3. QED BY <3>1, <3>2 DEF Typed, GraphTyped, WaveTyped
  <2>2. QED BY <1>3, <2>1, TypedFrame DEF NextSource, Typed
<1>4. CASE EndScan
  BY <1>4, TypedFrame DEF EndScan, Typed
<1>5. CASE EndWave
  <2>1. NoReads \in [claimed : Nat, out : [Readers -> Seq(Nat \X Text)], joined : Nat,
                     results : Seq(Nat \X Text), texts : Seq(Text)]
    BY EmptySeq DEF NoReads
  <2>2. ReadsTyped' /\ WaveTyped'
    BY <1>5, <1>w, <2>1 DEF EndWave, ReadsTyped, WaveTyped
  <2>3. QED BY <1>5, <2>2, TypedFrame DEF EndWave, Typed
<1>6. CASE EndGraph
  <2>1. GraphTyped'
    BY <1>6, FieldTypes DEF EndGraph, Typed, GraphTyped
  <2>2. QED BY <1>6, <2>1, TypedFrame DEF EndGraph, Typed
<1>7. QED BY <1>1, <1>2, <1>3, <1>4, <1>5, <1>6

LEMMA ReadTyped ==
    ASSUME Typed, CursorInv, ReadInv,
           (\E r \in Readers : ReadOne(r)) \/ JoinReader \/ ReadAll \/ PushNext
    PROVE  Typed'
<1> USE DEF list, packages, expansion, references, answers
<1>1. ASSUME NEW r \in Readers, ReadOne(r) PROVE Typed'
  <2> DEFINE i == reads.claimed + 1
             x == <<i, TextOf(wave.found[i])>>
             out == [reads.out EXCEPT ![r] = Append(@, x)]
  <2>1. i \in Nat /\ i \in 1..Len(wave.found)
    <3>1. reads.claimed < Len(wave.found)
      BY <1>1 DEF ReadOne
    <3>2. reads.claimed \in Nat /\ Len(wave.found) \in Nat
      BY FieldTypes, ReadFieldTypes
    <3>3. QED BY <3>1, <3>2
  <2>2. x \in Nat \X Text
    BY <2>1, FieldTypes DEF TextOf, Text
  <2>3. reads' = [reads EXCEPT !.claimed = i, !.out = out]
    BY <1>1 DEF ReadOne
  <2> HIDE DEF x
  <2>4. Append(reads.out[r], x) \in Seq(Nat \X Text)
    BY <1>1, <2>2, AppendOne, ReadFieldTypes
  <2>5. out \in [Readers -> Seq(Nat \X Text)]
    BY <2>4 DEF Typed, ReadsTyped
  <2> HIDE DEF i, out
  <2>6. ReadsTyped'
    BY <2>1, <2>3, <2>5 DEF Typed, ReadsTyped
  <2>7. QED BY <1>1, <2>6, TypedFrame DEF ReadOne, Typed
<1>2. CASE JoinReader
  <2> DEFINE r == reads.joined + 1
             res == reads.results \o reads.out[r]
  <2>1. r \in Readers /\ r \in Nat
    BY <1>2, ProjectLoaderAssumption, ReadFieldTypes DEF JoinReader, Readers
  <2>2. res \in Seq(Nat \X Text)
    BY <2>1, ReadFieldTypes, ConcatProperties
  <2>3. reads' = [reads EXCEPT !.joined = r, !.results = res]
    BY <1>2 DEF JoinReader
  <2> HIDE DEF r, res
  <2>4. ReadsTyped'
    BY <2>1, <2>2, <2>3 DEF Typed, ReadsTyped
  <2>5. QED BY <1>2, <2>4, TypedFrame DEF JoinReader, Typed
<1>3. CASE ReadAll
  <2> DEFINE texts == [i \in DOMAIN wave.found |-> TextOf(wave.found[i])]
  <2>1. texts = [i \in 1..Len(wave.found) |-> TextOf(wave.found[i])]
    BY FieldTypes
  <2>2. \A i \in 1..Len(wave.found) : TextOf(wave.found[i]) \in Text
    BY FieldTypes DEF TextOf, Text
  <2>3. texts \in Seq(Text)
    <3>1. texts \in [1..Len(wave.found) -> Text]
      BY <2>1, <2>2
    <3>2. Len(wave.found) \in Nat
      BY FieldTypes
    <3>3. QED BY <3>1, <3>2, SeqDef
  <2>4. reads' = [reads EXCEPT !.texts = texts]
    BY <1>3 DEF ReadAll
  <2> HIDE DEF texts
  <2>5. ReadsTyped'
    BY <2>3, <2>4 DEF Typed, ReadsTyped
  <2>6. QED BY <1>3, <2>5, TypedFrame DEF ReadAll, Typed
<1>4. CASE PushNext
  <2> DEFINE f == wave.found[Unpushed]
             text == reads.texts[Unpushed]
  <2>1. Unpushed \in 1..Len(wave.found) /\ f \in File
    <3>1. wave.pushed < Len(wave.found)
      BY <1>4 DEF PushNext
    <3>2. /\ wave.pushed \in Nat /\ Len(wave.found) \in Nat
          /\ \A k \in 1..Len(wave.found) : wave.found[k] \in File
      BY FieldTypes
    <3>3. QED BY <3>1, <3>2 DEF Unpushed
  <2>2. Len(reads.texts) = Len(wave.found)
    BY <1>4 DEF PushNext, ReadInv
  <2>3. text \in Text
    BY <2>1, <2>2, ElementOfSeq, ReadFieldTypes
  <2>4. text # None => Source(f, text, "graph") \in LoadedSource
    BY <2>1, <2>3 DEF Source, LoadedSource, Origin, Text
  <2>5. ListTyped'
    <3>1. \/ sources' = sources
          \/ text # None /\ sources' = Append(sources, Source(f, text, "graph"))
      BY <1>4 DEF PushNext
    <3>2. before' = before /\ loading' = loading
      BY <1>4 DEF PushNext
    <3> HIDE DEF f, text
    <3>3. QED BY <2>4, <3>1, <3>2, AppendOne DEF Typed, ListTyped
  <2>6. GraphTyped'
    <3> DEFINE x == graph.added + 1
    <3>1. UNCHANGED graph \/ graph' = [graph EXCEPT !.added = x]
      BY <1>4 DEF PushNext
    <3>2. x \in Nat
      BY FieldTypes
    <3> HIDE DEF x
    <3>3. QED BY <3>1, <3>2 DEF Typed, GraphTyped
  <2>7. WaveTyped'
    <3> DEFINE x == wave.pushed + 1
    <3>1. wave' = [wave EXCEPT !.pushed = x]
      BY <1>4 DEF PushNext
    <3>2. x \in Nat
      BY FieldTypes
    <3> HIDE DEF x
    <3>3. QED BY <3>1, <3>2 DEF Typed, WaveTyped
  <2>8. QED BY <1>4, <2>5, <2>6, <2>7, TypedFrame DEF PushNext, Typed
<1>5. QED BY <1>1, <1>2, <1>3, <1>4

LEMMA ReferencesKeepTypes ==
    ASSUME Typed, CollectPending \/ ScanReferences \/ EndRound \/ EndTypePackages
    PROVE  Typed'
<1> USE DEF list, packages, expansion, references, answers
<1>1. CASE CollectPending
  <2>1. ReferencesTyped'
    <3>1. pending' = Unscanned /\ referenced' = referenced
      BY <1>1 DEF CollectPending
    <3>2. Unscanned \subseteq Nat
      BY FieldTypes DEF Unscanned
    <3>3. QED BY <3>1, <3>2 DEF Typed, ReferencesTyped
  <2>2. QED BY <1>1, <2>1, TypedFrame DEF CollectPending, Typed
<1>2. CASE ScanReferences
  <2>1. PICK i \in DOMAIN sources : /\ referenced' = referenced \cup {sources[i].file}
                                    /\ loading' = world.refs[sources[i].text]
                                    /\ pending' = pending \ {i}
    BY <1>2 DEF ScanReferences
  <2>2. sources[i].file \in File /\ sources[i].text \in File
    BY UsesFacts
  <2>3. loading' \in Seq(File)
    BY <2>1, <2>2, WorldFacts DEF Typed
  <2>4. ReferencesTyped'
    BY <2>1, <2>2 DEF Typed, ReferencesTyped
  <2>5. ListTyped'
    BY <1>2, <2>3 DEF Typed, ListTyped, ScanReferences
  <2>6. QED BY <1>2, <2>4, <2>5, TypedFrame DEF ScanReferences, Typed
<1>3. CASE EndRound
  BY <1>3, TypedFrame DEF EndRound, Typed
<1>4. CASE EndTypePackages
  BY <1>4, TypedFrame DEF EndTypePackages, Typed
<1>5. QED BY <1>1, <1>2, <1>3, <1>4

-----------------------------------------------------------------------------
(* Sorting the results of the readers. *)

LEMMA IntervalSize ==
    ASSUME NEW n \in Nat
    PROVE  IsFiniteSet(1..n) /\ Cardinality(1..n) = n
BY FS_Interval

UpTo(D, index, m) == {a \in D : index[a] <= m}

\* Results with distinct indices up to n: m of them have an index up to m.
LEMMA CountUpTo ==
    ASSUME NEW n \in Nat, NEW D, NEW index \in [D -> 1..n],
           \A a, b \in D : index[a] = index[b] => a = b,
           \A i \in 1..n : \E a \in D : index[a] = i,
           NEW m \in 0..n
    PROVE  Cardinality(UpTo(D, index, m)) = m
<1> DEFINE S == {a \in D : index[a] <= m}
           f == [a \in S |-> index[a]]
<1>1. f \in [S -> 1..m]
  OBVIOUS
<1>2. \A a, b \in S : f[a] = f[b] => a = b
  OBVIOUS
<1>3. \A i \in 1..m : \E a \in S : f[a] = i
  <2> TAKE i \in 1..m
  <2>1. PICK a \in D : index[a] = i
    OBVIOUS
  <2>2. a \in S /\ f[a] = i
    BY <2>1
  <2>3. QED BY <2>2
<1> HIDE DEF S, f
<1>4. f \in Injection(S, 1..m) /\ f \in Surjection(S, 1..m)
  BY <1>1, <1>2, <1>3 DEF Injection, Surjection, IsInjective
<1>5. IsFiniteSet(1..m) /\ Cardinality(1..m) = m
  BY IntervalSize
<1>6. Cardinality(S) = m
  BY <1>4, <1>5, FS_Injection
<1>7. QED BY <1>6 DEF S, UpTo

\* Results R with each index up to n once, where t says what is to be at an index.
IndexedResults(n, R, t) ==
    /\ n \in Nat /\ Len(R) \in Nat /\ DOMAIN R = 1..Len(R)
    /\ t = [i \in 1..n |-> t[i]]
    /\ \A x \in DOMAIN R : R[x][1] \in 1..n /\ R[x][2] = t[R[x][1]]
    /\ \A x, y \in DOMAIN R : R[x][1] = R[y][1] => x = y
    /\ \A i \in 1..n : \E x \in DOMAIN R : R[x][1] = i

\* InFileOrder puts the result of each index where the index says, whatever
\* order the results are in.
LEMMA SortedByIndex ==
    ASSUME NEW n, NEW R, NEW t, IndexedResults(n, R, t)
    PROVE  InFileOrder(R) = t
<1> USE DEF IndexedResults
<1> DEFINE D == DOMAIN R
           index == [x \in D |-> R[x][1]]
           below(x) == {k \in D : R[k][1] < R[x][1]}
<1>1. index \in [D -> 1..n]
  OBVIOUS
<1>2. \A a, b \in D : index[a] = index[b] => a = b
  OBVIOUS
<1>3. \A i \in 1..n : \E a \in D : index[a] = i
  OBVIOUS
<1>4. ASSUME NEW x \in D
      PROVE  Cardinality(below(x)) = R[x][1] - 1
  <2> DEFINE m == R[x][1] - 1
  <2>1. m \in 0..n /\ R[x][1] \in 1..n
    <3>1. R[x][1] \in 1..n /\ n \in Nat
      BY <1>4
    <3>2. QED BY ONLY <3>1
  <2>2. below(x) = UpTo(D, index, m)
    BY <1>1, <2>1 DEF UpTo
  <2> HIDE DEF index, m
  <2>3. Cardinality(UpTo(D, index, m)) = m
    BY <1>1, <1>2, <1>3, <2>1, CountUpTo
  <2>4. QED BY <2>2, <2>3 DEF m
<1>5. D = 1..n
  <2>1. n \in 0..n /\ n \in Int /\ 1 \in Int
    OBVIOUS
  <2>2. Cardinality(UpTo(D, index, n)) = n
    <3> HIDE DEF index
    <3>1. QED BY <1>1, <1>2, <1>3, <2>1, CountUpTo
  <2>3. UpTo(D, index, n) = D
    <3>1. \A a \in D : index[a] \in 1..n
      BY <1>1
    <3>2. \A a \in D : index[a] <= n
      BY <3>1
    <3>3. QED BY <3>2, Zenon DEF UpTo
  <2>4. D = 1..Len(R) /\ Len(R) \in Nat
    OBVIOUS
  <2>5. Cardinality(1..Len(R)) = Len(R)
    BY <2>4, IntervalSize
  <2>6. QED BY <2>2, <2>3, <2>4, <2>5
<1>6. ASSUME NEW i \in 1..n
      PROVE  R[CHOOSE j \in D : Cardinality(below(j)) = i - 1][2] = t[i]
  <2> DEFINE c == CHOOSE j \in D : Cardinality(below(j)) = i - 1
  <2>1. PICK x \in D : R[x][1] = i
    OBVIOUS
  <2>2. Cardinality(below(x)) = i - 1
    BY <1>4, <2>1
  <2> HIDE DEF D, below
  <2>3. c \in D /\ Cardinality(below(c)) = i - 1
    BY <2>2
  <2>4. R[c][1] - 1 = i - 1 /\ R[c][1] \in 1..n /\ R[c][2] = t[R[c][1]]
    BY <1>4, <2>3 DEF D
  <2>5. R[c][1] = i
    BY <2>4
  <2>6. QED BY <2>4, <2>5
<1>7. InFileOrder(R) = [i \in D |-> R[CHOOSE j \in D : Cardinality(below(j)) = i - 1][2]]
  BY Zenon DEF InFileOrder
<1> DEFINE pick(i) == R[CHOOSE j \in D : Cardinality(below(j)) = i - 1][2]
<1>8. InFileOrder(R) = [i \in D |-> pick(i)] /\ \A i \in 1..n : pick(i) = t[i]
  BY <1>6, <1>7, Zenon
<1> HIDE DEF D, index, below, pick
<1>9. t = [i \in 1..n |-> t[i]]
  OBVIOUS
<1>10. QED BY <1>5, <1>8, <1>9

\* The texts are those of the files found, in their order.
LEMMA SortResultsTexts ==
    ASSUME Typed, ReadInv, SortResults
    PROVE  /\ reads' = [reads EXCEPT !.texts = [i \in 1..Len(wave.found) |-> TextOf(wave.found[i])]]
           /\ [i \in 1..Len(wave.found) |-> TextOf(wave.found[i])] \in Seq(Text)
<1> DEFINE n == Len(wave.found)
           R == reads.results
           t == [i \in 1..n |-> TextOf(wave.found[i])]
<1>1. pc = "read" /\ reads.joined = NumReaders
  BY DEF SortResults, InParallel
<1>2. NumReaders \in Nat \ {0} /\ Readers = 1..reads.joined /\ reads.joined > 0
  BY <1>1, ProjectLoaderAssumption DEF Readers
<1>3. reads.claimed = n /\ OutInv /\ JoinInv
  BY <1>1, <1>2 DEF ReadInv
<1>4. n \in Nat /\ \A i \in 1..n : TextOf(wave.found[i]) \in Text
  BY FieldTypes DEF TextOf, Text
<1>5. R \in Seq(Nat \X Text)
  BY ReadFieldTypes
<1>6. ASSUME NEW x \in DOMAIN R
      PROVE  R[x][1] \in 1..n /\ R[x][2] = t[R[x][1]]
  <2>1. PICK r \in Readers : \E a \in DOMAIN reads.out[r] : R[x] = reads.out[r][a]
    BY <1>2, <1>3, <1>6 DEF JoinInv
  <2>2. R[x][1] \in 1..n /\ R[x][2] = TextOf(wave.found[R[x][1]])
    BY <1>3, <2>1 DEF OutInv
  <2>3. QED BY <2>2
<1>7. \A x, y \in DOMAIN R : R[x][1] = R[y][1] => x = y
  BY <1>3 DEF JoinInv
<1>8. ASSUME NEW i \in 1..n
      PROVE  \E x \in DOMAIN R : R[x][1] = i
  <2>1. PICK r \in Readers : \E a \in DOMAIN reads.out[r] : reads.out[r][a][1] = i
    BY <1>3, <1>8 DEF OutInv
  <2>2. PICK a \in DOMAIN reads.out[r] : reads.out[r][a][1] = i
    BY <2>1
  <2>3. PICK x \in DOMAIN R : R[x] = reads.out[r][a]
    BY <1>2, <1>3, <2>2 DEF JoinInv
  <2>4. QED BY <2>2, <2>3
<1>9. t \in [1..n -> Text]
  BY <1>4
<1>10. reads' = [reads EXCEPT !.texts = InFileOrder(R)]
  BY DEF SortResults
<1>11. t \in Seq(Text)
  BY <1>4, <1>9, SeqDef
<1>12. InFileOrder(R) = t
  <2>1. Len(R) \in Nat /\ DOMAIN R = 1..Len(R)
    BY <1>5, LenProperties
  <2>2. t = [i \in 1..n |-> t[i]]
    OBVIOUS
  <2>3. IndexedResults(n, R, t)
    <3> HIDE DEF n, R, t
    <3>1. QED BY <1>4, <1>6, <1>7, <1>8, <2>1, <2>2 DEF IndexedResults
  <2> HIDE DEF n, R, t
  <2>4. QED BY <2>3, SortedByIndex
<1> HIDE DEF n, R, t
<1>13. QED BY <1>10, <1>11, <1>12 DEF n, t

LEMMA TypedStep ==
    ASSUME Typed, CursorInv, ReadInv, Next
    PROVE  Typed'
<1>1. CASE SortResults
  <2> DEFINE t == [i \in 1..Len(wave.found) |-> TextOf(wave.found[i])]
  <2>1. reads' = [reads EXCEPT !.texts = t] /\ t \in Seq(Text)
    BY <1>1, SortResultsTexts
  <2> HIDE DEF t
  <2>2. ReadsTyped'
    BY <2>1 DEF Typed, ReadsTyped
  <2>3. QED
    BY <1>1, <2>2, TypedFrame DEF SortResults, Typed, list, packages, references
<1>2. CASE Terminated
  BY <1>2, TypedFrame
     DEF Terminated, Typed, vars, list, packages, expansion, references, answers
<1>3. CASE TypePackage \/ LoadReference
  BY <1>3, LoadNextTyped DEF TypePackage, LoadReference, Origin
<1>4. QED
  BY <1>1, <1>2, <1>3, ReadRootsTyped, PackagesTyped, ScanTyped, ReadTyped, ReferencesKeepTypes
     DEF Next, Step

-----------------------------------------------------------------------------
(* The list of sources only grows. *)

Grows ==
    /\ world' = world
    /\ Len(sources) <= Len(sources')
    /\ \A i \in DOMAIN sources : sources'[i] = sources[i]

\* A readable file that is not yet loaded becomes the last source.
Appends(f, by) ==
    /\ f \in File \ Files(sources) /\ f \in world.readable
    /\ sources' = Append(sources, Source(f, f, by))

AppendsSome == \E f \in File, by \in Origin : Appends(f, by)

\* The file that PushNext pushes is one the graph found and has not pushed.
LEMMA PushedFile ==
    ASSUME BaseInv, PushNext
    PROVE  /\ wave.pushed + 1 \in 1..Len(wave.found) /\ wave.found[wave.pushed + 1] \in Unpushable
           /\ \/ wave.found[wave.pushed + 1] \notin world.readable /\ UNCHANGED <<sources, graph>>
              \/ /\ Appends(wave.found[wave.pushed + 1], "graph")
                 /\ graph' = [graph EXCEPT !.added = @ + 1]
<1> DEFINE k == wave.pushed + 1
           f == wave.found[k]
<1>1. pc = "push" /\ wave.pushed < Len(wave.found)
  BY DEF PushNext
<1>t. /\ wave.pushed \in Nat /\ Len(wave.found) \in Nat
      /\ \A j \in 1..Len(wave.found) : wave.found[j] \in File
  BY FieldTypes DEF BaseInv
<1>2. k \in 1..Len(wave.found) /\ k \in (wave.pushed + 1)..Len(wave.found) /\ f \in File
  BY <1>1, <1>t
<1>3. f \in Unpushable
  BY <1>2 DEF Unpushable
<1>4. f \notin Files(sources)
  BY <1>3 DEF BaseInv, KnownInv
<1>5. reads.texts[k] = TextOf(f)
  BY <1>1, <1>2 DEF BaseInv, ReadInv
<1>6. \/ reads.texts[k] = None /\ UNCHANGED <<sources, graph>>
      \/ /\ reads.texts[k] # None
         /\ sources' = Append(sources, Source(f, reads.texts[k], "graph"))
         /\ graph' = [graph EXCEPT !.added = @ + 1]
  BY DEF PushNext, Unpushed
<1>7. None \notin File
  BY ProjectLoaderAssumption
<1> HIDE DEF k, f
<1>8. QED
  BY <1>2, <1>3, <1>4, <1>5, <1>6, <1>7 DEF Appends, TextOf, k, f

LEMMA LoadedNext ==
    ASSUME Typed, NEW by, LoadNext(by)
    PROVE  /\ Head(loading) \in File
           /\ \/ /\ UNCHANGED sources
                 /\ Head(loading) \in Files(sources) \/ Head(loading) \notin world.readable
              \/ Appends(Head(loading), by)
<1>1. Head(loading) \in File
  BY HeadAndTail DEF Typed, ListTyped, LoadNext
<1>2. QED BY <1>1 DEF LoadNext, Appends

LEMMA LoadedPackage ==
    ASSUME Typed, ResolvePackage
    PROVE  \/ UNCHANGED sources /\ ~ Loads(Head(requests).use)
           \/ Loads(Head(requests).use) /\ Appends(Head(requests).use.package, "package")
<1>1. world.readable \subseteq File
  BY WorldFacts DEF Typed
<1>2. QED BY <1>1 DEF ResolvePackage, Loads, Appends

\* The steps that append a source.
LEMMA SourcesFrame ==
    ASSUME Next, ~ (TypePackage \/ LoadReference \/ ResolvePackage \/ PushNext \/ ReadRoots)
    PROVE  UNCHANGED <<world, sources>>
<1> USE DEF list, packages, expansion, references, answers
<1>1. CASE Terminated
  BY <1>1 DEF Terminated, vars
<1>2. CASE EndTypePackages \/ BeginRound \/ QueueUse \/ EndSource \/ EndPackages
  BY <1>2 DEF EndTypePackages, BeginRound, QueueUse, EndSource, EndPackages
<1>3. CASE OpenWave \/ ScanUse \/ NextSource \/ EndScan
  BY <1>3 DEF OpenWave, ScanUse, NextSource, EndScan
<1>4. ASSUME NEW r \in Readers, ReadOne(r)
      PROVE  UNCHANGED <<world, sources>>
  BY <1>4 DEF ReadOne
<1>5. CASE JoinReader \/ SortResults \/ ReadAll
  BY <1>5 DEF JoinReader, SortResults, ReadAll
<1>6. CASE EndWave \/ EndGraph \/ CollectPending \/ EndRound
  BY <1>6 DEF EndWave, EndGraph, CollectPending, EndRound
<1>7. CASE ScanReferences
  BY <1>7 DEF ScanReferences
<1>8. QED BY <1>1, <1>2, <1>3, <1>4, <1>5, <1>6, <1>7 DEF Next, Step

\* How a step changes the sources.
LEMMA SourcesStep ==
    ASSUME BaseInv, Next
    PROVE  world' = world /\ (UNCHANGED sources \/ AppendsSome \/ ReadRoots)
<1> USE DEF list, packages, expansion, references, answers
<1>1. CASE TypePackage \/ LoadReference
  BY <1>1, LoadedNext DEF TypePackage, LoadReference, BaseInv, AppendsSome, Origin, LoadNext
<1>2. CASE ResolvePackage
  BY <1>2, LoadedPackage DEF BaseInv, AppendsSome, Origin, ResolvePackage, Appends
<1>3. CASE PushNext
  BY <1>3, PushedFile DEF BaseInv, AppendsSome, Origin, PushNext, Appends
<1>4. CASE ReadRoots
  BY <1>4 DEF ReadRoots
<1>5. QED BY <1>1, <1>2, <1>3, <1>4, SourcesFrame

LEMMA AppendedSources ==
    ASSUME Typed, NEW f, NEW by \in Origin, Appends(f, by)
    PROVE  /\ f \in File /\ f \notin Files(sources) /\ f \in world.readable
           /\ Len(sources') = Len(sources) + 1
           /\ DOMAIN sources' = 1..(Len(sources) + 1)
           /\ \A i \in 1..Len(sources) : sources'[i] = sources[i]
           /\ sources'[Len(sources) + 1].file = f
           /\ sources'[Len(sources) + 1].text = f
           /\ sources'[Len(sources) + 1].by = by
           /\ Files(sources') = Files(sources) \cup {f}
<1>1. f \in File /\ Source(f, f, by) \in LoadedSource /\ sources \in Seq(LoadedSource)
  BY DEF Appends, Source, LoadedSource, Typed, ListTyped
<1>2. /\ Len(sources') = Len(sources) + 1
      /\ DOMAIN sources' = 1..(Len(sources) + 1)
      /\ \A i \in 1..Len(sources) : sources'[i] = sources[i]
      /\ sources'[Len(sources) + 1] = Source(f, f, by)
  BY <1>1, AppendOne DEF Appends
<1>3. sources'[Len(sources) + 1].file = f /\ sources'[Len(sources) + 1].text = f
      /\ sources'[Len(sources) + 1].by = by
  BY <1>2 DEF Source
<1>4. DOMAIN sources = 1..Len(sources) /\ Len(sources) \in Nat
  BY FieldTypes
<1>5. ASSUME NEW i \in DOMAIN sources'
      PROVE  sources'[i].file \in Files(sources) \cup {f}
  BY <1>2, <1>3, <1>4, <1>5 DEF Files
<1>6. ASSUME NEW i \in DOMAIN sources
      PROVE  i \in DOMAIN sources' /\ sources'[i].file = sources[i].file
  BY <1>2, <1>4, <1>6
<1>7. Len(sources) + 1 \in DOMAIN sources'
  BY <1>2, <1>4
<1>8. Files(sources') = Files(sources) \cup {f}
  BY <1>3, <1>5, <1>6, <1>7 DEF Files
<1>9. QED BY <1>1, <1>2, <1>3, <1>8 DEF Appends

LEMMA RootSources ==
    ASSUME BaseInv, ReadRoots
    PROVE  \/ UNCHANGED sources /\ pc' = "failed" /\ ~ (ToSet(world.roots) \subseteq world.readable)
           \/ /\ sources = <<>> /\ pc' = "types"
              /\ Len(sources') = Len(world.roots) /\ DOMAIN sources' = 1..Len(world.roots)
              /\ \A i \in 1..Len(world.roots) :
                    /\ world.roots[i] \in File
                    /\ sources'[i].file = world.roots[i] /\ sources'[i].text = world.roots[i]
                    /\ sources'[i].by = "root"
              /\ Files(sources') = ToSet(world.roots)
              /\ ToSet(world.roots) \subseteq world.readable
              /\ loading' = world.types
<1>1. CASE ~ (ToSet(world.roots) \subseteq world.readable)
  BY <1>1 DEF ReadRoots
<1>2. CASE ToSet(world.roots) \subseteq world.readable
  <2>1. world.roots \in Seq(File)
    BY WorldFacts DEF BaseInv, Typed
  <2>2. DOMAIN world.roots = 1..Len(world.roots) /\ Len(world.roots) \in Nat
        /\ \A i \in 1..Len(world.roots) : world.roots[i] \in File
    BY <2>1, LenProperties, ElementOfSeq
  <2>3. sources = <<>> /\ pc' = "types" /\ loading' = world.types
    BY <1>2 DEF ReadRoots, BaseInv, CursorInv, RootsInv
  <2>4. sources' = [i \in 1..Len(world.roots) |-> Source(world.roots[i], world.roots[i], "root")]
    BY <1>2, <2>2 DEF ReadRoots
  <2>5. \A i \in 1..Len(world.roots) :
            /\ sources'[i].file = world.roots[i] /\ sources'[i].text = world.roots[i]
            /\ sources'[i].by = "root"
    BY <2>4 DEF Source
  <2>6. DOMAIN sources' = 1..Len(world.roots)
    BY <2>4
  <2>7. Len(sources') = Len(world.roots)
    BY <2>2, <2>6, TypedStep, LenProperties DEF Next, Step, BaseInv, Typed, ListTyped
  <2>8. Files(sources') = ToSet(world.roots)
    BY <2>2, <2>5, <2>6 DEF Files, ToSet
  <2>9. QED BY <1>2, <2>2, <2>3, <2>5, <2>6, <2>7, <2>8
<1>3. QED BY <1>1, <1>2

LEMMA GrowsStep ==
    ASSUME BaseInv, Next
    PROVE  Grows /\ Files(sources) \subseteq Files(sources')
<1>1. Len(sources) \in Nat /\ DOMAIN sources = 1..Len(sources) /\ world' = world
  BY FieldTypes, SourcesStep DEF BaseInv
<1>2. CASE UNCHANGED sources
  BY <1>1, <1>2 DEF Grows
<1>3. CASE AppendsSome
  <2>1. PICK f \in File, by \in Origin : Appends(f, by)
    BY <1>3 DEF AppendsSome
  <2>2. QED BY <1>1, <2>1, AppendedSources DEF Grows, BaseInv
<1>4. CASE ReadRoots /\ ~ UNCHANGED sources
  <2>1. Len(sources') = Len(world.roots) /\ sources = <<>> /\ Len(world.roots) \in Nat
    BY <1>4, RootSources, WorldFacts, LenProperties DEF BaseInv, Typed
  <2>2. DOMAIN sources = {} /\ Len(sources) = 0
    BY <2>1
  <2>3. QED BY <1>1, <2>1, <2>2 DEF Grows, Files
<1>5. QED BY <1>2, <1>3, <1>4, SourcesStep

\* No file is appended that is there.
LEMMA LoadedOnceStep ==
    ASSUME BaseInv, Next
    PROVE  LoadedOnce' /\ OwnText'
<1>1. Len(sources) \in Nat /\ DOMAIN sources = 1..Len(sources)
  BY FieldTypes DEF BaseInv
<1>2. CASE UNCHANGED sources
  BY <1>2 DEF BaseInv, LoadedOnce, OwnText
<1>3. CASE AppendsSome
  <2>1. PICK f \in File, by \in Origin : Appends(f, by)
    BY <1>3 DEF AppendsSome
  <2> DEFINE n == Len(sources)
  <2>2. /\ DOMAIN sources' = 1..(n + 1)
        /\ \A i \in 1..n : sources'[i] = sources[i]
        /\ sources'[n + 1].file = f /\ sources'[n + 1].text = f /\ f \notin Files(sources)
    BY <2>1, AppendedSources DEF BaseInv
  <2>3. \A i \in 1..n : sources[i].file # f
    BY <1>1, <2>2 DEF Files
  <2>4. \A i \in 1..n : sources[i].text = sources[i].file
    BY <1>1 DEF BaseInv, OwnText
  <2>5. \A i, j \in 1..n : i # j => sources[i].file # sources[j].file
    BY <1>1 DEF BaseInv, LoadedOnce
  <2> HIDE DEF n
  <2>6. OwnText'
    BY <1>1, <2>2, <2>4 DEF OwnText, n
  <2>7. LoadedOnce'
    <3> SUFFICES ASSUME NEW i \in 1..(n + 1), NEW j \in 1..(n + 1), i # j
                 PROVE  sources'[i].file # sources'[j].file
      BY <2>2 DEF LoadedOnce
    <3>1. n \in Nat
      BY <1>1 DEF n
    <3>2. CASE i \in 1..n /\ j \in 1..n
      BY <2>2, <2>5, <3>2
    <3>3. CASE i = n + 1 /\ j \in 1..n
      BY <2>2, <2>3, <3>3
    <3>4. CASE i \in 1..n /\ j = n + 1
      BY <2>2, <2>3, <3>4
    <3>5. QED BY <3>1, <3>2, <3>3, <3>4
  <2>8. QED BY <2>6, <2>7
<1>4. CASE ReadRoots /\ ~ UNCHANGED sources
  <2>1. /\ DOMAIN sources' = 1..Len(world.roots)
        /\ \A i \in 1..Len(world.roots) :
              sources'[i].file = world.roots[i] /\ sources'[i].text = world.roots[i]
    BY <1>4, RootSources
  <2>2. /\ DOMAIN world.roots = 1..Len(world.roots)
        /\ \A i, j \in DOMAIN world.roots : world.roots[i] = world.roots[j] => i = j
    BY WorldFacts, LenProperties DEF BaseInv, Typed
  <2>3. QED BY <2>1, <2>2 DEF LoadedOnce, OwnText
<1>5. QED BY <1>2, <1>3, <1>4, SourcesStep

\* The head of the queue is a specifier of a source.
LEMMA RequestFacts ==
    ASSUME BaseInv, requests # <<>>
    PROVE  LET r == Head(requests)
           IN  /\ r \in Request /\ r.importer \in Files(sources) /\ r.importer \in File
               /\ r.use \in Use
               /\ r.use \in ToSet(world.uses[r.importer])
               /\ (r.use.package = None) <=> (r.use.kind \in {"none", "missing"})
               /\ r.use.kind = "json" => world.uses[r.use.package] = <<>>
<1> DEFINE r == Head(requests)
<1>1. r \in Request /\ r = requests[1] /\ 1 \in DOMAIN requests
  BY HeadAndTail, LenProperties DEF BaseInv, Typed, QueueTyped
<1>2. r.importer \in Files(sources) /\ r.use \in ToSet(world.uses[r.importer])
  BY <1>1 DEF BaseInv, NamedInv
<1>3. r.importer \in File /\ r.use \in Use
  BY <1>1 DEF Request
<1> HIDE DEF r
<1>4. QED BY <1>1, <1>2, <1>3, WorldFacts DEF BaseInv, Typed, r

-----------------------------------------------------------------------------
(* The cursors. *)

\* The actions that change a variable.
LEMMA Frame ==
    ASSUME Next
    PROVE  /\ ~ BeginRound => UNCHANGED before
           /\ ~ EndPackages => UNCHANGED scanned
           /\ ~ (BeginRound \/ QueueUse \/ EndSource \/ ResolvePackage) => UNCHANGED at
           /\ ~ (BeginRound \/ QueueUse \/ ResolvePackage) => UNCHANGED requests
           /\ ~ (BeginRound \/ QueueUse) => UNCHANGED queued
           /\ ~ (NextSource \/ EndGraph \/ EndPackages \/ ScanUse \/ PushNext) => UNCHANGED graph
           /\ ~ (OpenWave \/ ScanUse \/ NextSource \/ PushNext \/ EndWave) => UNCHANGED wave
           /\ ~ (ReadRoots \/ TypePackage \/ LoadReference \/ ScanReferences) => UNCHANGED loading
           /\ ~ (CollectPending \/ ScanReferences) => UNCHANGED pending
           /\ ~ ScanReferences => UNCHANGED referenced
           /\ ~ ResolvePackage => UNCHANGED resolved
<1> USE DEF list, packages, expansion, references, answers
<1>1. CASE Terminated
  BY <1>1 DEF Terminated, vars
<1>2. ASSUME NEW r \in Readers, ReadOne(r)
      PROVE  UNCHANGED <<before, scanned, at, requests, queued, graph, wave, loading, pending, referenced, resolved>>
  BY <1>2 DEF ReadOne
<1>3. ReadRoots \/ TypePackage \/ LoadReference =>
        UNCHANGED <<before, scanned, at, requests, queued, graph, wave, pending, referenced, resolved>>
  BY DEF ReadRoots, TypePackage, LoadReference, LoadNext
<1>4. EndTypePackages \/ EndScan \/ JoinReader \/ SortResults \/ ReadAll \/ EndRound =>
        UNCHANGED <<before, scanned, at, requests, queued, graph, wave, loading, pending, referenced, resolved>>
  BY DEF EndTypePackages, EndScan, JoinReader, SortResults, ReadAll, EndRound
<1>5. BeginRound =>
        UNCHANGED <<scanned, graph, wave, loading, pending, referenced, resolved>>
  BY DEF BeginRound
<1>6. QueueUse =>
        UNCHANGED <<before, scanned, graph, wave, loading, pending, referenced, resolved>>
  BY DEF QueueUse
<1>7. EndSource =>
        UNCHANGED <<before, scanned, requests, queued, graph, wave, loading, pending, referenced, resolved>>
  BY DEF EndSource
<1>8. ResolvePackage =>
        UNCHANGED <<before, scanned, queued, graph, wave, loading, pending, referenced>>
  BY DEF ResolvePackage
<1>9. EndPackages =>
        UNCHANGED <<before, at, requests, queued, wave, loading, pending, referenced, resolved>>
  BY DEF EndPackages
<1>10. OpenWave \/ EndWave =>
        UNCHANGED <<before, scanned, at, requests, queued, graph, loading, pending, referenced, resolved>>
  BY DEF OpenWave, EndWave
<1>11. ScanUse \/ NextSource \/ PushNext =>
        UNCHANGED <<before, scanned, at, requests, queued, loading, pending, referenced, resolved>>
  BY DEF ScanUse, NextSource, PushNext
<1>12. EndGraph =>
        UNCHANGED <<before, scanned, at, requests, queued, wave, loading, pending, referenced, resolved>>
  BY DEF EndGraph
<1>13. CollectPending =>
        UNCHANGED <<before, scanned, at, requests, queued, graph, wave, loading, referenced, resolved>>
  BY DEF CollectPending
<1>14. ScanReferences =>
        UNCHANGED <<before, scanned, at, requests, queued, graph, wave, resolved>>
  BY DEF ScanReferences
<1>15. QED BY <1>1, <1>2, <1>3, <1>4, <1>5, <1>6, <1>7, <1>8, <1>9, <1>10, <1>11, <1>12, <1>13, <1>14 DEF Next, Step

\* What a step does to each field of graph.
LEMMA GraphFields ==
    ASSUME Typed, CursorInv, Next
    PROVE  /\ ~ NextSource => graph'.next = graph.next
           /\ NextSource => graph'.next = graph.next + 1
           /\ ~ EndGraph => graph'.synced = graph.synced
           /\ EndGraph => graph'.synced = Len(sources)
           /\ ~ (ScanUse \/ EndPackages) => graph'.known = graph.known
           /\ EndPackages =>
                graph'.known = graph.known \cup
                               {sources[i].file : i \in (graph.synced + 1)..Len(sources)}
           /\ ~ (EndPackages \/ PushNext) => graph'.added = graph.added
<1> USE DEF list, packages, expansion, references, answers
<1>g. graph \in [known : SUBSET File, next : Nat, synced : Nat, added : Nat]
  BY DEF Typed, GraphTyped
<1>1. CASE NextSource
  <2>1. graph' = [graph EXCEPT !.next = @ + 1] /\ pc = "scan"
    BY <1>1 DEF NextSource, Scanning
  <2>2. ~ EndGraph /\ ~ EndPackages /\ ~ PushNext
    BY <2>1 DEF EndGraph, EndPackages, PushNext
  <2>3. QED BY <1>g, <1>1, <2>1, <2>2
<1>2. CASE EndGraph
  <2>1. graph' = [graph EXCEPT !.synced = Len(sources)] /\ pc = "graph"
    BY <1>2 DEF EndGraph
  <2>2. ~ NextSource /\ ~ EndPackages /\ ~ PushNext /\ ~ ScanUse
    BY <2>1 DEF NextSource, ScanUse, Scanning, EndPackages, PushNext
  <2>3. QED BY <1>g, <1>2, <2>1, <2>2
<1>3. CASE EndPackages
  <2> DEFINE K == graph.known \cup {sources[i].file : i \in (graph.synced + 1)..Len(sources)}
  <2>1. graph' = [graph EXCEPT !.added = 0, !.known = K] /\ pc = "packages"
    BY <1>3 DEF EndPackages, Synced
  <2>2. ~ NextSource /\ ~ EndGraph
    BY <2>1 DEF NextSource, Scanning, EndGraph
  <2> HIDE DEF K
  <2>3. graph'.next = graph.next /\ graph'.synced = graph.synced /\ graph'.known = K
    BY <1>g, <2>1
  <2>4. QED BY <1>3, <2>2, <2>3 DEF K
<1>4. CASE ScanUse
  <2> DEFINE u == ScannedUses[wave.use + 1]
             K == IF u.local # None /\ u.local \notin graph.known THEN graph.known \cup {u.local}
                  ELSE graph.known
  <2>1. graph' = [graph EXCEPT !.known = K] /\ pc = "scan"
    BY <1>4 DEF ScanUse, Scanning
  <2>2. ~ EndGraph /\ ~ EndPackages
    BY <2>1 DEF EndGraph, EndPackages
  <2>3. ~ NextSource
    <3>1. wave.use + 1 \in 1..Len(ScannedUses) /\ wave.use \in Nat
      BY <1>4, ScannedPlace, FieldTypes
    <3>2. wave.use # Len(ScannedUses)
      BY <3>1
    <3>3. QED BY <3>2 DEF NextSource
  <2> HIDE DEF K
  <2>4. QED BY <1>g, <1>4, <2>1, <2>2, <2>3
<1>5. CASE PushNext
  <2>1. (UNCHANGED graph \/ graph' = [graph EXCEPT !.added = @ + 1]) /\ pc = "push"
    BY <1>5 DEF PushNext
  <2>2. ~ NextSource /\ ~ EndGraph /\ ~ EndPackages
    BY <2>1 DEF NextSource, Scanning, EndGraph, EndPackages
  <2>3. QED BY <1>g, <1>5, <2>1, <2>2
<1>6. CASE ~ (NextSource \/ EndGraph \/ EndPackages \/ ScanUse \/ PushNext)
  <2>1. UNCHANGED graph
    BY <1>6, Frame
  <2>2. QED BY <1>6, <2>1
<1>7. QED BY <1>1, <1>2, <1>3, <1>4, <1>5, <1>6

LEMMA PcStep ==
    ASSUME PcInv, Next
    PROVE  PcInv'
BY DEF PcInv, InGraph, Next, Step, ReadRoots, TypePackage, LoadReference, LoadNext, EndTypePackages,
   BeginRound, QueueUse, Extracting, EndSource, ResolvePackage, EndPackages, OpenWave, ScanUse,
   Scanning, NextSource, EndScan, ReadOne, JoinReader, InParallel, SortResults, ReadAll, PushNext,
   EndWave, EndGraph, CollectPending, ScanReferences, AtDirectives, EndRound, Terminated, vars

LEMMA BoundsStep ==
    ASSUME BaseInv, Next
    PROVE  BoundsInv'
<1> USE DEF list, packages, expansion, references, answers
<1> DEFINE n == Len(sources)
           m == Len(sources')
<1>1. n \in Nat /\ m \in Nat /\ n <= m /\ DOMAIN sources = 1..n /\ DOMAIN sources' = 1..m
  BY FieldTypes, TypedStep, GrowsStep, LenProperties DEF BaseInv, Grows, Typed, ListTyped
<1>2. /\ before <= n /\ scanned <= n /\ graph.next <= n /\ graph.synced <= n /\ pending \subseteq 1..n
      /\ before \in Nat /\ scanned \in Nat /\ graph.next \in Nat /\ graph.synced \in Nat
  BY <1>1, FieldTypes DEF BaseInv, CursorInv, BoundsInv
<1>3. before' = before \/ before' = n
  BY Frame DEF BeginRound
<1>4. scanned' = scanned \/ scanned' = n
  BY Frame DEF EndPackages
<1>5. graph'.next <= n
  <2>1. CASE NextSource
    <3>1. pc = "scan" /\ graph.next < wave.end
      BY <2>1 DEF NextSource, Scanning
    <3>2. wave.end <= n
      BY <3>1 DEF BaseInv, CursorInv, WaveCursorInv
    <3>3. wave.end \in Nat /\ graph'.next = graph.next + 1
      BY <2>1, FieldTypes, GraphFields DEF BaseInv
    <3>4. QED BY <1>1, <1>2, <3>1, <3>2, <3>3
  <2>2. CASE ~ NextSource
    BY <1>2, <2>2, GraphFields DEF BaseInv
  <2>3. QED BY <2>1, <2>2
<1>6. graph'.synced <= n
  BY <1>1, <1>2, GraphFields DEF BaseInv
<1>7. pending' \subseteq 1..n
  <2>1. CASE CollectPending \/ ScanReferences
    <3>1. CASE CollectPending
      <4>1. pending' = Unscanned
        BY <3>1 DEF CollectPending
      <4>2. QED BY <1>1, <4>1 DEF Unscanned
    <3>2. CASE ScanReferences
      <4>1. PICK i \in DOMAIN sources : pending' = pending \ {i}
        BY <3>2 DEF ScanReferences
      <4>2. QED BY <1>2, <4>1
    <3>3. QED BY <2>1, <3>1, <3>2
  <2>2. CASE ~ (CollectPending \/ ScanReferences)
    <3>1. UNCHANGED pending
      BY <2>2, Frame
    <3>2. QED BY <1>2, <3>1
  <2>3. QED BY <2>1, <2>2
<1>8. graph'.next \in Nat /\ graph'.synced \in Nat
  BY TypedStep DEF BaseInv, Typed, GraphTyped
<1> HIDE DEF n, m
<1>9. before' <= m /\ scanned' <= m /\ graph'.next <= m /\ graph'.synced <= m
  BY <1>1, <1>2, <1>3, <1>4, <1>5, <1>6, <1>8
<1>10. pending' \subseteq DOMAIN sources'
  BY <1>1, <1>7
<1>11. QED BY <1>9, <1>10 DEF BoundsInv, m

\* The part of prepare that an action belongs to, and the one it leads to.
LEMMA PcOf ==
    ASSUME Next
    PROVE  /\ ReadRoots => pc = "roots" /\ pc' \in {"types", "failed"}
           /\ TypePackage => pc = "types" /\ pc' = "types"
           /\ EndTypePackages => pc = "types" /\ pc' = "round"
           /\ BeginRound => pc = "round" /\ pc' = "packages"
           /\ QueueUse \/ EndSource \/ ResolvePackage => pc = "packages" /\ pc' = "packages"
           /\ EndPackages => pc = "packages" /\ pc' = "graph"
           /\ OpenWave => pc = "graph" /\ pc' = "scan"
           /\ ScanUse \/ NextSource => pc = "scan" /\ pc' = "scan"
           /\ EndScan => pc = "scan" /\ pc' = "read"
           /\ (\E r \in Readers : ReadOne(r)) \/ JoinReader => pc = "read" /\ pc' = "read"
           /\ SortResults \/ ReadAll => pc = "read" /\ pc' = "push"
           /\ PushNext => pc = "push" /\ pc' = "push"
           /\ EndWave => pc = "push" /\ pc' = "graph"
           /\ EndGraph => pc = "graph" /\ pc' = "references"
           /\ CollectPending \/ ScanReferences \/ LoadReference
                => pc = "references" /\ pc' = "references"
           /\ EndRound => pc = "references" /\ pc' \in {"done", "round"}
           /\ Terminated => pc \in {"done", "failed"} /\ pc' = pc
<1>1. /\ ReadRoots => pc = "roots" /\ pc' \in {"types", "failed"}
      /\ TypePackage => pc = "types" /\ pc' = "types"
      /\ EndTypePackages => pc = "types" /\ pc' = "round"
      /\ BeginRound => pc = "round" /\ pc' = "packages"
      /\ QueueUse \/ EndSource \/ ResolvePackage => pc = "packages" /\ pc' = "packages"
      /\ EndPackages => pc = "packages" /\ pc' = "graph"
  BY DEF ReadRoots, TypePackage, LoadNext, EndTypePackages, BeginRound, QueueUse, EndSource,
     Extracting, ResolvePackage, EndPackages
<1>2. /\ OpenWave => pc = "graph" /\ pc' = "scan"
      /\ ScanUse \/ NextSource => pc = "scan" /\ pc' = "scan"
      /\ EndScan => pc = "scan" /\ pc' = "read"
      /\ (\E r \in Readers : ReadOne(r)) \/ JoinReader => pc = "read" /\ pc' = "read"
      /\ SortResults \/ ReadAll => pc = "read" /\ pc' = "push"
      /\ PushNext => pc = "push" /\ pc' = "push"
      /\ EndWave => pc = "push" /\ pc' = "graph"
      /\ EndGraph => pc = "graph" /\ pc' = "references"
  <2>1. ASSUME NEW r \in Readers, ReadOne(r) PROVE pc = "read" /\ pc' = "read"
    BY <2>1 DEF ReadOne, InParallel
  <2>2. OpenWave => pc = "graph" /\ pc' = "scan"
    BY DEF OpenWave
  <2>3. ScanUse \/ NextSource => pc = "scan" /\ pc' = "scan"
    BY DEF ScanUse, NextSource, Scanning
  <2>4. EndScan => pc = "scan" /\ pc' = "read"
    BY DEF EndScan
  <2>5. JoinReader => pc = "read" /\ pc' = "read"
    BY DEF JoinReader, InParallel
  <2>6. SortResults \/ ReadAll => pc = "read" /\ pc' = "push"
    BY DEF SortResults, ReadAll, InParallel
  <2>7. PushNext => pc = "push" /\ pc' = "push"
    BY DEF PushNext
  <2>8. EndWave => pc = "push" /\ pc' = "graph"
    BY DEF EndWave
  <2>9. EndGraph => pc = "graph" /\ pc' = "references"
    BY DEF EndGraph
  <2>10. QED BY <2>1, <2>2, <2>3, <2>4, <2>5, <2>6, <2>7, <2>8, <2>9
<1>3. /\ CollectPending \/ ScanReferences \/ LoadReference
            => pc = "references" /\ pc' = "references"
      /\ EndRound => pc = "references" /\ pc' \in {"done", "round"}
      /\ Terminated => pc \in {"done", "failed"} /\ pc' = pc
  BY DEF CollectPending, ScanReferences, AtDirectives, LoadReference, LoadNext, EndRound,
     Terminated, Over, vars
<1>4. QED BY <1>1, <1>2, <1>3

LEMMA PackageCursorStep ==
    ASSUME BaseInv, Next
    PROVE  PackageCursorInv'
<1> DEFINE n == Len(sources)
<1>t. /\ n \in Nat /\ DOMAIN sources = 1..n /\ scanned <= n /\ scanned \in Nat
      /\ at.source \in Nat /\ at.use \in Nat /\ at.end \in Nat
      /\ AtTyped
  BY FieldTypes DEF BaseInv, CursorInv, BoundsInv, Typed
<1>i. pc = "packages" =>
        /\ scanned <= at.source /\ at.source <= at.end /\ at.end <= n
        /\ at.source = at.end => at.use = 0
        /\ \A i \in (at.end + 1)..n : UsesOf(sources[i]) = <<>>
  BY DEF BaseInv, CursorInv, PackageCursorInv
<1>1. CASE BeginRound
  <2>1. /\ pc' = "packages" /\ scanned' = scanned /\ sources' = sources
        /\ at' = [source |-> scanned, use |-> 0, end |-> n]
    BY <1>1 DEF BeginRound
  <2>2. at'.source = scanned /\ at'.use = 0 /\ at'.end = n
    BY <2>1
  <2>3. QED BY <1>t, <2>1, <2>2 DEF PackageCursorInv
<1>2. CASE QueueUse
  <2>1. /\ pc = "packages" /\ pc' = "packages" /\ at.source < at.end
        /\ at' = [at EXCEPT !.use = @ + 1]
        /\ UNCHANGED <<world, sources, scanned>>
    BY <1>2, PcOf DEF QueueUse, Extracting, list
  <2>2. at'.source = at.source /\ at'.end = at.end
    BY <1>t, <2>1 DEF AtTyped
  <2>3. at'.source # at'.end
    BY <1>t, <2>1, <2>2
  <2>4. QED BY <1>i, <2>1, <2>2, <2>3 DEF PackageCursorInv, UsesOf
<1>3. CASE EndSource
  <2>1. /\ pc = "packages" /\ pc' = "packages" /\ at.source < at.end
        /\ at' = [at EXCEPT !.source = @ + 1, !.use = 0]
        /\ UNCHANGED <<world, sources, scanned>>
    BY <1>3, PcOf DEF EndSource, Extracting, list
  <2>2. at'.source = at.source + 1 /\ at'.use = 0 /\ at'.end = at.end
    BY <1>t, <2>1 DEF AtTyped
  <2>3. scanned' <= at'.source /\ at'.source <= at'.end
    BY <1>i, <1>t, <2>1, <2>2
  <2>4. QED BY <1>i, <2>1, <2>2, <2>3 DEF PackageCursorInv, UsesOf
<1>4. CASE ResolvePackage
  <2> DEFINE u == Head(requests).use
  <2>1. /\ pc = "packages" /\ pc' = "packages" /\ at.source = at.end
        /\ at' = IF Loads(u) /\ u.kind = "declaration"
                 THEN [source |-> n, use |-> 0, end |-> n + 1] ELSE at
        /\ UNCHANGED <<world, scanned>>
    BY <1>4, PcOf DEF ResolvePackage
  <2> HIDE DEF u
  <2>2. CASE ~ Loads(u)
    <3>1. UNCHANGED <<at, sources>>
      BY <1>4, <2>1, <2>2, LoadedPackage DEF BaseInv, u
    <3>2. QED BY <1>i, <2>1, <3>1 DEF PackageCursorInv, UsesOf
  <2>3. CASE Loads(u)
    <3>1. Appends(u.package, "package") /\ "package" \in Origin /\ Typed
      BY <1>4, <2>3, LoadedPackage DEF BaseInv, u, Origin
    <3>2. /\ Len(sources') = n + 1
          /\ \A i \in 1..n : sources'[i] = sources[i]
          /\ sources'[n + 1].text = u.package
      BY <3>1, AppendedSources
    <3>3. CASE u.kind = "declaration"
      <4>1. at'.source = n /\ at'.use = 0 /\ at'.end = n + 1
        BY <2>1, <2>3, <3>3
      <4>2. QED BY <1>t, <2>1, <3>2, <4>1 DEF PackageCursorInv
    <3>4. CASE u.kind = "json"
      <4>1. at' = at
        BY <2>1, <3>4
      <4>2. world.uses[u.package] = <<>>
        BY <1>4, <3>4, RequestFacts DEF u, ResolvePackage, BaseInv
      <4>3. \A i \in (at.end + 1)..n : sources'[i] = sources[i]
        BY <1>i, <1>t, <2>1, <3>2
      <4>4. \A i \in (at.end + 1)..(n + 1) : world.uses[sources'[i].text] = <<>>
        BY <1>i, <1>t, <2>1, <3>2, <4>2, <4>3 DEF UsesOf
      <4>5. at.end <= n + 1
        BY <1>i, <1>t, <2>1
      <4>6. QED BY <1>i, <2>1, <3>2, <4>1, <4>4, <4>5 DEF PackageCursorInv, UsesOf
    <3>5. QED BY <2>3, <3>3, <3>4 DEF Loads
  <2>4. QED BY <2>2, <2>3
<1>5. CASE EndPackages
  BY <1>5, PcOf, Frame DEF EndPackages, PackageCursorInv
<1>6. CASE ~ (BeginRound \/ QueueUse \/ EndSource \/ ResolvePackage \/ EndPackages)
  <2>1. pc # "packages" /\ pc' # "packages"
    BY <1>6, PcOf DEF Next, Step
  <2>2. QED BY <1>6, <2>1, Frame DEF BaseInv, CursorInv, PackageCursorInv
<1>7. QED BY <1>1, <1>2, <1>3, <1>4, <1>5, <1>6

\* What a step does to each field of wave.
LEMMA WaveFields ==
    ASSUME Typed, CursorInv
    PROVE  /\ OpenWave => wave'.end = Len(sources) /\ wave'.use = 0 /\ wave'.found = <<>>
                          /\ wave'.pushed = 0
           /\ NextSource => wave'.end = wave.end /\ wave'.use = 0 /\ wave'.found = wave.found
                            /\ wave'.pushed = wave.pushed
           /\ PushNext => wave'.end = wave.end /\ wave'.use = wave.use /\ wave'.found = wave.found
                          /\ wave'.pushed = wave.pushed + 1
           /\ EndWave => wave' = NoWave
           /\ ScanUse => wave'.end = wave.end /\ wave'.use = wave.use + 1
                         /\ wave'.pushed = wave.pushed
<1>w. wave \in [end : Nat, use : Nat, found : Seq(File), pushed : Nat]
  BY DEF Typed, WaveTyped
<1>1. ASSUME OpenWave
      PROVE  /\ wave'.end = Len(sources) /\ wave'.use = 0 /\ wave'.found = <<>> /\ wave'.pushed = 0
  <2>1. wave' = [end |-> Len(sources), use |-> 0, found |-> <<>>, pushed |-> 0]
    BY <1>1 DEF OpenWave, NoWave
  <2>2. QED BY <2>1
<1>2. ASSUME NextSource
      PROVE  wave'.end = wave.end /\ wave'.use = 0 /\ wave'.found = wave.found
             /\ wave'.pushed = wave.pushed
  <2>1. wave' = [wave EXCEPT !.use = 0]
    BY <1>2 DEF NextSource
  <2>2. QED BY <1>w, <2>1
<1>3. ASSUME PushNext
      PROVE  wave'.end = wave.end /\ wave'.use = wave.use /\ wave'.found = wave.found
             /\ wave'.pushed = wave.pushed + 1
  <2>1. wave' = [wave EXCEPT !.pushed = @ + 1]
    BY <1>3 DEF PushNext
  <2>2. QED BY <1>w, <2>1
<1>4. ASSUME ScanUse
      PROVE  wave'.end = wave.end /\ wave'.use = wave.use + 1 /\ wave'.pushed = wave.pushed
  <2> DEFINE u == ScannedUses[wave.use + 1]
             F == IF u.local # None /\ u.local \notin graph.known
                  THEN Append(wave.found, u.local) ELSE wave.found
  <2>1. wave' = [wave EXCEPT !.use = @ + 1, !.found = F]
    BY <1>4 DEF ScanUse
  <2> HIDE DEF F
  <2>2. QED BY <1>w, <2>1
<1>5. EndWave => wave' = NoWave
  BY DEF EndWave
<1>6. QED BY <1>1, <1>2, <1>3, <1>4, <1>5

\* A specifier of the wave is scanned: its file is found, or it is known or none.
LEMMA ScannedFile ==
    ASSUME Typed, CursorInv, ScanUse
    PROVE  LET f == ScannedUses[wave.use + 1].local
           IN  \/ /\ f = None \/ f \in graph.known
                  /\ wave'.found = wave.found /\ graph'.known = graph.known
               \/ /\ f \in File \ graph.known
                  /\ wave'.found = Append(wave.found, f) /\ graph'.known = graph.known \cup {f}
<1> DEFINE u == ScannedUses[wave.use + 1]
           new == u.local # None /\ u.local \notin graph.known
           F == IF new THEN Append(wave.found, u.local) ELSE wave.found
           K == IF new THEN graph.known \cup {u.local} ELSE graph.known
<1>1. u.local \in File \cup {None}
  BY ScannedPlace DEF Use
<1>2. wave' = [wave EXCEPT !.use = @ + 1, !.found = F] /\ graph' = [graph EXCEPT !.known = K]
  BY DEF ScanUse
<1> HIDE DEF F, K
<1>3. wave'.found = F /\ graph'.known = K
  BY <1>2 DEF Typed, WaveTyped, GraphTyped
<1>4. CASE new
  BY <1>1, <1>3, <1>4 DEF F, K
<1>5. CASE ~ new
  BY <1>1, <1>3, <1>5 DEF F, K
<1>6. QED BY <1>4, <1>5

LEMMA WaveCursorStep ==
    ASSUME BaseInv, Next
    PROVE  WaveCursorInv'
<1> DEFINE n == Len(sources)
<1>t. /\ n \in Nat /\ wave.end \in Nat /\ wave.use \in Nat /\ wave.pushed \in Nat
      /\ Len(wave.found) \in Nat /\ graph.next \in Nat /\ Typed /\ CursorInv
  BY FieldTypes DEF BaseInv
<1>i. WaveCursorInv
  BY DEF BaseInv, CursorInv
<1>1. CASE OpenWave
  <2>1. UNCHANGED sources /\ graph'.next = graph.next /\ graph.next < n
    BY <1>1, <1>t, PcOf, GraphFields DEF OpenWave, NextSource, Scanning, list
  <2>2. QED BY <1>1, <1>t, <2>1, PcOf, WaveFields DEF WaveCursorInv
<1>2. CASE ScanUse
  <2>1. /\ UNCHANGED sources /\ graph.next < wave.end
        /\ wave'.end = wave.end /\ wave'.pushed = wave.pushed /\ pc = "scan" /\ pc' = "scan"
    BY <1>2, <1>t, PcOf, WaveFields DEF ScanUse, Scanning, list
  <2>2. graph'.next = graph.next
    <3>1. wave.use + 1 \in 1..Len(ScannedUses)
      BY <1>2, <1>t, ScannedPlace
    <3>2. wave.use # Len(ScannedUses)
      BY <1>t, <3>1
    <3>3. QED BY <1>t, <3>2, GraphFields DEF NextSource
  <2>3. QED BY <1>i, <1>t, <2>1, <2>2 DEF WaveCursorInv
<1>3. CASE NextSource
  <2>1. UNCHANGED sources /\ graph.next < wave.end /\ graph'.next = graph.next + 1
    BY <1>3, <1>t, GraphFields DEF NextSource, Scanning, list
  <2>2. pc = "scan" /\ pc' = "scan" /\ wave'.end = wave.end /\ wave'.use = 0
        /\ wave'.pushed = wave.pushed
    BY <1>3, <1>t, PcOf, WaveFields
  <2>3. graph'.next <= wave'.end /\ wave'.end <= n /\ wave'.pushed = 0
    BY <1>i, <1>t, <2>1, <2>2 DEF WaveCursorInv
  <2>4. QED BY <2>1, <2>2, <2>3 DEF WaveCursorInv
<1>4. CASE EndScan
  <2>1. pc = "scan" /\ pc' = "read" /\ graph.next = wave.end /\ UNCHANGED wave
    BY <1>4, PcOf DEF EndScan, expansion
  <2>2. QED BY <1>i, <2>1 DEF WaveCursorInv
<1>5. CASE (\E r \in Readers : ReadOne(r)) \/ JoinReader
  <2>1. pc = "read" /\ pc' = "read"
    BY <1>5, PcOf
  <2>u. UNCHANGED wave
    <3>1. ASSUME NEW r \in Readers, ReadOne(r) PROVE UNCHANGED wave
      BY <3>1 DEF ReadOne
    <3>2. ASSUME JoinReader PROVE UNCHANGED wave
      BY <3>2 DEF JoinReader
    <3>3. QED BY <1>5, <3>1, <3>2
  <2>2. QED BY <1>i, <2>1, <2>u DEF WaveCursorInv
<1>6. CASE SortResults \/ ReadAll
  <2>1. pc = "read" /\ pc' = "push" /\ UNCHANGED wave
    BY <1>6, PcOf DEF SortResults, ReadAll
  <2>2. wave.pushed = 0 /\ wave.use = 0
    BY <1>i, <2>1 DEF WaveCursorInv
  <2>3. QED BY <1>t, <2>1, <2>2 DEF WaveCursorInv
<1>7. CASE PushNext
  <2>1. /\ pc = "push" /\ pc' = "push" /\ wave.pushed < Len(wave.found)
        /\ wave'.use = wave.use /\ wave'.found = wave.found /\ wave'.pushed = wave.pushed + 1
    BY <1>7, <1>t, PcOf, WaveFields DEF PushNext
  <2>2. wave'.use = 0 /\ wave'.pushed <= Len(wave'.found)
    BY <1>i, <1>t, <2>1 DEF WaveCursorInv
  <2>3. QED BY <2>1, <2>2 DEF WaveCursorInv
<1>8. CASE EndWave
  <2>1. pc' = "graph" /\ wave' = NoWave
    BY <1>8, PcOf DEF EndWave
  <2>2. NoWave.use = 0
    BY DEF NoWave
  <2>3. QED BY <2>1, <2>2 DEF WaveCursorInv
<1>9. CASE ~ (\/ OpenWave \/ ScanUse \/ NextSource \/ EndScan \/ (\E r \in Readers : ReadOne(r))
              \/ JoinReader \/ SortResults \/ ReadAll \/ PushNext \/ EndWave)
  <2>1. pc \notin {"scan", "read", "push"} /\ pc' \notin {"scan", "read", "push"}
    BY <1>9, PcOf DEF Next, Step
  <2>2. UNCHANGED wave
    BY <1>9, Frame
  <2>3. QED BY <1>i, <2>1, <2>2 DEF WaveCursorInv
<1>10. QED BY <1>1, <1>2, <1>3, <1>4, <1>5, <1>6, <1>7, <1>8, <1>9

LEMMA RoundStep ==
    ASSUME BaseInv, Next
    PROVE  RoundInv'
<1>t. /\ Len(sources) \in Nat /\ before \in Nat /\ scanned \in Nat /\ graph.next \in Nat
      /\ before <= Len(sources) /\ scanned <= Len(sources) /\ Typed /\ CursorInv
  BY FieldTypes DEF BaseInv, CursorInv, BoundsInv
<1>i. RoundInv
  BY DEF BaseInv, CursorInv
<1>1. (InGraph \/ pc = "references" => before <= scanned)'
  <2>1. CASE EndPackages
    <3>1. before' = before /\ scanned' = Len(sources)
      BY <2>1 DEF EndPackages, list
    <3>2. QED BY <1>t, <3>1
  <2>2. CASE ~ EndPackages /\ (InGraph \/ pc = "references")'
    <3>1. InGraph \/ pc = "references"
      BY <2>2, PcOf DEF Next, Step, InGraph
    <3>2. ~ BeginRound
      BY <3>1, PcOf DEF InGraph
    <3>3. QED BY <1>i, <2>2, <3>1, <3>2, Frame DEF RoundInv
  <2>3. QED BY <2>1, <2>2
<1>2. (pc = "references" => scanned <= graph.next)'
  <2>1. CASE EndGraph
    <3>1. graph.next = Len(sources) /\ scanned' = scanned /\ ~ NextSource
      BY <2>1, PcOf DEF EndGraph, packages
    <3>2. QED BY <1>t, <3>1, GraphFields
  <2>2. CASE ~ EndGraph /\ pc' = "references"
    <3>1. pc = "references"
      BY <2>2, PcOf DEF Next, Step
    <3>2. ~ EndPackages /\ ~ NextSource
      BY <3>1, PcOf
    <3>3. QED BY <1>i, <1>t, <3>1, <3>2, Frame, GraphFields DEF RoundInv
  <2>3. QED BY <2>1, <2>2
<1>3. (loading # <<>> => pc \in {"types", "references"})'
  <2>1. CASE TypePackage \/ LoadReference \/ ScanReferences
    BY <2>1, PcOf
  <2>2. CASE ReadRoots
    <3>1. pc' = "types" \/ UNCHANGED loading
      BY <2>2 DEF ReadRoots
    <3>2. QED BY <1>i, <2>2, <3>1, PcOf DEF RoundInv
  <2>3. CASE EndTypePackages \/ EndRound
    BY <2>3 DEF EndTypePackages, EndRound, AtDirectives, list
  <2>4. CASE ~ (TypePackage \/ LoadReference \/ ScanReferences \/ ReadRoots \/ EndTypePackages \/ EndRound)
    <3>1. UNCHANGED loading
      BY <2>4, Frame
    <3>2. pc \in {"types", "references"} => pc' = pc
      BY <2>4, PcOf DEF Next, Step
    <3>3. QED BY <1>i, <3>1, <3>2 DEF RoundInv
  <2>5. QED BY <2>1, <2>2, <2>3, <2>4
<1>4. (pc = "done" => scanned = Len(sources))'
  <2>1. CASE EndRound /\ pc' = "done"
    <3>1. Len(sources) = before /\ UNCHANGED <<sources, scanned>>
      BY <2>1 DEF EndRound, Settled, list, packages
    <3>2. before <= scanned
      BY <1>i, <2>1, PcOf DEF RoundInv
    <3>3. QED BY <1>t, <3>1, <3>2
  <2>2. CASE ~ EndRound /\ pc' = "done"
    <3>1. Terminated
      BY <2>2, PcOf DEF Next, Step
    <3>2. QED BY <1>i, <2>2, <3>1 DEF RoundInv, Terminated, vars, list, packages
  <2>3. QED BY <2>1, <2>2
<1>5. QED BY <1>1, <1>2, <1>3, <1>4 DEF RoundInv

LEMMA RootsStep ==
    ASSUME BaseInv, Next
    PROVE  RootsInv'
<1>i. RootsInv
  BY DEF BaseInv, CursorInv
<1>1. CASE ReadRoots
  <2>1. world' = world
    BY SourcesStep
  <2>2. CASE UNCHANGED sources /\ pc' = "failed"
    BY <1>1, <1>i, <2>2, PcOf DEF RootsInv
  <2>3. CASE Files(sources') = ToSet(world.roots) /\ pc' = "types"
    BY <2>1, <2>3 DEF RootsInv
  <2>4. QED BY <1>1, <2>2, <2>3, RootSources
<1>2. CASE ~ ReadRoots
  <2>1. pc' \in {"roots", "failed"} => pc \in {"roots", "failed"} /\ UNCHANGED sources
    BY <1>2, PcOf DEF Next, Step, Terminated, vars, list
  <2>2. pc' \notin {"roots", "failed"} => pc \notin {"roots", "failed"}
    BY <1>2, PcOf DEF Next, Step
  <2>3. world' = world /\ Files(sources) \subseteq Files(sources')
    BY SourcesStep, GrowsStep
  <2>4. QED BY <1>i, <2>1, <2>2, <2>3 DEF RootsInv
<1>3. QED BY <1>1, <1>2

LEMMA CursorStep ==
    ASSUME BaseInv, Next
    PROVE  CursorInv'
BY PcStep, BoundsStep, PackageCursorStep, WaveCursorStep, RoundStep, RootsStep DEF BaseInv, CursorInv

-----------------------------------------------------------------------------
(* What the import graph knows. *)

LEMMA NoneUnpushable ==
    ASSUME BaseInv, pc \notin {"scan", "read", "push"}
    PROVE  Unpushable = {}
<1>1. wave = NoWave
  BY DEF BaseInv, CursorInv, WaveCursorInv
<1>2. wave.found = <<>> /\ wave.pushed = 0
  BY <1>1 DEF NoWave
<1>3. Len(wave.found) = 0
  BY <1>2
<1>4. (wave.pushed + 1)..Len(wave.found) = {}
  BY <1>2, <1>3
<1>5. QED BY <1>4 DEF Unpushable

\* Pushing takes a file from those to push, which are distinct.
LEMMA PushedUnpushable ==
    ASSUME BaseInv, PushNext
    PROVE  /\ Unpushable = Unpushable' \cup {wave.found[wave.pushed + 1]}
           /\ wave.found[wave.pushed + 1] \notin Unpushable'
<1> DEFINE p == wave.pushed
           n == Len(wave.found)
<1>1. wave'.pushed = p + 1 /\ wave'.found = wave.found
  BY WaveFields DEF BaseInv
<1>2. p \in Nat /\ n \in Nat /\ p + 1 \in 1..n
  BY PushedFile, FieldTypes DEF BaseInv
<1>3. \A k, l \in (p + 1)..n : wave.found[k] = wave.found[l] => k = l
  BY DEF BaseInv, KnownInv
<1>4. (p + 1)..n = {p + 1} \cup ((p + 1) + 1)..n /\ p + 1 \notin ((p + 1) + 1)..n
  BY <1>2
<1>5. Unpushable = {wave.found[k] : k \in (p + 1)..n}
      /\ Unpushable' = {wave.found[k] : k \in ((p + 1) + 1)..n}
  BY <1>1 DEF Unpushable
<1> HIDE DEF p, n
<1>6. Unpushable = Unpushable' \cup {wave.found[p + 1]}
  BY <1>4, <1>5
<1>7. ASSUME NEW k \in ((p + 1) + 1)..n
      PROVE  wave.found[k] # wave.found[p + 1]
  BY <1>3, <1>4, <1>7
<1>8. wave.found[p + 1] \notin Unpushable'
  BY <1>5, <1>7
<1>9. QED BY <1>6, <1>8 DEF p

\* Scanning adds the file it finds.
LEMMA ScannedUnpushable ==
    ASSUME BaseInv, ScanUse
    PROVE  LET f == ScannedUses[wave.use + 1].local
           IN  \/ /\ f = None \/ f \in graph.known
                  /\ Unpushable' = Unpushable /\ graph'.known = graph.known
                  /\ wave'.found = wave.found
               \/ /\ f \in File \ graph.known
                  /\ Unpushable' = Unpushable \cup {f} /\ graph'.known = graph.known \cup {f}
                  /\ wave'.found = Append(wave.found, f)
<1> DEFINE f == ScannedUses[wave.use + 1].local
           n == Len(wave.found)
<1>1. wave'.pushed = wave.pushed /\ wave.pushed \in Nat /\ n \in Nat /\ wave.found \in Seq(File)
  BY WaveFields, FieldTypes DEF BaseInv
<1>2. CASE wave'.found = wave.found
  BY <1>1, <1>2, ScannedFile DEF Unpushable, BaseInv
<1>3. CASE /\ f \in File \ graph.known
           /\ wave'.found = Append(wave.found, f) /\ graph'.known = graph.known \cup {f}
  <2>1. wave.pushed = 0
    BY PcOf DEF BaseInv, CursorInv, WaveCursorInv, ScanUse, Scanning
  <2>2. /\ Len(wave'.found) = n + 1
        /\ \A k \in 1..n : wave'.found[k] = wave.found[k]
        /\ wave'.found[n + 1] = f
    BY <1>1, <1>3, AppendOne
  <2> HIDE DEF f, n
  <2>3. Unpushable = {wave.found[k] : k \in 1..n}
    BY <2>1 DEF Unpushable, n
  <2>4. Unpushable' = {wave'.found[k] : k \in 1..(n + 1)}
    BY <1>1, <2>1, <2>2 DEF Unpushable
  <2>5. 1..(n + 1) = 1..n \cup {n + 1}
    BY <1>1 DEF n
  <2>6. Unpushable' = Unpushable \cup {f}
    BY <2>2, <2>3, <2>4, <2>5
  <2>7. QED BY <1>3, <2>6 DEF f
<1>4. QED BY <1>2, <1>3, ScannedFile DEF BaseInv

\* No other step changes what is to be pushed.
LEMMA UnpushableFrame ==
    ASSUME BaseInv, Next, ~ (ScanUse \/ PushNext)
    PROVE  Unpushable' = Unpushable
<1>1. CASE OpenWave
  <2>1. Unpushable = {}
    BY <1>1, NoneUnpushable, PcOf
  <2>2. wave'.found = <<>> /\ wave'.pushed = 0
    BY <1>1, WaveFields DEF BaseInv
  <2>3. Len(wave'.found) = 0
    BY <2>2
  <2>4. Unpushable' = {}
    BY <2>2, <2>3 DEF Unpushable
  <2>5. QED BY <2>1, <2>4
<1>2. CASE NextSource
  BY <1>2, WaveFields DEF Unpushable, BaseInv
<1>3. CASE EndWave
  <2>1. wave.pushed = Len(wave.found) /\ wave' = NoWave
    BY <1>3 DEF EndWave
  <2>2. wave'.found = <<>> /\ wave'.pushed = 0
    BY <2>1 DEF NoWave
  <2>3. Len(wave'.found) = 0
    BY <2>2
  <2>4. Unpushable' = {}
    BY <2>2, <2>3 DEF Unpushable
  <2>5. Unpushable = {}
    BY <2>1, FieldTypes DEF Unpushable, BaseInv
  <2>6. QED BY <2>4, <2>5
<1>4. CASE ~ (OpenWave \/ NextSource \/ EndWave)
  BY <1>4, Frame DEF Unpushable
<1>5. QED BY <1>1, <1>2, <1>3, <1>4

\* In the graph's part of prepare, only PushNext appends.
LEMMA GraphAppends ==
    ASSUME BaseInv, Next, InGraph, ~ PushNext
    PROVE  UNCHANGED sources
<1>1. ~ (TypePackage \/ LoadReference \/ ResolvePackage \/ ReadRoots)
  BY PcOf DEF InGraph
<1>2. QED BY <1>1, SourcesFrame

LEMMA KnownGrows ==
    ASSUME BaseInv, Next
    PROVE  graph.known \subseteq graph'.known
<1>1. CASE ScanUse
  BY <1>1, ScannedUnpushable
<1>2. CASE ~ ScanUse
  BY <1>2, GraphFields DEF BaseInv
<1>3. QED BY <1>1, <1>2

LEMMA KnownStep ==
    ASSUME BaseInv, Next
    PROVE  KnownInv'
<1> DEFINE n == Len(sources)
<1>t. /\ n \in Nat /\ DOMAIN sources = 1..n /\ graph.synced \in Nat /\ graph.synced <= n
      /\ Typed /\ CursorInv /\ KnownInv
  BY FieldTypes DEF BaseInv, CursorInv, BoundsInv
<1>g. graph.known \subseteq graph'.known /\ Grows /\ Files(sources) \subseteq Files(sources')
      /\ world' = world
  BY KnownGrows, GrowsStep, SourcesStep
<1>p. PushNext => Files(sources') \subseteq Files(sources) \cup {wave.found[wave.pushed + 1]}
  <2> SUFFICES ASSUME PushNext PROVE Files(sources') \subseteq Files(sources) \cup {wave.found[wave.pushed + 1]}
    OBVIOUS
  <2>1. "graph" \in Origin
    BY DEF Origin
  <2>2. QED BY <1>t, <2>1, PushedFile, AppendedSources
<1>1. \A i \in 1..graph'.synced : sources'[i].file \in graph'.known
  <2>1. CASE EndGraph
    <3>1. InGraph /\ UNCHANGED sources /\ graph'.synced = n
      BY <1>t, <2>1, PcOf, GraphFields DEF InGraph, EndGraph, list
    <3>2. Files(sources) \subseteq graph.known
      BY <1>t, <3>1 DEF KnownInv
    <3>3. QED BY <1>g, <1>t, <3>1, <3>2 DEF Files
  <2>2. CASE ~ EndGraph
    <3>1. graph'.synced = graph.synced
      BY <1>t, <2>2, GraphFields
    <3>2. \A i \in 1..graph.synced : sources'[i] = sources[i]
      BY <1>g, <1>t DEF Grows
    <3>3. QED BY <1>g, <1>t, <3>1, <3>2 DEF KnownInv
  <2>3. QED BY <2>1, <2>2
<1>2. InGraph' => Files(sources') \subseteq graph'.known
  <2> SUFFICES ASSUME InGraph' PROVE Files(sources') \subseteq graph'.known
    OBVIOUS
  <2>1. CASE EndPackages
    <3>1. UNCHANGED sources
      BY <2>1 DEF EndPackages, list
    <3>2. graph'.known = graph.known \cup {sources[i].file : i \in (graph.synced + 1)..n}
      BY <1>t, <2>1, GraphFields
    <3>3. ASSUME NEW i \in 1..n PROVE sources[i].file \in graph'.known
      <4>1. CASE i \in 1..graph.synced
        BY <1>g, <1>t, <4>1 DEF KnownInv
      <4>2. CASE i \in (graph.synced + 1)..n
        BY <3>2, <4>2
      <4>3. QED BY <1>t, <3>3, <4>1, <4>2
    <3>4. QED BY <1>t, <3>1, <3>3 DEF Files
  <2>2. CASE PushNext
    <3>1. Files(sources) \subseteq graph.known /\ wave.found[wave.pushed + 1] \in graph.known
      BY <1>t, <2>2, PcOf, PushedFile DEF KnownInv, InGraph
    <3>2. QED BY <1>g, <1>p, <2>2, <3>1
  <2>3. CASE ~ (EndPackages \/ PushNext)
    <3>1. InGraph
      BY <2>3, PcOf DEF Next, Step, InGraph
    <3>2. QED BY <1>g, <1>t, <2>3, <3>1, GraphAppends DEF KnownInv
  <2>4. QED BY <2>1, <2>2, <2>3
<1>3. graph'.known \cap world'.readable \subseteq Files(sources') \cup Unpushable'
  <2>i. graph.known \cap world.readable \subseteq Files(sources) \cup Unpushable
    BY <1>t DEF KnownInv
  <2>1. CASE EndPackages
    <3>1. graph'.known = graph.known \cup {sources[i].file : i \in (graph.synced + 1)..n}
      BY <1>t, <2>1, GraphFields
    <3>2. \A i \in (graph.synced + 1)..n : sources[i].file \in Files(sources)
      BY <1>t DEF Files
    <3>3. Unpushable' = Unpushable
      BY <2>1, UnpushableFrame, PcOf DEF ScanUse, Scanning, PushNext, EndPackages
    <3>4. QED BY <1>g, <2>i, <3>1, <3>2, <3>3
  <2>2. CASE ScanUse
    BY <1>g, <2>i, <2>2, ScannedUnpushable
  <2>3. CASE PushNext
    <3> DEFINE f == wave.found[wave.pushed + 1]
    <3>1. "graph" \in Origin /\ graph'.known = graph.known
      BY <1>t, <2>3, PcOf, GraphFields DEF Origin, ScanUse, Scanning, EndPackages
    <3>2. f \notin world.readable \/ f \in Files(sources')
      BY <1>t, <2>3, <3>1, PushedFile, AppendedSources
    <3> HIDE DEF f
    <3>3. Unpushable = Unpushable' \cup {f}
      BY <2>3, PushedUnpushable DEF f
    <3>4. QED BY <1>g, <2>i, <3>1, <3>2, <3>3
  <2>4. CASE ~ (EndPackages \/ ScanUse \/ PushNext)
    BY <1>g, <1>t, <2>i, <2>4, GraphFields, UnpushableFrame
  <2>5. QED BY <2>1, <2>2, <2>3, <2>4
<1>4. Unpushable' \subseteq graph'.known \ Files(sources')
  <2>i. Unpushable \subseteq graph.known \ Files(sources)
    BY <1>t DEF KnownInv
  <2>1. CASE ScanUse
    <3>1. InGraph /\ ~ PushNext
      BY <2>1, PcOf DEF InGraph
    <3>2. Files(sources) \subseteq graph.known /\ UNCHANGED sources
      BY <1>t, <3>1, GraphAppends DEF KnownInv
    <3>3. QED BY <2>i, <2>1, <3>2, ScannedUnpushable
  <2>2. CASE PushNext
    BY <1>g, <1>p, <2>i, <2>2, PushedUnpushable
  <2>3. CASE ~ (ScanUse \/ PushNext)
    <3>1. Unpushable' = Unpushable
      BY <2>3, UnpushableFrame
    <3>2. CASE InGraph
      BY <1>g, <2>i, <2>3, <3>1, <3>2, GraphAppends
    <3>3. CASE ~ InGraph
      BY <3>1, <3>3, NoneUnpushable DEF InGraph
    <3>4. QED BY <3>2, <3>3
  <2>4. QED BY <2>1, <2>2, <2>3
<1>5. \A k, l \in (wave'.pushed + 1)..Len(wave'.found) : wave'.found[k] = wave'.found[l] => k = l
  <2>i. /\ \A k, l \in (wave.pushed + 1)..Len(wave.found) : wave.found[k] = wave.found[l] => k = l
        /\ wave.pushed \in Nat /\ Len(wave.found) \in Nat /\ wave.found \in Seq(File)
    BY <1>t, FieldTypes DEF KnownInv
  <2>1. CASE ScanUse
    <3> DEFINE f == ScannedUses[wave.use + 1].local
    <3>1. wave'.pushed = wave.pushed
      BY <1>t, <2>1, WaveFields
    <3>2. CASE wave'.found = wave.found
      BY <2>i, <3>1, <3>2
    <3>3. CASE wave'.found = Append(wave.found, f) /\ f \in File \ graph.known
      <4>1. /\ Len(wave'.found) = Len(wave.found) + 1
            /\ \A k \in 1..Len(wave.found) : wave'.found[k] = wave.found[k]
            /\ wave'.found[Len(wave.found) + 1] = f
        BY <2>i, <3>3, AppendOne
      <4>2. Unpushable \subseteq graph.known
        BY <1>t DEF KnownInv
      <4>3. \A k \in (wave.pushed + 1)..Len(wave.found) : wave.found[k] # f
        BY <3>3, <4>2 DEF Unpushable
      <4> HIDE DEF f
      <4> DEFINE p == wave.pushed + 1
                 n1 == Len(wave.found)
      <4>4. p \in Nat /\ n1 \in Nat /\ p >= 1
        BY <2>i
      <4> HIDE DEF p, n1
      <4> SUFFICES ASSUME NEW k \in p..(n1 + 1), NEW l \in p..(n1 + 1),
                          wave'.found[k] = wave'.found[l]
                   PROVE  k = l
        BY <3>1, <4>1 DEF p, n1
      <4>5. \A j \in p..n1 : wave'.found[j] = wave.found[j] /\ wave'.found[j] # f
        BY <4>1, <4>3, <4>4 DEF p, n1
      <4>6. wave'.found[n1 + 1] = f
        BY <4>1 DEF n1
      <4>7. CASE k \in p..n1 /\ l \in p..n1
        BY <2>i, <4>5, <4>7 DEF p, n1
      <4>8. (k = n1 + 1 \/ k \in p..n1) /\ (l = n1 + 1 \/ l \in p..n1)
        BY <4>4
      <4>9. QED BY <4>5, <4>6, <4>7, <4>8
    <3>4. QED BY <2>1, <3>2, <3>3, ScannedUnpushable
  <2>2. CASE PushNext
    <3>1. wave'.pushed = wave.pushed + 1 /\ wave'.found = wave.found
      BY <1>t, <2>2, WaveFields
    <3>2. \A k \in ((wave.pushed + 1) + 1)..Len(wave.found) : k \in (wave.pushed + 1)..Len(wave.found)
      BY <2>i
    <3>3. QED BY <2>i, <3>1, <3>2
  <2>3. CASE OpenWave \/ EndWave
    <3>1. wave'.found = <<>> /\ wave'.pushed = 0
      BY <1>t, <2>3, WaveFields DEF NoWave
    <3>2. Len(wave'.found) = 0
      BY <3>1
    <3>3. QED BY <3>1, <3>2
  <2>4. CASE NextSource
    BY <1>t, <2>i, <2>4, WaveFields
  <2>5. CASE ~ (ScanUse \/ PushNext \/ OpenWave \/ EndWave \/ NextSource)
    BY <2>i, <2>5, Frame
  <2>6. QED BY <2>1, <2>2, <2>3, <2>4, <2>5
<1>6. QED BY <1>1, <1>2, <1>3, <1>4, <1>5 DEF KnownInv

-----------------------------------------------------------------------------
(* The readers of a wave. *)

LEMMA ReadOneStep ==
    ASSUME BaseInv, NEW r \in Readers, ReadOne(r)
    PROVE  ReadInv'
<1> DEFINE i == reads.claimed + 1
           x == <<i, TextOf(wave.found[i])>>
           out == [reads.out EXCEPT ![r] = Append(@, x)]
           n == Len(wave.found)
<1>1. pc = "read" /\ pc' = "read" /\ reads.claimed < n /\ UNCHANGED <<world, wave>>
  BY DEF ReadOne, InParallel
<1>2. reads.claimed \in Nat /\ n \in Nat
  BY FieldTypes, ReadFieldTypes DEF BaseInv
<1>3. i \in 1..n /\ i \notin 1..reads.claimed /\ 1..i = 1..reads.claimed \cup {i}
  BY <1>1, <1>2
<1>4. reads' = [reads EXCEPT !.claimed = i, !.out = out]
  BY DEF ReadOne
<1>5. /\ reads.joined <= NumReaders
      /\ reads.joined > 0 => reads.claimed = n
      /\ OutInv /\ JoinInv
  BY <1>1 DEF BaseInv, ReadInv
<1>6. \A s \in Readers : /\ reads.out[s] \in Seq(Nat \X Text) /\ Len(reads.out[s]) \in Nat
                         /\ DOMAIN reads.out[s] = 1..Len(reads.out[s])
  BY ReadFieldTypes, LenProperties DEF BaseInv
<1>7. x \in Nat \X Text
  BY <1>2, <1>3, FieldTypes DEF TextOf, Text, BaseInv
<1> DEFINE m == Len(reads.out[r])
<1>x. x[1] = i /\ x[2] = TextOf(wave.found[i])
  OBVIOUS
<1> HIDE DEF x
<1>8. /\ DOMAIN Append(reads.out[r], x) = 1..(m + 1)
      /\ \A a \in 1..m : Append(reads.out[r], x)[a] = reads.out[r][a]
      /\ Append(reads.out[r], x)[m + 1] = x
  BY <1>6, <1>7, AppendOne
<1>9. /\ reads'.claimed = i /\ reads'.joined = reads.joined /\ reads'.results = reads.results
      /\ reads'.out[r] = Append(reads.out[r], x)
      /\ \A s \in Readers \ {r} : reads'.out[s] = reads.out[s]
  <2>1. reads.out \in [Readers -> Seq(Nat \X Text)]
    BY DEF BaseInv, Typed, ReadsTyped
  <2>2. /\ out[r] = Append(reads.out[r], x)
        /\ \A s \in Readers \ {r} : out[s] = reads.out[s]
    BY <2>1
  <2> HIDE DEF i, out
  <2>3. /\ reads'.claimed = i /\ reads'.joined = reads.joined /\ reads'.results = reads.results
        /\ reads'.out = out
    BY <1>4 DEF BaseInv, Typed, ReadsTyped
  <2>4. QED BY <2>2, <2>3
<1>10. reads.joined = 0
  <2>1. reads.joined \in Nat
    BY ReadFieldTypes DEF BaseInv
  <2>2. QED BY <1>1, <1>2, <1>5, <2>1
\* An entry of a reader is an old one, or it is the new one.
<1>11. ASSUME NEW s \in Readers, NEW a \in DOMAIN reads'.out[s]
       PROVE  \/ a \in DOMAIN reads.out[s] /\ reads'.out[s][a] = reads.out[s][a]
              \/ s = r /\ a = m + 1 /\ reads'.out[s][a] = x
  <2>1. CASE s = r
    <3>1. a \in 1..(m + 1)
      BY <1>8, <1>9, <1>11, <2>1
    <3>2. m \in Nat /\ DOMAIN reads.out[r] = 1..m
      BY <1>6
    <3> HIDE DEF m
    <3>3. QED BY <1>8, <1>9, <2>1, <3>1, <3>2
  <2>2. CASE s # r
    BY <1>9, <1>11, <2>2
  <2>3. QED BY <2>1, <2>2
<1>12. ASSUME NEW s \in Readers, NEW a \in DOMAIN reads.out[s]
       PROVE  a \in DOMAIN reads'.out[s] /\ reads'.out[s][a] = reads.out[s][a]
  <2>1. CASE s = r
    <3>1. m \in Nat /\ a \in 1..m
      BY <1>6, <1>12, <2>1
    <3> HIDE DEF m
    <3>2. QED BY <1>8, <1>9, <2>1, <3>1
  <2>2. CASE s # r
    BY <1>9, <1>12, <2>2
  <2>3. QED BY <2>1, <2>2
<1>13. m + 1 \in DOMAIN reads'.out[r] /\ reads'.out[r][m + 1] = x
  <2>1. m \in Nat
    BY <1>6
  <2> HIDE DEF m
  <2>2. QED BY <1>8, <1>9, <2>1
<1> HIDE DEF i, m, n, out
<1>14. OutInv'
  <2>1. ASSUME NEW s \in Readers, NEW a \in DOMAIN reads'.out[s]
        PROVE  /\ reads'.out[s][a][1] \in 1..i
               /\ reads'.out[s][a][2] = TextOf(wave.found[reads'.out[s][a][1]])
    BY <1>3, <1>5, <1>11, <1>x, <2>1 DEF OutInv
  <2>2. ASSUME NEW j \in 1..i
        PROVE  \E s \in Readers : \E a \in DOMAIN reads'.out[s] : reads'.out[s][a][1] = j
    <3>1. CASE j = i
      BY <1>13, <1>x, <3>1
    <3>2. CASE j \in 1..reads.claimed
      <4>1. PICK s \in Readers : \E a \in DOMAIN reads.out[s] : reads.out[s][a][1] = j
        BY <1>5, <3>2 DEF OutInv
      <4>2. QED BY <1>12, <4>1
    <3>3. QED BY <1>3, <2>2, <3>1, <3>2
  <2>3. ASSUME NEW s \in Readers, NEW t \in Readers,
               NEW a \in DOMAIN reads'.out[s], NEW b \in DOMAIN reads'.out[t],
               reads'.out[s][a][1] = reads'.out[t][b][1]
        PROVE  s = t /\ a = b
    <3>1. \A q \in Readers : \A c \in DOMAIN reads.out[q] : reads.out[q][c][1] # i
      BY <1>3, <1>5 DEF OutInv
    <3>2. CASE a \in DOMAIN reads.out[s] /\ b \in DOMAIN reads.out[t]
      BY <1>5, <1>12, <2>3, <3>2 DEF OutInv
    <3>3. CASE s = r /\ a = m + 1 /\ reads'.out[s][a] = x /\ t = r /\ b = m + 1
      BY <3>3
    <3>4. CASE s = r /\ a = m + 1 /\ reads'.out[s][a] = x /\ b \in DOMAIN reads.out[t]
      BY <1>12, <1>x, <2>3, <3>1, <3>4
    <3>5. CASE t = r /\ b = m + 1 /\ reads'.out[t][b] = x /\ a \in DOMAIN reads.out[s]
      BY <1>12, <1>x, <2>3, <3>1, <3>5
    <3>6. QED BY <1>11, <2>3, <3>2, <3>3, <3>4, <3>5
  <2>4. reads'.claimed = i /\ wave'.found = wave.found /\ world' = world
    BY <1>1, <1>9
  <2>5. QED BY <2>1, <2>2, <2>3, <2>4 DEF OutInv, TextOf
<1>15. JoinInv'
  <2>1. reads'.joined = 0 /\ reads'.results = reads.results
    BY <1>9, <1>10
  <2>2. DOMAIN reads.results = {}
    BY <1>5, <1>10 DEF JoinInv
  <2>3. QED BY <2>1, <2>2 DEF JoinInv
<1>16. i <= n
  BY <1>2, <1>3
<1>17. reads'.joined <= NumReaders /\ ~ (reads'.joined > 0)
  BY <1>5, <1>9, <1>10
<1>18. QED BY <1>1, <1>9, <1>14, <1>15, <1>16, <1>17 DEF ReadInv, n

LEMMA JoinReaderStep ==
    ASSUME BaseInv, JoinReader
    PROVE  ReadInv'
<1> DEFINE q == reads.joined + 1
           R == reads.results
           T == reads.out[q]
<1>1. /\ pc = "read" /\ pc' = "read" /\ UNCHANGED <<world, wave>>
      /\ reads.claimed = Len(wave.found) /\ reads.joined < NumReaders
  BY DEF JoinReader, InParallel
<1>2. reads' = [reads EXCEPT !.joined = q, !.results = R \o T]
  BY DEF JoinReader
<1>3. /\ reads'.joined = q /\ reads'.results = R \o T /\ reads'.claimed = reads.claimed
      /\ reads'.out = reads.out
  BY <1>2 DEF BaseInv, Typed, ReadsTyped
<1>4. reads.joined \in Nat /\ NumReaders \in Nat /\ Readers = 1..NumReaders
  BY ReadFieldTypes, ProjectLoaderAssumption DEF BaseInv, Readers
<1>5. q \in Readers /\ q <= NumReaders /\ 1..q = 1..reads.joined \cup {q} /\ 1..q \subseteq Readers
      /\ q \notin 1..reads.joined
  BY <1>1, <1>4
<1>6. reads.claimed <= Len(wave.found) /\ OutInv /\ JoinInv
  BY <1>1 DEF BaseInv, ReadInv
<1>7. OutInv'
  BY <1>1, <1>3, <1>6 DEF OutInv, TextOf
<1>8. R \in Seq(Nat \X Text) /\ T \in Seq(Nat \X Text)
  BY <1>5, ReadFieldTypes DEF BaseInv
<1> DEFINE m == Len(R)
           k == Len(T)
<1>9. m \in Nat /\ k \in Nat /\ DOMAIN R = 1..m /\ DOMAIN T = 1..k
  BY <1>8, LenProperties
<1> HIDE DEF R, T
<1>10. /\ Len(R \o T) = m + k
       /\ \A x \in 1..(m + k) : (R \o T)[x] = IF x <= m THEN R[x] ELSE T[x - m]
       /\ R \o T \in Seq(Nat \X Text)
  BY <1>8, ConcatProperties
<1>11. DOMAIN (R \o T) = 1..(m + k)
  BY <1>10, LenProperties
<1> HIDE DEF m, k
<1> DEFINE Q == R \o T
<1>12. /\ \A x \in 1..m : x \in DOMAIN Q /\ Q[x] = R[x]
       /\ \A a \in 1..k : a + m \in DOMAIN Q /\ Q[a + m] = T[a]
       /\ \A x \in DOMAIN Q : x \in 1..m \/ (x - m \in 1..k /\ Q[x] = T[x - m] /\ x = (x - m) + m)
  BY <1>9, <1>10, <1>11, SMTT(30)
<1> HIDE DEF Q
<1>13. \A x \in DOMAIN R : \E r \in 1..reads.joined : \E a \in DOMAIN reads.out[r] : R[x] = reads.out[r][a]
  BY <1>6 DEF JoinInv, R
\* A result of the readers joined before is not one of this reader's.
<1>14. ASSUME NEW x \in 1..m, NEW a \in 1..k
       PROVE  R[x][1] # T[a][1]
  <2>1. PICK r \in 1..reads.joined : \E b \in DOMAIN reads.out[r] : R[x] = reads.out[r][b]
    BY <1>9, <1>13, <1>14
  <2>2. r \in Readers /\ r # q
    BY <1>5, <2>1
  <2>3. QED BY <1>5, <1>6, <1>9, <1>14, <2>1, <2>2 DEF OutInv, T
<1>15. ASSUME NEW x \in DOMAIN Q, NEW y \in DOMAIN Q, Q[x][1] = Q[y][1]
       PROVE  x = y
  <2>1. CASE x \in 1..m /\ y \in 1..m
    BY <1>6, <1>9, <1>12, <1>15, <2>1 DEF JoinInv, R
  <2>2. CASE x \in 1..m /\ y \notin 1..m
    BY <1>12, <1>14, <1>15, <2>2
  <2>3. CASE x \notin 1..m /\ y \in 1..m
    BY <1>12, <1>14, <1>15, <2>3
  <2>4. CASE x \notin 1..m /\ y \notin 1..m
    <3>1. /\ x - m \in 1..k /\ Q[x] = T[x - m] /\ x = (x - m) + m
          /\ y - m \in 1..k /\ Q[y] = T[y - m] /\ y = (y - m) + m
      BY <1>12, <1>15, <2>4
    <3>2. x - m = y - m
      BY <1>5, <1>6, <1>9, <1>15, <3>1, SMTT(30) DEF OutInv, T
    <3>3. QED BY <3>1, <3>2
  <2>5. QED BY <2>1, <2>2, <2>3, <2>4
<1>16. ASSUME NEW x \in DOMAIN Q
       PROVE  \E r \in 1..q : \E a \in DOMAIN reads.out[r] : Q[x] = reads.out[r][a]
  <2>1. CASE x \in 1..m
    BY <1>5, <1>9, <1>12, <1>13, <2>1, SMTT(30)
  <2>2. CASE x \notin 1..m
    BY <1>5, <1>9, <1>12, <1>16, <2>2 DEF T
  <2>3. QED BY <2>1, <2>2
<1>17. ASSUME NEW r \in 1..q, NEW a \in DOMAIN reads.out[r]
       PROVE  \E x \in DOMAIN Q : Q[x] = reads.out[r][a]
  <2>1. CASE r = q
    BY <1>9, <1>12, <1>17, <2>1 DEF T
  <2>2. CASE r \in 1..reads.joined
    <3>1. PICK x \in DOMAIN R : R[x] = reads.out[r][a]
      BY <1>6, <1>17, <2>2 DEF JoinInv, R
    <3>2. QED BY <1>9, <1>12, <3>1
  <2>3. QED BY <1>5, <1>17, <2>1, <2>2
<1>18. reads'.results = Q
  BY <1>3 DEF Q
<1> HIDE DEF q
<1>19. JoinInv'
  BY <1>3, <1>15, <1>16, <1>17, <1>18 DEF JoinInv
<1>20. QED BY <1>1, <1>3, <1>5, <1>6, <1>7, <1>19 DEF ReadInv

LEMMA ReadStep ==
    ASSUME BaseInv, Next
    PROVE  ReadInv'
<1> DEFINE t == [i \in 1..Len(wave.found) |-> TextOf(wave.found[i])]
<1>t. Typed /\ CursorInv /\ ReadInv
  BY DEF BaseInv
<1>s. t \in Seq(Text) => Len(t) = Len(wave.found)
  BY LenProperties, FieldTypes DEF BaseInv
<1>1. CASE \E r \in Readers : ReadOne(r)
  BY <1>1, ReadOneStep
<1>2. CASE JoinReader
  BY <1>2, JoinReaderStep
<1>3. CASE SortResults \/ ReadAll
  <2>1. reads' = [reads EXCEPT !.texts = t] /\ t \in Seq(Text)
    <3>1. CASE SortResults
      BY <1>t, <3>1, SortResultsTexts
    <3>2. CASE ReadAll
      <4>1. \A i \in 1..Len(wave.found) : TextOf(wave.found[i]) \in Text
        BY <1>t, FieldTypes DEF TextOf, Text
      <4>2. Len(wave.found) \in Nat /\ DOMAIN wave.found = 1..Len(wave.found)
        BY <1>t, FieldTypes
      <4>3. t \in [1..Len(wave.found) -> Text]
        BY <4>1
      <4>4. t \in Seq(Text)
        BY <4>2, <4>3, SeqDef
      <4>5. QED BY <3>2, <4>2, <4>4 DEF ReadAll
    <3>3. QED BY <1>3, <3>1, <3>2
  <2>2. \A i \in 1..Len(wave.found) : t[i] = TextOf(wave.found[i])
    OBVIOUS
  <2>3. pc' = "push" /\ UNCHANGED <<world, wave>>
    BY <1>3 DEF SortResults, ReadAll
  <2> HIDE DEF t
  <2>4. reads'.texts = t
    BY <1>t, <2>1 DEF Typed, ReadsTyped
  <2>5. QED BY <1>s, <2>1, <2>2, <2>3, <2>4 DEF ReadInv, TextOf
<1>4. CASE PushNext
  <2>1. pc = "push" /\ pc' = "push" /\ UNCHANGED <<world, reads>>
    BY <1>4 DEF PushNext
  <2>2. wave'.found = wave.found
    BY <1>4, <1>t, WaveFields
  <2>3. QED BY <1>t, <2>1, <2>2 DEF ReadInv, TextOf
<1>5. CASE EndWave
  BY <1>5, PcOf DEF EndWave, ReadInv
<1>6. CASE EndScan
  <2>1. pc' = "read" /\ reads = NoReads /\ UNCHANGED <<world, wave, reads>>
    BY <1>6, <1>t, PcOf DEF EndScan, ReadInv, expansion
  <2>2. /\ reads'.claimed = 0 /\ reads'.joined = 0 /\ reads'.results = <<>>
        /\ \A r \in Readers : reads'.out[r] = <<>>
    BY <2>1 DEF NoReads
  <2>3. OutInv'
    BY <2>2 DEF OutInv
  <2>4. DOMAIN reads'.results = {}
    BY <2>2
  <2>5. JoinInv'
    BY <2>2, <2>4 DEF JoinInv
  <2>6. 0 <= Len(wave'.found) /\ 0 <= NumReaders /\ ~ (0 > 0)
    BY <1>t, <2>1, FieldTypes, ProjectLoaderAssumption
  <2>7. QED BY <2>1, <2>2, <2>3, <2>5, <2>6 DEF ReadInv
<1>7. CASE ~ (\/ (\E r \in Readers : ReadOne(r)) \/ JoinReader \/ SortResults \/ ReadAll
              \/ PushNext \/ EndWave \/ EndScan)
  <2>1. UNCHANGED reads
    BY <1>7 DEF Next, Step, ReadRoots, TypePackage, LoadReference, LoadNext, EndTypePackages,
       BeginRound, QueueUse, EndSource, ResolvePackage, EndPackages, OpenWave, ScanUse, NextSource,
       EndGraph, CollectPending, ScanReferences, EndRound, Terminated, vars, expansion
  <2>2. pc \notin {"read", "push"} /\ pc' \notin {"read", "push"}
    BY <1>7, PcOf DEF Next, Step
  <2>3. QED BY <1>t, <2>1, <2>2 DEF ReadInv
<1>8. QED BY <1>1, <1>2, <1>3, <1>4, <1>5, <1>6, <1>7

-----------------------------------------------------------------------------
(* What is to be loaded is named. *)

LEMMA NamedLoading ==
    ASSUME BaseInv, Next
    PROVE  \A f \in ToSet(loading') :
              IF pc' = "types" THEN f \in ToSet(world'.types)
              ELSE \E g \in Files(sources') : f \in ToSet(world'.refs[g])
<1>i. \A f \in ToSet(loading) : IF pc = "types" THEN f \in ToSet(world.types)
                                ELSE \E g \in Files(sources) : f \in ToSet(world.refs[g])
  BY DEF BaseInv, NamedInv
<1>g. world' = world /\ Files(sources) \subseteq Files(sources')
  BY SourcesStep, GrowsStep
<1>e. ToSet(<<>>) = {}
  BY DEF ToSet
<1>1. CASE TypePackage \/ LoadReference
  <2>1. loading # <<>> /\ loading' = Tail(loading) /\ pc' = pc
    BY <1>1 DEF TypePackage, LoadReference, LoadNext
  <2>2. ToSet(loading') \subseteq ToSet(loading)
    BY <2>1, ToSetOfTail DEF BaseInv, Typed, ListTyped
  <2>3. QED BY <1>g, <1>i, <2>1, <2>2
<1>2. CASE ScanReferences
  <2>1. PICK i \in DOMAIN sources : loading' = world.refs[sources[i].text]
    BY <1>2 DEF ScanReferences
  <2>2. sources[i].text = sources[i].file /\ sources[i].file \in Files(sources)
    BY DEF BaseInv, OwnText, Files
  <2>3. QED BY <1>2, <1>g, <2>1, <2>2, PcOf
<1>3. CASE ReadRoots
  <2>1. (pc' = "types" /\ loading' = world.types) \/ (UNCHANGED loading /\ loading = <<>>)
    BY <1>3, PcOf DEF ReadRoots, BaseInv, CursorInv, RoundInv
  <2>2. QED BY <1>e, <1>g, <2>1
<1>4. CASE ~ (TypePackage \/ LoadReference \/ ScanReferences \/ ReadRoots)
  <2>1. UNCHANGED loading
    BY <1>4, Frame
  <2>2. CASE loading = <<>>
    BY <1>e, <2>1, <2>2
  <2>3. CASE loading # <<>>
    <3>1. pc \in {"types", "references"}
      BY <2>3 DEF BaseInv, CursorInv, RoundInv
    <3>2. ~ EndTypePackages /\ ~ EndRound
      BY <2>3 DEF EndTypePackages, EndRound, AtDirectives
    <3>3. pc' = pc
      BY <1>4, <3>1, <3>2, PcOf DEF Next, Step
    <3>4. QED BY <1>g, <1>i, <2>1, <3>3
  <2>4. QED BY <2>2, <2>3
<1>5. QED BY <1>1, <1>2, <1>3, <1>4

LEMMA NamedUnpushable ==
    ASSUME BaseInv, Next
    PROVE  \A f \in Unpushable' : \E g \in Files(sources') :
              \E u \in ToSet(world'.uses[g]) : u.local = f
<1>i. \A f \in Unpushable : \E g \in Files(sources) : \E u \in ToSet(world.uses[g]) : u.local = f
  BY DEF BaseInv, NamedInv
<1>g. world' = world /\ Files(sources) \subseteq Files(sources')
  BY SourcesStep, GrowsStep
<1>1. CASE ScanUse
  <2> DEFINE s == sources[graph.next + 1]
             u == ScannedUses[wave.use + 1]
  <2>1. graph.next + 1 \in DOMAIN sources /\ wave.use + 1 \in 1..Len(ScannedUses)
    BY <1>1, ScannedPlace DEF BaseInv
  <2>2. s.file \in Files(sources) /\ s.text = s.file
    BY <2>1 DEF BaseInv, OwnText, Files
  <2>3. wave.use + 1 \in DOMAIN UsesOf(s)
    BY <2>1, UsesFacts DEF BaseInv, ScannedUses
  <2>4. u \in ToSet(world.uses[s.file])
    BY <2>2, <2>3 DEF ToSet, ScannedUses, UsesOf
  <2>5. Unpushable' \subseteq Unpushable \cup {u.local}
    BY <1>1, ScannedUnpushable
  <2> HIDE DEF s, u
  <2>6. QED BY <1>g, <1>i, <2>2, <2>4, <2>5
<1>2. CASE PushNext
  BY <1>2, <1>g, <1>i, PushedUnpushable
<1>3. CASE ~ (ScanUse \/ PushNext)
  BY <1>3, <1>g, <1>i, UnpushableFrame
<1>4. QED BY <1>1, <1>2, <1>3

LEMMA NamedRequests ==
    ASSUME BaseInv, Next
    PROVE  \A a \in DOMAIN requests' :
              /\ requests'[a].importer \in Files(sources')
              /\ requests'[a].use \in ToSet(world'.uses[requests'[a].importer])
<1>i. \A a \in DOMAIN requests : /\ requests[a].importer \in Files(sources)
                                 /\ requests[a].use \in ToSet(world.uses[requests[a].importer])
  BY DEF BaseInv, NamedInv
<1>g. world' = world /\ Files(sources) \subseteq Files(sources')
  BY SourcesStep, GrowsStep
<1>r. requests \in Seq(Request) /\ Len(requests) \in Nat /\ DOMAIN requests = 1..Len(requests)
  BY LenProperties DEF BaseInv, Typed, QueueTyped
<1>1. CASE BeginRound
  BY <1>1 DEF BeginRound
<1>2. CASE QueueUse
  <2> DEFINE s == sources[at.source + 1]
             u == ExtractedUses[at.use + 1]
             r == [importer |-> s.file, use |-> u]
  <2>1. /\ at.source + 1 \in DOMAIN sources /\ at.use + 1 \in 1..Len(ExtractedUses)
        /\ s.file \in File /\ u \in Use
    BY <1>2, ExtractedPlace DEF BaseInv
  <2>2. s.file \in Files(sources) /\ s.text = s.file
    BY <2>1 DEF BaseInv, OwnText, Files
  <2>3. at.use + 1 \in DOMAIN UsesOf(s)
    BY <2>1, UsesFacts DEF BaseInv, ExtractedUses
  <2>4. u \in ToSet(world.uses[s.file])
    BY <2>2, <2>3 DEF ToSet, ExtractedUses, UsesOf
  <2>5. UNCHANGED requests \/ requests' = Append(requests, r)
    BY <1>2 DEF QueueUse
  <2>6. r \in Request /\ r.importer = s.file /\ r.use = u
    BY <2>1 DEF Request
  <2> HIDE DEF s, u, r
  <2>7. CASE UNCHANGED requests
    BY <1>g, <1>i, <2>7
  <2>8. CASE requests' = Append(requests, r)
    <3>1. /\ DOMAIN requests' = 1..(Len(requests) + 1)
          /\ \A a \in 1..Len(requests) : requests'[a] = requests[a]
          /\ requests'[Len(requests) + 1] = r
      BY <1>r, <2>6, <2>8, AppendOne
    <3>2. \A a \in DOMAIN requests' : a \in DOMAIN requests \/ a = Len(requests) + 1
      BY <1>r, <3>1
    <3>3. QED BY <1>g, <1>i, <1>r, <2>2, <2>4, <2>6, <3>1, <3>2
  <2>9. QED BY <2>5, <2>7, <2>8
<1>3. CASE ResolvePackage
  <2>1. requests # <<>> /\ requests' = Tail(requests)
    BY <1>3 DEF ResolvePackage
  <2>2. \A a \in DOMAIN requests' : a + 1 \in DOMAIN requests /\ requests'[a] = requests[a + 1]
    BY <1>r, <2>1, HeadAndTail
  <2>3. QED BY <1>g, <1>i, <2>2
<1>4. CASE ~ (BeginRound \/ QueueUse \/ ResolvePackage)
  BY <1>4, <1>g, <1>i, Frame
<1>5. QED BY <1>1, <1>2, <1>3, <1>4

LEMMA BaseInit == Init => BaseInv
<1> SUFFICES ASSUME Init PROVE BaseInv
  OBVIOUS
<1>1. Typed
  BY TypedInit
<1>2. DOMAIN sources = {} /\ Len(sources) = 0 /\ Files(sources) = {}
  BY DEF Init, Files
<1>3. LoadedOnce /\ OwnText
  BY <1>2 DEF LoadedOnce, OwnText
<1>4. wave.use = 0 /\ wave.found = <<>> /\ wave.pushed = 0 /\ wave = NoWave
  BY DEF Init, NoWave
<1>5. PcInv /\ PackageCursorInv /\ WaveCursorInv /\ RoundInv /\ RootsInv
  BY <1>4 DEF Init, PcInv, PackageCursorInv, WaveCursorInv, RoundInv, RootsInv, InGraph
<1>6. BoundsInv
  BY <1>2 DEF Init, BoundsInv
<1>7. Len(wave.found) = 0
  BY <1>4
<1>8. Unpushable = {} /\ (wave.pushed + 1)..Len(wave.found) = {}
  BY <1>4, <1>7 DEF Unpushable
<1>9. KnownInv
  BY <1>2, <1>8 DEF KnownInv, Init, InGraph
<1>10. ReadInv
  BY DEF ReadInv, Init
<1>11. NamedInv
  BY <1>8 DEF NamedInv, Init, ToSet
<1>12. QED BY <1>1, <1>3, <1>5, <1>6, <1>9, <1>10, <1>11 DEF BaseInv, CursorInv

LEMMA BaseStep ==
    ASSUME BaseInv, Next
    PROVE  BaseInv'
<1>1. NamedInv'
  BY NamedLoading, NamedUnpushable, NamedRequests DEF NamedInv
<1>2. Typed'
  BY TypedStep DEF BaseInv
<1>3. QED
  BY <1>1, <1>2, LoadedOnceStep, CursorStep, KnownStep, ReadStep DEF BaseInv

-----------------------------------------------------------------------------
(* Places: specifiers of sources, in the order of the sources. *)

LEMMA EarlierOrder ==
    ASSUME NEW a \in Nat \X Nat, NEW b \in Nat \X Nat, NEW c \in Nat \X Nat
    PROVE  /\ a = b \/ Earlier(a, b) \/ Earlier(b, a)
           /\ ~ Earlier(a, a)
           /\ ~ (Earlier(a, b) /\ Earlier(b, a))
           /\ Earlier(a, b) /\ Earlier(b, c) => Earlier(a, c)
BY DEF Earlier

LEMMA PlaceFacts ==
    ASSUME Typed, NEW p \in Places
    PROVE  /\ p \in Nat \X Nat /\ p = <<p[1], p[2]>> /\ p[1] \in Nat /\ p[2] \in Nat
           /\ p[1] \in 1..Len(sources) /\ p[1] \in DOMAIN sources
           /\ p[2] \in 1..Len(UsesOf(sources[p[1]]))
           /\ sources[p[1]].file \in File /\ sources[p[1]].text \in File
           /\ UseAt(p) \in Use /\ UseAt(p) \in ToSet(UsesOf(sources[p[1]]))
<1>1. PICK i \in DOMAIN sources : \E k \in DOMAIN UsesOf(sources[i]) : p = <<i, k>>
  BY DEF Places
<1>2. PICK k \in DOMAIN UsesOf(sources[i]) : p = <<i, k>>
  BY <1>1
<1>3. i \in 1..Len(sources) /\ Len(sources) \in Nat /\ i \in Nat
  BY FieldTypes
<1>4. k \in 1..Len(UsesOf(sources[i])) /\ Len(UsesOf(sources[i])) \in Nat /\ k \in Nat
      /\ UsesOf(sources[i])[k] \in Use /\ sources[i].file \in File /\ sources[i].text \in File
  BY UsesFacts
<1>5. p[1] = i /\ p[2] = k
  BY <1>2
<1>6. UseAt(p) = UsesOf(sources[i])[k]
  BY <1>5 DEF UseAt
<1>7. UseAt(p) \in ToSet(UsesOf(sources[i]))
  BY <1>6 DEF ToSet
<1>8. QED BY <1>2, <1>3, <1>4, <1>5, <1>6, <1>7

LEMMA PlaceIntro ==
    ASSUME Typed, NEW i \in DOMAIN sources, NEW k \in 1..Len(UsesOf(sources[i]))
    PROVE  <<i, k>> \in Places /\ UseAt(<<i, k>>) = UsesOf(sources[i])[k]
<1>1. k \in DOMAIN UsesOf(sources[i])
  BY UsesFacts
<1>2. QED BY <1>1 DEF Places, UseAt

\* As the list grows, its places keep what is at them and new ones come after them.
LEMMA PlacesGrow ==
    ASSUME BaseInv, BaseInv', Grows
    PROVE  /\ \A p \in Places : /\ p \in Places' /\ sources'[p[1]] = sources[p[1]]
                                /\ UseAt(p)' = UseAt(p)
           /\ \A p \in Places' : p \in Places \/ p[1] > Len(sources)
<1>1. ASSUME NEW p \in Places
      PROVE  p \in Places' /\ sources'[p[1]] = sources[p[1]] /\ UseAt(p)' = UseAt(p)
  <2>1. PICK i \in DOMAIN sources : \E k \in DOMAIN UsesOf(sources[i]) : p = <<i, k>>
    BY DEF Places
  <2>2. PICK k \in DOMAIN UsesOf(sources[i]) : p = <<i, k>>
    BY <2>1
  <2>3. i \in DOMAIN sources' /\ sources'[i] = sources[i] /\ world' = world
    BY LenProperties DEF Grows, BaseInv, Typed, ListTyped
  <2>4. p[1] = i /\ p[2] = k
    BY <2>2
  <2>5. k \in DOMAIN UsesOf(sources[i])'
    BY <2>2, <2>3 DEF UsesOf
  <2>6. p \in Places'
    BY <2>2, <2>3, <2>5 DEF Places
  <2>7. UseAt(p)' = UseAt(p)
    BY <2>3, <2>4 DEF UseAt, UsesOf
  <2>8. QED BY <2>3, <2>4, <2>6, <2>7
<1>2. ASSUME NEW p \in Places'
      PROVE  p \in Places \/ p[1] > Len(sources)
  <2>1. PICK i \in DOMAIN sources' : \E k \in DOMAIN UsesOf(sources[i])' : p = <<i, k>>
    BY DEF Places
  <2>2. PICK k \in DOMAIN UsesOf(sources[i])' : p = <<i, k>>
    BY <2>1
  <2>3. p[1] = i
    BY <2>2
  <2>4. i \in Nat /\ i >= 1 /\ Len(sources) \in Nat /\ DOMAIN sources = 1..Len(sources)
    BY LenProperties DEF BaseInv, Typed, ListTyped
  <2>5. CASE i \in DOMAIN sources
    <3>1. sources'[i] = sources[i] /\ world' = world
      BY <2>5 DEF Grows
    <3>2. k \in DOMAIN UsesOf(sources[i])
      BY <2>2, <3>1 DEF UsesOf
    <3>3. QED BY <2>2, <2>5, <3>2 DEF Places
  <2>6. CASE i \notin DOMAIN sources
    BY <2>3, <2>4, <2>6
  <2>7. QED BY <2>5, <2>6
<1>3. QED BY <1>1, <1>2

\* A first place stays the first.
LEMMA FirstStays ==
    ASSUME BaseInv, BaseInv', Grows, NEW S, NEW T, NEW p,
           S \subseteq Places, T \subseteq Places', \A q \in Places : q \in S <=> q \in T,
           IsFirst(p, S)
    PROVE  IsFirst(p, T)
<1>1. p \in S /\ p \in Places /\ p \in T
  BY DEF IsFirst
<1>2. p[1] \in Nat /\ p[1] <= Len(sources) /\ Len(sources) \in Nat
  BY <1>1, PlaceFacts, FieldTypes DEF BaseInv
<1>3. ASSUME NEW q \in T
      PROVE  q = p \/ Earlier(p, q)
  <2>1. CASE q \in Places
    BY <1>3, <2>1 DEF IsFirst
  <2>2. CASE q \notin Places
    <3>1. q[1] > Len(sources)
      BY <1>3, <2>2, PlacesGrow
    <3>2. q[1] \in Nat
      <4>1. PICK i \in DOMAIN sources' : \E k \in DOMAIN UsesOf(sources[i])' : q = <<i, k>>
        BY <1>3 DEF Places
      <4>2. i \in Nat
        BY LenProperties DEF BaseInv, Typed, ListTyped
      <4>3. QED BY <4>1, <4>2
    <3>3. p[1] < q[1]
      BY <1>2, <3>1, <3>2
    <3>4. QED BY <3>3 DEF Earlier
  <2>3. QED BY <2>1, <2>2
<1>4. QED BY <1>1, <1>3 DEF IsFirst

LEMMA FirstStaysInPlaces ==
    ASSUME BaseInv, BaseInv', Grows, NEW p
    PROVE  /\ \A f : IsFirst(p, Mentions(f)) => IsFirst(p, Mentions(f)')
           /\ \A n : IsFirst(p, Resolutions(n)) => IsFirst(p, Resolutions(n)')
           /\ \A r : IsFirst(p, PlacesOf(r)) => IsFirst(p, PlacesOf(r)')
<1>1. ASSUME NEW f, IsFirst(p, Mentions(f)) PROVE IsFirst(p, Mentions(f)')
  <2>1. Mentions(f) \subseteq Places /\ Mentions(f)' \subseteq Places'
    BY DEF Mentions
  <2>2. \A q \in Places : q \in Mentions(f) <=> q \in Mentions(f)'
    BY PlacesGrow DEF Mentions
  <2>3. QED BY <1>1, <2>1, <2>2, FirstStays
<1>2. ASSUME NEW n, IsFirst(p, Resolutions(n)) PROVE IsFirst(p, Resolutions(n)')
  <2>1. Resolutions(n) \subseteq Places /\ Resolutions(n)' \subseteq Places'
    BY DEF Resolutions
  <2>2. \A q \in Places : q \in Resolutions(n) <=> q \in Resolutions(n)'
    BY PlacesGrow DEF Resolutions
  <2>3. QED BY <1>2, <2>1, <2>2, FirstStays
<1>3. ASSUME NEW r, IsFirst(p, PlacesOf(r)) PROVE IsFirst(p, PlacesOf(r)')
  <2>1. PlacesOf(r) \subseteq Places /\ PlacesOf(r)' \subseteq Places'
    BY DEF PlacesOf
  <2>2. \A q \in Places : q \in PlacesOf(r) <=> q \in PlacesOf(r)'
    BY PlacesGrow DEF PlacesOf
  <2>3. QED BY <1>3, <2>1, <2>2, FirstStays
<1>4. QED BY <1>1, <1>2, <1>3

\* There is one first place, and First chooses it.
LEMMA FirstIsFirst ==
    ASSUME Typed, NEW S, S \subseteq Places, NEW p, IsFirst(p, S)
    PROVE  First(S) = p /\ \A q : IsFirst(q, S) => q = p
<1>1. \A q \in S : q \in Nat \X Nat
  BY PlaceFacts
<1>2. p \in S /\ \A q \in S \ {p} : Earlier(p, q)
  BY DEF IsFirst
<1>3. ASSUME NEW q \in S, \A b \in S \ {q} : Earlier(q, b)
      PROVE  q = p
  <2>1. CASE q # p
    <3>1. Earlier(q, p) /\ Earlier(p, q)
      BY <1>2, <1>3, <2>1
    <3>2. QED BY <1>1, <1>2, <1>3, <3>1, EarlierOrder
  <2>2. QED BY <2>1
<1>4. First(S) \in S /\ \A b \in S \ {First(S)} : Earlier(First(S), b)
  BY <1>2, Zenon DEF First
<1>5. First(S) = p
  BY <1>3, <1>4
<1>6. \A q : IsFirst(q, S) => q = p
  BY <1>3 DEF IsFirst
<1>7. QED BY <1>5, <1>6

\* What holds of a step, and which places the scanners have passed.
LEMMA StepFacts ==
    ASSUME BaseInv, Next
    PROVE  /\ BaseInv' /\ Grows /\ Files(sources) \subseteq Files(sources') /\ world' = world
           /\ \A p \in Places : /\ p \in Places' /\ sources'[p[1]] = sources[p[1]]
                                /\ UseAt(p)' = UseAt(p)
           /\ \A p \in Places' : p \in Places \/ p[1] > Len(sources)
           /\ \A p \in Places : KeyOf(p)' = KeyOf(p)
<1>1. BaseInv' /\ Grows /\ Files(sources) \subseteq Files(sources') /\ world' = world
  BY BaseStep, GrowsStep, SourcesStep
<1>2. QED BY <1>1, PlacesGrow DEF KeyOf

LEMMA PlacesOfNext ==
    ASSUME BaseInv, Next
    PROVE  \A p \in Places' : p[1] \in Nat /\ p[2] \in Nat /\ p[2] >= 1
<1> TAKE p \in Places'
<1>1. PICK i \in DOMAIN sources' : \E k \in DOMAIN UsesOf(sources[i])' : p = <<i, k>>
  BY DEF Places
<1>2. PICK k \in DOMAIN UsesOf(sources[i])' : p = <<i, k>>
  BY <1>1
<1>3. sources'[i] \in LoadedSource /\ i \in Nat
  BY StepFacts, ElementOfSeq, LenProperties DEF BaseInv, Typed, ListTyped
<1>4. world' = world /\ sources'[i].text \in File
  BY <1>3, StepFacts DEF LoadedSource
<1>5. UsesOf(sources[i])' \in Seq(Use)
  BY <1>4, WorldFacts DEF UsesOf, Typed, BaseInv
<1>6. k \in Nat /\ k >= 1
  BY <1>2, <1>5, LenProperties
<1>7. QED BY <1>2, <1>3, <1>6

\* Each scanner passes places one by one.
LEMMA SeenStep ==
    ASSUME BaseInv, Next
    PROVE  /\ \A p \in Places : Seen(p) => Seen(p)'
           /\ \A p \in Places' : Seen(p)' =>
                p \in Places /\ (Seen(p) \/ (ScanUse /\ p = <<graph.next + 1, wave.use + 1>>))
<1>t. /\ Len(sources) \in Nat /\ graph.next \in Nat /\ wave.use \in Nat /\ graph.next <= Len(sources)
      /\ Typed /\ CursorInv /\ BaseInv' /\ WaveCursorInv
      /\ \A p \in Places' : p \in Places \/ p[1] > Len(sources)
  BY FieldTypes, StepFacts DEF BaseInv, CursorInv, BoundsInv
<1>p. \A p \in Places : p[1] \in Nat /\ p[2] \in Nat /\ p[1] >= 1 /\ p[2] >= 1 /\ p = <<p[1], p[2]>>
                        /\ p[1] <= Len(sources) /\ p[2] <= Len(UsesOf(sources[p[1]]))
                        /\ Len(UsesOf(sources[p[1]])) \in Nat
  BY <1>t, PlaceFacts, UsesFacts
<1>1. CASE ScanUse
  <2>1. graph'.next = graph.next /\ wave'.use = wave.use + 1 /\ UNCHANGED sources
    <3>1. wave.use + 1 \in 1..Len(ScannedUses)
      BY <1>1, <1>t, ScannedPlace
    <3>2. wave.use # Len(ScannedUses)
      BY <1>t, <3>1
    <3>3. QED BY <1>1, <1>t, <3>2, GraphFields, WaveFields DEF NextSource, ScanUse, list
  <2>2. Places' = Places
    BY <2>1, StepFacts DEF Places, UsesOf
  <2>3. ASSUME NEW p \in Places PROVE Seen(p) => Seen(p)'
    BY <1>p, <1>t, <2>1, <2>3 DEF Seen
  <2>4. ASSUME NEW p \in Places, Seen(p)'
        PROVE  Seen(p) \/ p = <<graph.next + 1, wave.use + 1>>
    <3>1. p[1] <= graph.next \/ (p[1] = graph.next + 1 /\ p[2] <= wave.use + 1)
      BY <2>1, <2>4 DEF Seen
    <3>2. p[1] <= graph.next \/ (p[1] = graph.next + 1 /\ (p[2] <= wave.use \/ p[2] = wave.use + 1))
      BY <1>p, <1>t, <3>1
    <3>3. p = <<p[1], p[2]>>
      BY <1>p
    <3>4. QED BY <3>2, <3>3 DEF Seen
  <2>5. QED BY <1>1, <2>2, <2>3, <2>4
<1>2. CASE NextSource
  <2>1. /\ graph'.next = graph.next + 1 /\ wave'.use = 0 /\ UNCHANGED sources
        /\ wave.use = Len(UsesOf(sources[graph.next + 1]))
    BY <1>2, <1>t, GraphFields, WaveFields DEF NextSource, ScannedUses, list
  <2>2. Places' = Places
    BY <2>1, StepFacts DEF Places, UsesOf
  <2>3. ASSUME NEW p \in Places PROVE Seen(p) => Seen(p)'
    BY <1>p, <1>t, <2>1, <2>3 DEF Seen
  <2>4. ASSUME NEW p \in Places, Seen(p)' PROVE Seen(p)
    <3>1. p[1] <= graph.next \/ p[1] = graph.next + 1
      BY <1>p, <1>t, <2>1, <2>4 DEF Seen
    <3>2. p[1] = graph.next + 1 => p[2] <= wave.use
      BY <1>p, <2>1
    <3>3. QED BY <3>1, <3>2 DEF Seen
  <2>5. QED BY <2>2, <2>3, <2>4
<1>3. CASE ~ (ScanUse \/ NextSource)
  <2>1. graph'.next = graph.next /\ wave'.use = wave.use
    <3>1. CASE OpenWave
      BY <1>3, <1>t, <3>1, PcOf, GraphFields, WaveFields DEF WaveCursorInv
    <3>2. CASE EndWave
      <4>1. wave.use = 0
        BY <1>t, <3>2, PcOf DEF WaveCursorInv
      <4>2. QED BY <1>3, <1>t, <3>2, <4>1, GraphFields, WaveFields DEF NoWave
    <3>3. CASE PushNext
      BY <1>3, <1>t, <3>3, GraphFields, WaveFields
    <3>4. CASE ~ (OpenWave \/ EndWave \/ PushNext)
      BY <1>3, <1>t, <3>4, GraphFields, Frame
    <3>5. QED BY <3>1, <3>2, <3>3, <3>4
  <2>2. \A p : Seen(p)' <=> Seen(p)
    BY <2>1 DEF Seen
  <2>3. ASSUME NEW p \in Places', Seen(p) PROVE p \in Places
    <3>1. CASE UNCHANGED sources
      BY <2>3, <3>1, StepFacts DEF Places, UsesOf
    <3>2. CASE ~ UNCHANGED sources
      <4>1. ~ (pc = "scan")
        BY <1>3, <3>2, GraphAppends, PcOf DEF InGraph
      <4>2. wave.use = 0
        BY <1>t, <4>1 DEF WaveCursorInv
      <4>3. p[1] \in Nat /\ p[2] \in Nat /\ p[2] >= 1
        BY <2>3, PlacesOfNext
      <4>4. p[1] <= graph.next
        BY <2>3, <4>2, <4>3 DEF Seen
      <4>5. QED BY <1>t, <2>3, <4>3, <4>4
    <3>3. QED BY <3>1, <3>2
  <2>4. QED BY <2>2, <2>3
<1>4. QED BY <1>1, <1>2, <1>3

LEMMA CollectedStep ==
    ASSUME BaseInv, Next
    PROVE  /\ \A p \in Places : Collected(p) => Collected(p)'
           /\ \A p \in Places' : Collected(p)' =>
                p \in Places /\ (Collected(p) \/ (QueueUse /\ p = <<at.source + 1, at.use + 1>>))
<1> DEFINE n == Len(sources)
<1>t. /\ n \in Nat /\ at.source \in Nat /\ at.use \in Nat /\ at.end \in Nat /\ scanned \in Nat
      /\ scanned <= n /\ Typed /\ CursorInv /\ AtTyped
      /\ \A p \in Places' : p \in Places \/ p[1] > n
  BY FieldTypes, StepFacts DEF BaseInv, CursorInv, BoundsInv, Typed
<1>p. \A p \in Places : p[1] \in Nat /\ p[2] \in Nat /\ p[1] >= 1 /\ p[2] >= 1 /\ p = <<p[1], p[2]>>
                        /\ p[1] <= n /\ p[2] <= Len(UsesOf(sources[p[1]]))
                        /\ Len(UsesOf(sources[p[1]])) \in Nat
  BY <1>t, PlaceFacts, UsesFacts
<1>q. \A p \in Places' : p[1] \in Nat /\ p[2] \in Nat /\ p[2] >= 1
  BY PlacesOfNext
<1>i. pc = "packages" =>
        /\ scanned <= at.source /\ at.source <= at.end /\ at.end <= n
        /\ at.source = at.end => at.use = 0
        /\ \A i \in (at.end + 1)..n : UsesOf(sources[i]) = <<>>
  BY DEF BaseInv, CursorInv, PackageCursorInv
\* A source that is passed over has no place.
<1>e. ASSUME pc = "packages", NEW p \in Places PROVE p[1] <= at.end
  <2>1. CASE p[1] \in (at.end + 1)..n
    <3>1. UsesOf(sources[p[1]]) = <<>>
      BY <1>e, <1>i, <2>1
    <3>2. Len(UsesOf(sources[p[1]])) = 0
      BY <3>1
    <3>3. QED BY <1>e, <1>p, <3>2
  <2>2. QED BY <1>e, <1>i, <1>p, <1>t, <2>1
<1>1. CASE BeginRound
  <2>1. at' = [source |-> scanned, use |-> 0, end |-> n] /\ UNCHANGED sources
        /\ pc = "round" /\ pc' = "packages"
    BY <1>1 DEF BeginRound
  <2>2. at'.source = scanned /\ at'.use = 0
    BY <2>1
  <2>3. ASSUME NEW p \in Places PROVE Collected(p)' <=> Collected(p)
    BY <1>p, <1>t, <2>1, <2>2, <2>3 DEF Collected
  <2>4. Places' = Places
    BY <2>1, StepFacts DEF Places, UsesOf
  <2>5. QED BY <2>3, <2>4
<1>2. CASE QueueUse
  <2>1. at' = [at EXCEPT !.use = @ + 1] /\ UNCHANGED sources /\ pc = "packages" /\ pc' = "packages"
    BY <1>2, PcOf DEF QueueUse, list
  <2>2. at'.source = at.source /\ at'.use = at.use + 1
    BY <1>t, <2>1 DEF AtTyped
  <2>3. ASSUME NEW p \in Places PROVE Collected(p) => Collected(p)'
    BY <1>p, <1>t, <2>1, <2>2, <2>3 DEF Collected
  <2>4. ASSUME NEW p \in Places, Collected(p)'
        PROVE  Collected(p) \/ p = <<at.source + 1, at.use + 1>>
    <3>1. p[1] <= at.source \/ (p[1] = at.source + 1 /\ p[2] <= at.use + 1)
      BY <2>1, <2>2, <2>4 DEF Collected
    <3>2. p[1] <= at.source \/ (p[1] = at.source + 1 /\ (p[2] <= at.use \/ p[2] = at.use + 1))
      BY <1>p, <1>t, <3>1
    <3>3. p = <<p[1], p[2]>>
      BY <1>p
    <3>4. QED BY <2>1, <3>2, <3>3 DEF Collected
  <2>5. Places' = Places
    BY <2>1, StepFacts DEF Places, UsesOf
  <2>6. QED BY <1>2, <2>3, <2>4, <2>5
<1>3. CASE EndSource
  <2>1. /\ at' = [at EXCEPT !.source = @ + 1, !.use = 0] /\ UNCHANGED sources
        /\ pc = "packages" /\ pc' = "packages"
        /\ at.use = Len(UsesOf(sources[at.source + 1]))
    BY <1>3, PcOf DEF EndSource, ExtractedUses, list
  <2>2. at'.source = at.source + 1 /\ at'.use = 0
    BY <1>t, <2>1 DEF AtTyped
  <2>3. ASSUME NEW p \in Places PROVE Collected(p) => Collected(p)'
    BY <1>p, <1>t, <2>1, <2>2, <2>3 DEF Collected
  <2>4. ASSUME NEW p \in Places, Collected(p)' PROVE Collected(p)
    <3>1. p[1] <= at.source \/ p[1] = at.source + 1
      BY <1>p, <1>t, <2>1, <2>2, <2>4 DEF Collected
    <3>2. p[1] = at.source + 1 => p[2] <= at.use
      BY <1>p, <2>1
    <3>3. QED BY <2>1, <3>1, <3>2 DEF Collected
  <2>5. Places' = Places
    BY <2>1, StepFacts DEF Places, UsesOf
  <2>6. QED BY <2>3, <2>4, <2>5
<1>4. CASE ResolvePackage
  <2> DEFINE u == Head(requests).use
  <2>1. /\ pc = "packages" /\ pc' = "packages" /\ at.source = at.end
        /\ at' = IF Loads(u) /\ u.kind = "declaration"
                 THEN [source |-> n, use |-> 0, end |-> n + 1] ELSE at
    BY <1>4, PcOf DEF ResolvePackage
  <2>2. at.use = 0
    BY <1>i, <2>1
  <2>3. at'.use = 0 /\ (at'.source = n \/ at'.source = at.source)
    BY <2>1, <2>2
  <2>4. at.source <= at'.source /\ at'.source <= n /\ at'.source \in Nat
    BY <1>i, <1>t, <2>1, <2>3
  <2>5. \A p \in Places : p[1] <= at.source
    BY <1>e, <2>1
  <2>6. \A p \in Places : Collected(p) /\ Collected(p)'
    BY <1>p, <1>t, <2>1, <2>4, <2>5 DEF Collected
  <2>7. ASSUME NEW p \in Places', Collected(p)' PROVE p \in Places
    BY <1>q, <1>t, <2>1, <2>3, <2>4, <2>7 DEF Collected
  <2>8. QED BY <2>6, <2>7
<1>5. CASE EndPackages
  <2>1. /\ pc = "packages" /\ pc' = "graph" /\ at.source = at.end /\ scanned' = n /\ UNCHANGED sources
    BY <1>5 DEF EndPackages, list
  <2>2. \A p \in Places : Collected(p) /\ Collected(p)'
    BY <1>e, <1>p, <2>1 DEF Collected
  <2>3. Places' = Places
    BY <2>1, StepFacts DEF Places, UsesOf
  <2>4. QED BY <2>2, <2>3
<1>6. CASE ~ (BeginRound \/ QueueUse \/ EndSource \/ ResolvePackage \/ EndPackages)
  <2>1. pc # "packages" /\ pc' # "packages" /\ scanned' = scanned
    BY <1>6, PcOf, Frame DEF Next, Step
  <2>2. \A p : Collected(p)' <=> Collected(p)
    BY <2>1 DEF Collected
  <2>3. ASSUME NEW p \in Places', Collected(p) PROVE p \in Places
    <3>1. p[1] <= scanned
      BY <2>1, <2>3 DEF Collected
    <3>2. QED BY <1>q, <1>t, <2>3, <3>1
  <2>4. QED BY <2>2, <2>3
<1>7. QED BY <1>1, <1>2, <1>3, <1>4, <1>5, <1>6

-----------------------------------------------------------------------------
(* What the scanners have passed is taken care of. *)

\* The fallback keeps what it has and gains the specifier that is resolved.
LEMMA FallbackFacts ==
    ASSUME NEW u
    PROVE  /\ DOMAIN resolved \subseteq DOMAIN Fallback(u)
           /\ \A n \in DOMAIN resolved : Fallback(u)[n] = resolved[n]
           /\ u.package # None /\ u.usage \notin Overrides => u.name \in DOMAIN Fallback(u)
           /\ \A n \in DOMAIN Fallback(u) \ DOMAIN resolved :
                /\ n = u.name /\ Fallback(u)[n] = u.package
                /\ u.package # None /\ u.usage \notin Overrides
<1> DEFINE name == u.name
           package == u.package
           g == [n \in DOMAIN resolved \cup {name} |-> IF n = name THEN package ELSE resolved[n]]
<1>1. CASE package = None \/ u.usage \in Overrides \/ name \in DOMAIN resolved
  <2>1. Fallback(u) = resolved
    BY <1>1 DEF Fallback
  <2>2. QED BY <1>1, <2>1
<1>2. CASE ~ (package = None \/ u.usage \in Overrides \/ name \in DOMAIN resolved)
  <2>1. Fallback(u) = g
    BY <1>2 DEF Fallback
  <2> HIDE DEF name, package
  <2>2. DOMAIN g = DOMAIN resolved \cup {name} /\ g[name] = package
        /\ \A n \in DOMAIN resolved : n # name => g[n] = resolved[n]
    OBVIOUS
  <2> HIDE DEF g
  <2>3. /\ DOMAIN resolved \subseteq DOMAIN Fallback(u)
        /\ \A n \in DOMAIN resolved : Fallback(u)[n] = resolved[n]
        /\ name \in DOMAIN Fallback(u)
        /\ \A n \in DOMAIN Fallback(u) \ DOMAIN resolved : n = name /\ Fallback(u)[n] = package
    BY <1>2, <2>1, <2>2
  <2>4. QED BY <1>2, <2>3 DEF name, package
<1>3. QED BY <1>1, <1>2

LEMMA TypesLoaded ==
    ASSUME BaseInv, DoneInv, Next
    PROVE  \A f \in ToSet(world'.types) \cap world'.readable :
              pc' \in {"roots", "failed"} \/ f \in Files(sources')
                \/ (pc' = "types" /\ f \in ToSet(loading'))
<1> SUFFICES ASSUME NEW f \in ToSet(world.types) \cap world.readable
             PROVE  pc' \in {"roots", "failed"} \/ f \in Files(sources')
                      \/ (pc' = "types" /\ f \in ToSet(loading'))
  BY StepFacts
<1>i. pc \in {"roots", "failed"} \/ f \in Files(sources) \/ (pc = "types" /\ f \in ToSet(loading))
  BY DEF DoneInv
<1>g. Files(sources) \subseteq Files(sources')
  BY StepFacts
<1>1. CASE f \in Files(sources)
  BY <1>1, <1>g
<1>2. CASE pc \in {"roots", "failed"}
  <2>1. CASE ReadRoots
    <3>1. pc' = "failed" \/ (pc' = "types" /\ loading' = world.types)
      BY <2>1 DEF ReadRoots
    <3>2. QED BY <3>1
  <2>2. CASE ~ ReadRoots
    BY <1>2, <2>2, PcOf DEF Next, Step
  <2>3. QED BY <2>1, <2>2
<1>3. CASE pc = "types" /\ f \in ToSet(loading)
  <2>1. loading # <<>>
    BY <1>3 DEF ToSet
  <2>2. TypePackage
    BY <1>3, <2>1, PcOf DEF Next, Step, EndTypePackages
  <2>3. loading' = Tail(loading) /\ pc' = "types" /\ LoadNext("types")
    BY <1>3, <2>2 DEF TypePackage, LoadNext
  <2>4. f = Head(loading) \/ f \in ToSet(loading')
    BY <1>3, <2>1, <2>3, ToSetOfTail DEF BaseInv, Typed, ListTyped
  <2>5. f = Head(loading) => f \in Files(sources')
    <3>1. "types" \in Origin /\ Typed
      BY DEF Origin, BaseInv
    <3>2. QED BY <1>g, <2>3, <3>1, LoadedNext, AppendedSources
  <2>6. QED BY <2>3, <2>4, <2>5
<1>4. QED BY <1>i, <1>1, <1>2, <1>3

LEMMA ReferencesLoaded ==
    ASSUME BaseInv, DoneInv, Next
    PROVE  \A f \in referenced' : \A g \in ToSet(world'.refs[f]) \cap world'.readable :
              g \in Files(sources') \/ (pc' = "references" /\ g \in ToSet(loading'))
<1> SUFFICES ASSUME NEW f \in referenced', NEW g \in ToSet(world.refs[f]) \cap world.readable
             PROVE  g \in Files(sources') \/ (pc' = "references" /\ g \in ToSet(loading'))
  BY StepFacts
<1>g. Files(sources) \subseteq Files(sources')
  BY StepFacts
<1>1. CASE ScanReferences
  <2>1. PICK i \in DOMAIN sources : /\ referenced' = referenced \cup {sources[i].file}
                                    /\ loading' = world.refs[sources[i].text]
    BY <1>1 DEF ScanReferences
  <2>2. sources[i].text = sources[i].file /\ pc' = "references" /\ loading = <<>>
    BY <1>1, PcOf DEF BaseInv, OwnText, ScanReferences, AtDirectives
  <2>3. ToSet(loading) = {}
    BY <2>2 DEF ToSet
  <2>4. CASE f = sources[i].file
    BY <2>1, <2>2, <2>4
  <2>5. CASE f \in referenced
    BY <1>g, <2>3, <2>5 DEF DoneInv
  <2>6. QED BY <2>1, <2>4, <2>5
<1>2. CASE ~ ScanReferences
  <2>1. f \in referenced
    BY <1>2, Frame
  <2>2. g \in Files(sources) \/ (pc = "references" /\ g \in ToSet(loading))
    BY <2>1 DEF DoneInv
  <2>3. CASE pc = "references" /\ g \in ToSet(loading)
    <3>1. loading # <<>>
      BY <2>3 DEF ToSet
    <3>2. LoadReference
      BY <1>2, <2>3, <3>1, PcOf DEF Next, Step, EndRound, CollectPending, AtDirectives
    <3>3. loading' = Tail(loading) /\ pc' = "references" /\ LoadNext("reference")
      BY <2>3, <3>2 DEF LoadReference, LoadNext
    <3>4. g = Head(loading) \/ g \in ToSet(loading')
      BY <2>3, <3>1, <3>3, ToSetOfTail DEF BaseInv, Typed, ListTyped
    <3>5. g = Head(loading) => g \in Files(sources')
      <4>1. "reference" \in Origin /\ Typed
        BY DEF Origin, BaseInv
      <4>2. QED BY <1>g, <3>3, <4>1, LoadedNext, AppendedSources
    <3>6. QED BY <3>3, <3>4, <3>5
  <2>4. QED BY <1>g, <2>2, <2>3
<1>3. QED BY <1>1, <1>2

LEMMA SeenKnown ==
    ASSUME BaseInv, DoneInv, Next
    PROVE  \A p \in Places' : Seen(p)' /\ UseAt(p)'.local # None => UseAt(p)'.local \in graph'.known
<1> SUFFICES ASSUME NEW p \in Places', Seen(p)', UseAt(p)'.local # None
             PROVE  UseAt(p)'.local \in graph'.known
  OBVIOUS
<1>1. p \in Places /\ (Seen(p) \/ (ScanUse /\ p = <<graph.next + 1, wave.use + 1>>))
  BY SeenStep
<1>2. UseAt(p)' = UseAt(p) /\ graph.known \subseteq graph'.known
  BY <1>1, StepFacts, KnownGrows
<1>3. CASE Seen(p)
  BY <1>1, <1>2, <1>3 DEF DoneInv
<1>4. CASE ScanUse /\ p = <<graph.next + 1, wave.use + 1>>
  <2>1. UseAt(p) = ScannedUses[wave.use + 1]
    BY <1>4 DEF UseAt, ScannedUses
  <2>2. QED BY <1>2, <1>4, <2>1, ScannedUnpushable
<1>5. QED BY <1>1, <1>3, <1>4

\* Two places of one file with one specifier in one usage are the same use.
LEMMA SameKeySameUse ==
    ASSUME BaseInv, NEW p \in Places, NEW q \in Places, KeyOf(p) = KeyOf(q),
           UseAt(p).kind # "none", UseAt(q).kind # "none"
    PROVE  p[1] = q[1] /\ UseAt(p) = UseAt(q)
<1>1. /\ sources[p[1]].file = sources[q[1]].file /\ UseAt(p).name = UseAt(q).name
      /\ UseAt(p).usage = UseAt(q).usage
  BY DEF KeyOf
<1>2. /\ p[1] \in DOMAIN sources /\ q[1] \in DOMAIN sources
      /\ p[2] \in 1..Len(UsesOf(sources[p[1]])) /\ q[2] \in 1..Len(UsesOf(sources[q[1]]))
      /\ sources[p[1]].text \in File
  BY PlaceFacts DEF BaseInv
<1>3. p[1] = q[1]
  BY <1>1, <1>2 DEF BaseInv, LoadedOnce
<1>4. UseDetermined(UsesOf(sources[p[1]]))
  BY <1>2, WorldFacts DEF BaseInv, Typed, UsesOf
<1>5. p[2] \in DOMAIN UsesOf(sources[p[1]]) /\ q[2] \in DOMAIN UsesOf(sources[p[1]])
  BY <1>2, <1>3, UsesFacts DEF BaseInv
<1>6. UseAt(p) = UseAt(q)
  BY <1>1, <1>3, <1>4, <1>5 DEF UseAt, UseDetermined
<1>7. QED BY <1>3, <1>6

\* The specifier that QueueUse looks at: it needs no request, or it has one already, or
\* it is requested now.
LEMMA QueuedPlace ==
    ASSUME BaseInv, QueueUse
    PROVE  LET c == <<at.source + 1, at.use + 1>>
               r == [importer |-> sources[c[1]].file, use |-> UseAt(c)]
           IN  /\ c \in Places /\ c[1] = at.source + 1 /\ c[2] = at.use + 1
               /\ UseAt(c) = ExtractedUses[at.use + 1]
               /\ r \in Request /\ c \in PlacesOf(r) /\ Grows
               /\ \/ /\ UseAt(c).kind = "none" \/ KeyOf(c) \in queued
                     /\ UNCHANGED <<requests, queued>>
                  \/ /\ UseAt(c).kind # "none" /\ KeyOf(c) \notin queued
                     /\ requests' = Append(requests, r) /\ queued' = queued \cup {KeyOf(c)}
<1> DEFINE c == <<at.source + 1, at.use + 1>>
           r == [importer |-> sources[c[1]].file, use |-> UseAt(c)]
           f == sources[at.source + 1].file
           u == ExtractedUses[at.use + 1]
<1>1. /\ at.source + 1 \in DOMAIN sources /\ at.use + 1 \in 1..Len(ExtractedUses)
      /\ f \in File /\ u \in Use
  BY ExtractedPlace DEF BaseInv
<1>2. c[1] = at.source + 1 /\ c[2] = at.use + 1
  OBVIOUS
<1>3. c \in Places /\ UseAt(c) = u
  BY <1>1, PlaceIntro DEF BaseInv, ExtractedUses
<1>4. KeyOf(c) = <<f, u.name, u.usage>>
  BY <1>2, <1>3 DEF KeyOf
<1>5. r = [importer |-> f, use |-> u]
  BY <1>2, <1>3
<1>6. \/ (u.kind = "none" \/ <<f, u.name, u.usage>> \in queued) /\ UNCHANGED <<requests, queued>>
      \/ /\ ~ (u.kind = "none" \/ <<f, u.name, u.usage>> \in queued)
         /\ requests' = Append(requests, [importer |-> f, use |-> u])
         /\ queued' = queued \cup {<<f, u.name, u.usage>>}
  BY DEF QueueUse
<1>7. [importer |-> f, use |-> u] \in Request
  BY <1>1 DEF Request
<1>8. c \in PlacesOf(r)
  BY <1>3, <1>5 DEF PlacesOf
<1>9. Grows
  BY GrowsStep DEF Next, Step
<1> HIDE DEF c, r, f, u
<1>10. QED BY <1>2, <1>3, <1>4, <1>5, <1>6, <1>7, <1>8, <1>9 DEF c, r, u

\* A specifier that is taken care of stays so.
LEMMA HandledStays ==
    ASSUME BaseInv, Next, NEW u, Handled(u)
    PROVE  Handled(u)'
<1>1. Files(sources) \subseteq Files(sources') /\ world' = world
  BY StepFacts
<1>2. DOMAIN resolved \subseteq DOMAIN resolved'
  <2>1. CASE ResolvePackage
    <3>1. resolved' = Fallback(Head(requests).use)
      BY <2>1 DEF ResolvePackage
    <3>2. QED BY <3>1, FallbackFacts
  <2>2. CASE ~ ResolvePackage
    BY <2>2, Frame
  <2>3. QED BY <2>1, <2>2
<1>3. QED BY <1>1, <1>2 DEF Handled

\* Resolving a request takes care of its specifier.
LEMMA ResolvedHandled ==
    ASSUME BaseInv, ResolvePackage, NEW u, u = Head(requests).use
    PROVE  Handled(u)'
<1>1. Next
  BY DEF Next, Step
<1>2. world' = world /\ Files(sources) \subseteq Files(sources') /\ Typed
  BY <1>1, StepFacts DEF BaseInv
<1>3. resolved' = Fallback(u)
  BY DEF ResolvePackage
<1>4. "package" \in Origin
  BY DEF Origin
<1>5. (UNCHANGED sources /\ ~ Loads(u)) \/ u.package \in Files(sources')
  BY <1>2, <1>4, LoadedPackage, AppendedSources
<1>6. u.kind \in {"declaration", "json"} /\ u.package \in world.readable => u.package \in Files(sources')
  BY <1>2, <1>5 DEF Loads
<1>7. u.package # None /\ u.usage \notin Overrides => u.name \in DOMAIN resolved'
  BY <1>3, FallbackFacts
<1>8. QED BY <1>2, <1>6, <1>7 DEF Handled

LEMMA CollectedDone ==
    ASSUME BaseInv, DoneInv, QueueInv, Next
    PROVE  \A p \in Places' : Collected(p)' /\ UseAt(p)'.kind # "none"
                                => Requested(p)' \/ Handled(UseAt(p))'
<1> SUFFICES ASSUME NEW p \in Places', Collected(p)', UseAt(p)'.kind # "none"
             PROVE  Requested(p)' \/ Handled(UseAt(p))'
  OBVIOUS
<1>1. p \in Places /\ (Collected(p) \/ (QueueUse /\ p = <<at.source + 1, at.use + 1>>))
  BY CollectedStep
<1>2. UseAt(p)' = UseAt(p) /\ UseAt(p).kind # "none" /\ sources'[p[1]] = sources[p[1]]
  BY <1>1, StepFacts
<1>r. requests \in Seq(Request) /\ Len(requests) \in Nat /\ DOMAIN requests = 1..Len(requests)
  BY LenProperties DEF BaseInv, Typed, QueueTyped
<1>s. \A r : p \in PlacesOf(r) => p \in PlacesOf(r)'
  BY <1>1, <1>2, StepFacts DEF PlacesOf
<1>u. PICK u : u = UseAt(p)
  OBVIOUS
<1>h. Handled(u)' => Handled(UseAt(p))'
  BY <1>2, <1>u DEF Handled
\* A request that stays still stands for the place.
<1>k. ASSUME NEW q \in Places, UseAt(q) = UseAt(p), sources[q[1]].file = sources[p[1]].file,
             Requested(q) \/ Handled(UseAt(q))
      PROVE  Requested(p)' \/ Handled(UseAt(p))'
  <2>1. CASE Handled(UseAt(q))
    BY <1>h, <1>k, <1>u, <2>1, HandledStays
  <2>2. CASE Requested(q)
    <3>1. PICK a \in DOMAIN requests : q \in PlacesOf(requests[a])
      BY <2>2 DEF Requested
    <3>2. p \in PlacesOf(requests[a])
      BY <1>1, <1>k, <3>1 DEF PlacesOf
    <3>3. requests[a].use = UseAt(p)
      BY <3>2 DEF PlacesOf
    <3>4. CASE QueueUse
      <4>1. a \in DOMAIN requests' /\ requests'[a] = requests[a]
        BY <1>r, <3>1, <3>4, QueuedPlace, AppendOne
      <4>2. QED BY <1>s, <3>2, <4>1 DEF Requested
    <3>5. CASE ResolvePackage
      <4>1. requests # <<>> /\ requests' = Tail(requests)
        BY <3>5 DEF ResolvePackage
      <4>2. CASE a = 1
        <5>1. requests[a] = Head(requests)
          BY <1>r, <4>1, <4>2, HeadAndTail
        <5>2. QED BY <1>h, <1>u, <3>3, <3>5, <5>1, ResolvedHandled
      <4>3. CASE a # 1
        <5>1. a - 1 \in DOMAIN requests' /\ requests'[a - 1] = requests[a]
          BY <1>r, <3>1, <4>1, <4>3, HeadAndTail
        <5>2. QED BY <1>s, <3>2, <5>1 DEF Requested
      <4>4. QED BY <4>2, <4>3
    <3>6. CASE ~ (QueueUse \/ ResolvePackage)
      <4>1. requests # <<>>
        BY <3>1
      <4>2. ~ BeginRound
        BY <4>1, PcOf DEF BaseInv, CursorInv, PackageCursorInv
      <4>3. UNCHANGED requests
        BY <3>6, <4>2, Frame
      <4>4. QED BY <1>s, <3>1, <3>2, <4>3 DEF Requested
    <3>7. QED BY <3>4, <3>5, <3>6
  <2>3. QED BY <1>k, <2>1, <2>2
<1>3. CASE Collected(p)
  <2>1. Requested(p) \/ Handled(UseAt(p))
    BY <1>1, <1>2, <1>3 DEF DoneInv
  <2>2. QED BY <1>1, <1>2, <1>k, <2>1
<1>4. CASE QueueUse /\ p = <<at.source + 1, at.use + 1>>
  <2> DEFINE r == [importer |-> sources[p[1]].file, use |-> UseAt(p)]
  <2>1. /\ r \in Request /\ p \in PlacesOf(r)
        /\ \/ KeyOf(p) \in queued
           \/ requests' = Append(requests, r)
    BY <1>2, <1>4, QueuedPlace
  <2> HIDE DEF r
  <2>2. CASE KeyOf(p) \in queued
    <3>1. pc = "packages"
      BY <1>4 DEF QueueUse, Extracting
    <3>2. PICK q \in Places : Collected(q) /\ UseAt(q).kind # "none" /\ KeyOf(q) = KeyOf(p)
      BY <2>2, <3>1 DEF QueueInv
    <3>3. q[1] = p[1] /\ UseAt(q) = UseAt(p)
      BY <1>1, <1>2, <3>2, SameKeySameUse
    <3>4. Requested(q) \/ Handled(UseAt(q))
      BY <3>2 DEF DoneInv
    <3>5. QED BY <1>2, <1>k, <3>3, <3>4
  <2>3. CASE requests' = Append(requests, r)
    <3>1. Len(requests) + 1 \in DOMAIN requests' /\ requests'[Len(requests) + 1] = r
      BY <1>r, <2>1, <2>3, AppendOne
    <3>2. QED BY <1>s, <2>1, <3>1 DEF Requested
  <2>4. QED BY <2>1, <2>2, <2>3
<1>5. QED BY <1>1, <1>3, <1>4

LEMMA DoneStep ==
    ASSUME BaseInv, DoneInv, QueueInv, Next
    PROVE  DoneInv'
BY TypesLoaded, ReferencesLoaded, SeenKnown, CollectedDone DEF DoneInv

\* The keys are of the places passed since the round began.
LEMMA QueueStep ==
    ASSUME BaseInv, QueueInv, Next
    PROVE  QueueInv'
<1> SUFFICES ASSUME pc' = "packages" PROVE QueueInv'
  BY DEF QueueInv
<1>g. /\ \A p \in Places : p \in Places' /\ UseAt(p)' = UseAt(p) /\ KeyOf(p)' = KeyOf(p)
      /\ \A p \in Places : Collected(p) => Collected(p)'
      /\ \A p \in Places' : Collected(p)' =>
            p \in Places /\ (Collected(p) \/ (QueueUse /\ p = <<at.source + 1, at.use + 1>>))
  BY StepFacts, CollectedStep
<1>1. CASE BeginRound
  <2>1. queued' = {} /\ scanned' = scanned /\ pc = "round"
    BY <1>1 DEF BeginRound
  <2>2. ASSUME NEW p \in Places', Collected(p)' PROVE ~ (p[1] > scanned')
    <3>1. p \in Places /\ Collected(p)
      BY <1>1, <1>g, <2>2, PcOf
    <3>2. p[1] <= scanned /\ p[1] \in Nat /\ scanned \in Nat
      BY <2>1, <3>1, PlaceFacts, FieldTypes DEF Collected, BaseInv
    <3>3. QED BY <2>1, <3>2
  <2>3. QED BY <2>1, <2>2 DEF QueueInv
<1>2. CASE ~ BeginRound
  <2>1. pc = "packages" /\ scanned' = scanned
    BY <1>2, PcOf, Frame DEF Next, Step
  <2>i. /\ \A p \in Places : Collected(p) /\ p[1] > scanned /\ UseAt(p).kind # "none"
                                => KeyOf(p) \in queued
        /\ \A key \in queued : \E p \in Places :
              Collected(p) /\ UseAt(p).kind # "none" /\ KeyOf(p) = key
    BY <2>1 DEF QueueInv
  <2>2. CASE QueueUse
    <3>c. PICK c : c = <<at.source + 1, at.use + 1>>
      OBVIOUS
    <3>1. c \in Places
      BY <2>2, <3>c, QueuedPlace
    <3>2. \/ (UseAt(c).kind = "none" \/ KeyOf(c) \in queued) /\ queued' = queued
          \/ UseAt(c).kind # "none" /\ queued' = queued \cup {KeyOf(c)}
      BY <2>2, <3>c, QueuedPlace
    <3>3. Collected(c)'
      <4>1. c[1] = at.source + 1 /\ c[2] = at.use + 1
        BY <3>c
      <4>2. at' = [at EXCEPT !.use = @ + 1]
        BY <2>2 DEF QueueUse
      <4>3. at'.source = at.source /\ at'.use = at.use + 1 /\ at.use \in Nat
        BY <4>2, FieldTypes DEF BaseInv, Typed, AtTyped
      <4>4. c[2] <= at'.use
        BY <4>1, <4>3
      <4>5. QED BY <4>1, <4>3, <4>4 DEF Collected
    <3>4. ASSUME NEW p \in Places', Collected(p)', p[1] > scanned', UseAt(p)'.kind # "none"
          PROVE  KeyOf(p)' \in queued'
      <4>1. p \in Places /\ (Collected(p) \/ p = c)
        BY <1>g, <3>4, <3>c
      <4>2. UseAt(p).kind # "none" /\ KeyOf(p)' = KeyOf(p)
        BY <1>g, <3>4, <4>1
      <4>3. CASE Collected(p)
        BY <2>1, <2>i, <3>2, <3>4, <4>1, <4>2, <4>3
      <4>4. CASE p = c
        BY <3>2, <4>2, <4>4
      <4>5. QED BY <4>1, <4>3, <4>4
    <3>5. ASSUME NEW key \in queued'
          PROVE  \E p \in Places' : Collected(p)' /\ UseAt(p)'.kind # "none" /\ KeyOf(p)' = key
      <4>1. CASE key \in queued
        BY <1>g, <2>i, <4>1
      <4>2. CASE key \notin queued
        <5>1. key = KeyOf(c) /\ UseAt(c).kind # "none"
          BY <3>2, <3>5, <4>2
        <5>2. QED BY <1>g, <3>1, <3>3, <5>1
      <4>3. QED BY <4>1, <4>2
    <3>6. QED BY <3>4, <3>5 DEF QueueInv
  <2>3. CASE ~ QueueUse
    <3>1. queued' = queued
      BY <1>2, <2>3, Frame
    <3>2. QED BY <1>g, <2>1, <2>i, <2>3, <3>1 DEF QueueInv
  <2>4. QED BY <2>2, <2>3
<1>3. QED BY <1>1, <1>2


-----------------------------------------------------------------------------
(* The order of the requests and the fallback. *)

\* There is one first place after a step, too.
LEMMA OneFirstNext ==
    ASSUME BaseInv, Next, NEW S, S \subseteq Places', NEW p, NEW q, IsFirst(p, S), IsFirst(q, S)
    PROVE  p = q
<1>1. p \in Places' /\ q \in Places' /\ (q = p \/ (Earlier(p, q) /\ Earlier(q, p)))
  BY DEF IsFirst
<1>2. p[1] \in Nat /\ p[2] \in Nat /\ q[1] \in Nat /\ q[2] \in Nat
  BY <1>1, PlacesOfNext
<1>3. QED BY <1>1, <1>2 DEF Earlier

\* The first place of a request stays what it is.
LEMMA RequestKept ==
    ASSUME BaseInv, RequestInv, Next, NEW a \in DOMAIN requests, NEW r, r = requests[a]
    PROVE  \E p \in Places : /\ p \in Places' /\ IsFirst(p, PlacesOf(r)) /\ Collected(p)
                             /\ IsFirst(p, PlacesOf(r)') /\ Collected(p)'
<1>1. PICK p \in Places : IsFirst(p, PlacesOf(r)) /\ Collected(p)
  BY DEF RequestInv
<1>2. p \in Places' /\ Collected(p)' /\ Grows /\ BaseInv'
  BY StepFacts, CollectedStep, <1>1
<1>3. IsFirst(p, PlacesOf(r)')
  BY <1>1, <1>2, FirstStaysInPlaces
<1>4. QED BY <1>1, <1>2, <1>3

\* Two requests stay in order.
LEMMA RequestsKept ==
    ASSUME BaseInv, RequestInv, Next, NEW a \in DOMAIN requests, NEW b \in DOMAIN requests, a < b,
           NEW r, r = requests[a], NEW s, s = requests[b],
           NEW p \in Places', NEW q \in Places', IsFirst(p, PlacesOf(r)'), q \in PlacesOf(s)'
    PROVE  Earlier(p, q)
<1>1. PICK o \in Places : IsFirst(o, PlacesOf(r)) /\ IsFirst(o, PlacesOf(r)')
  BY RequestKept
<1>2. o = p
  <2>1. PlacesOf(r)' \subseteq Places'
    BY DEF PlacesOf
  <2>2. QED BY <1>1, <2>1, OneFirstNext
<1>3. CASE q \in Places
  <2>1. q \in PlacesOf(s)
    BY <1>3, StepFacts DEF PlacesOf
  <2>2. QED BY <1>1, <1>2, <1>3, <2>1 DEF RequestInv
<1>4. CASE q \notin Places
  <2>1. q[1] > Len(sources) /\ q[1] \in Nat /\ p[1] \in 1..Len(sources) /\ Len(sources) \in Nat
    BY <1>2, <1>4, StepFacts, PlacesOfNext, PlaceFacts, FieldTypes DEF BaseInv
  <2>2. p[1] < q[1]
    BY <2>1
  <2>3. QED BY <2>2 DEF Earlier
<1>5. QED BY <1>3, <1>4

\* A new request's place is the first of its specifier and usage in its file, and it
\* comes after what was queued before.
LEMMA QueuedFirst ==
    ASSUME BaseInv, QueueInv, QueueUse, NEW c, c = <<at.source + 1, at.use + 1>>,
           KeyOf(c) \notin queued, UseAt(c).kind # "none",
           NEW r, r = [importer |-> sources[c[1]].file, use |-> UseAt(c)]
    PROVE  /\ IsFirst(c, PlacesOf(r))
           /\ \A p \in Places : Collected(p) => Earlier(p, c)
           /\ c \in Places
<1>1. c \in Places /\ c[1] = at.source + 1 /\ c[2] = at.use + 1 /\ c \in PlacesOf(r)
  BY QueuedPlace
<1>2. pc = "packages" /\ at.source \in Nat /\ at.use \in Nat /\ scanned \in Nat /\ Typed
  BY FieldTypes DEF BaseInv, QueueUse, Extracting
<1>3. scanned <= at.source
  BY <1>2 DEF BaseInv, CursorInv, PackageCursorInv
<1>4. ASSUME NEW p \in Places, Collected(p) PROVE Earlier(p, c)
  <2>1. p[1] <= at.source \/ (p[1] = at.source + 1 /\ p[2] <= at.use)
    BY <1>2, <1>4 DEF Collected
  <2>2. p[1] \in Nat /\ p[2] \in Nat
    BY <1>2, PlaceFacts
  <2>3. p[1] < c[1] \/ (p[1] = c[1] /\ p[2] < c[2])
    BY <1>1, <1>2, <2>1, <2>2
  <2>4. QED BY <2>3 DEF Earlier
<1>5. ASSUME NEW q \in PlacesOf(r) PROVE q = c \/ Earlier(c, q)
  <2>1. q \in Places /\ sources[q[1]].file = sources[c[1]].file /\ UseAt(q) = UseAt(c)
    <3>1. r.importer = sources[c[1]].file /\ r.use = UseAt(c)
      OBVIOUS
    <3>2. QED BY <1>5, <3>1 DEF PlacesOf
  <2>2. KeyOf(q) = KeyOf(c)
    BY <2>1 DEF KeyOf
  <2>3. q[1] \in DOMAIN sources /\ c[1] \in DOMAIN sources /\ q[1] \in Nat /\ q[2] \in Nat
        /\ q = <<q[1], q[2]>> /\ c = <<c[1], c[2]>>
    BY <1>1, <1>2, <2>1, PlaceFacts
  <2>4. q[1] = c[1]
    BY <2>1, <2>3 DEF BaseInv, LoadedOnce
  <2>5. ASSUME q[2] < c[2] PROVE FALSE
    <3>1. q[2] <= at.use /\ q[1] = at.source + 1 /\ q[1] > scanned
      BY <1>1, <1>2, <1>3, <2>3, <2>4, <2>5
    <3>2. Collected(q)
      BY <1>2, <3>1 DEF Collected
    <3>3. KeyOf(q) \in queued
      BY <1>2, <2>1, <3>1, <3>2 DEF QueueInv
    <3>4. QED BY <2>2, <3>3
  <2>6. q[2] = c[2] \/ c[2] < q[2]
    BY <1>1, <1>2, <2>3, <2>5
  <2>7. QED BY <2>3, <2>4, <2>6 DEF Earlier
<1>6. QED BY <1>1, <1>4, <1>5 DEF IsFirst

LEMMA RequestStep ==
    ASSUME BaseInv, QueueInv, RequestInv, Next
    PROVE  RequestInv'
<1>r. requests \in Seq(Request) /\ Len(requests) \in Nat /\ DOMAIN requests = 1..Len(requests)
  BY LenProperties DEF BaseInv, Typed, QueueTyped
<1>a. ASSUME NEW a \in DOMAIN requests', NEW i \in DOMAIN requests, requests'[a] = requests[i]
      PROVE  \E p \in Places' : IsFirst(p, PlacesOf(requests[a])') /\ Collected(p)'
  <2>1. PICK r : r = requests[i]
    OBVIOUS
  <2>2. PlacesOf(requests[a])' = PlacesOf(r)'
    BY <1>a, <2>1 DEF PlacesOf
  <2>3. QED BY <2>1, <2>2, RequestKept
<1>b. ASSUME NEW a \in DOMAIN requests', NEW b \in DOMAIN requests',
             NEW i \in DOMAIN requests, NEW j \in DOMAIN requests, i < j,
             requests'[a] = requests[i], requests'[b] = requests[j],
             NEW p \in Places', NEW q \in Places',
             IsFirst(p, PlacesOf(requests[a])'), q \in PlacesOf(requests[b])'
      PROVE  Earlier(p, q)
  <2>1. PICK r, s : r = requests[i] /\ s = requests[j]
    OBVIOUS
  <2>2. PlacesOf(requests[a])' = PlacesOf(r)' /\ PlacesOf(requests[b])' = PlacesOf(s)'
    BY <1>b, <2>1 DEF PlacesOf
  <2>3. IsFirst(p, PlacesOf(r)') /\ q \in PlacesOf(s)'
    BY <1>b, <2>2
  <2>4. QED BY <1>b, <2>1, <2>3, RequestsKept
<1>1. CASE BeginRound
  <2>1. requests' = <<>>
    BY <1>1 DEF BeginRound
  <2>2. DOMAIN requests' = {}
    BY <2>1
  <2>3. QED BY <2>2 DEF RequestInv
<1>2. CASE UNCHANGED requests
  <2>1. \A a \in DOMAIN requests' : a \in DOMAIN requests /\ requests'[a] = requests[a]
    BY <1>2
  <2>2. QED BY <1>a, <1>b, <2>1 DEF RequestInv
<1>3. CASE ResolvePackage
  <2>1. requests # <<>> /\ requests' = Tail(requests)
    BY <1>3 DEF ResolvePackage
  <2>2. \A a \in DOMAIN requests' :
            a \in Nat /\ a + 1 \in DOMAIN requests /\ requests'[a] = requests[a + 1]
    BY <1>r, <2>1, HeadAndTail
  <2>3. ASSUME NEW a \in DOMAIN requests'
        PROVE  \E p \in Places' : IsFirst(p, PlacesOf(requests[a])') /\ Collected(p)'
    BY <1>a, <2>2
  <2>4. ASSUME NEW a \in DOMAIN requests', NEW b \in DOMAIN requests', a < b,
               NEW p \in Places', NEW q \in Places',
               IsFirst(p, PlacesOf(requests[a])'), q \in PlacesOf(requests[b])'
        PROVE  Earlier(p, q)
    <3>1. PICK i \in DOMAIN requests, j \in DOMAIN requests :
              i < j /\ requests'[a] = requests[i] /\ requests'[b] = requests[j]
      BY <2>2, <2>4
    <3>2. QED BY <1>b, <2>4, <3>1
  <2>5. QED BY <2>3, <2>4 DEF RequestInv
<1>4. CASE QueueUse /\ ~ UNCHANGED requests
  <2>1. PICK c : c = <<at.source + 1, at.use + 1>>
    OBVIOUS
  <2>2. PICK r : r = [importer |-> sources[c[1]].file, use |-> UseAt(c)]
    OBVIOUS
  <2>3. /\ KeyOf(c) \notin queued /\ UseAt(c).kind # "none"
        /\ requests' = Append(requests, r) /\ r \in Request
    BY <1>4, <2>1, <2>2, QueuedPlace
  <2>4. IsFirst(c, PlacesOf(r)) /\ c \in Places /\ \A p \in Places : Collected(p) => Earlier(p, c)
    BY <1>4, <2>1, <2>2, <2>3, QueuedFirst
  <2>5. IsFirst(c, PlacesOf(r)')
    BY <2>4, StepFacts, FirstStaysInPlaces
  <2>6. c \in Places' /\ Collected(c)'
    <3>1. c[1] = at.source + 1 /\ c[2] = at.use + 1
      BY <2>1
    <3>2. at' = [at EXCEPT !.use = @ + 1] /\ pc' = "packages"
      BY <1>4, PcOf DEF QueueUse
    <3>3. at'.source = at.source /\ at'.use = at.use + 1 /\ at.use \in Nat
      BY <3>2, FieldTypes DEF BaseInv, Typed, AtTyped
    <3>4. c[2] <= at'.use
      BY <3>1, <3>3
    <3>5. QED BY <2>4, <3>1, <3>2, <3>3, <3>4, StepFacts DEF Collected
  <2>7. /\ DOMAIN requests' = 1..(Len(requests) + 1) /\ requests'[Len(requests) + 1] = r
        /\ \A a \in DOMAIN requests : requests'[a] = requests[a]
    BY <1>r, <2>3, AppendOne
  <2>8. ASSUME NEW a \in DOMAIN requests'
        PROVE  \E p \in Places' : IsFirst(p, PlacesOf(requests[a])') /\ Collected(p)'
    <3>1. CASE a \in DOMAIN requests
      BY <1>a, <2>7, <3>1
    <3>2. CASE a = Len(requests) + 1
      <4>1. PlacesOf(requests[a])' = PlacesOf(r)'
        BY <2>7, <3>2 DEF PlacesOf
      <4>2. QED BY <2>5, <2>6, <4>1
    <3>3. QED BY <1>r, <2>7, <3>1, <3>2
  <2>9. ASSUME NEW a \in DOMAIN requests', NEW b \in DOMAIN requests', a < b,
               NEW p \in Places', NEW q \in Places',
               IsFirst(p, PlacesOf(requests[a])'), q \in PlacesOf(requests[b])'
        PROVE  Earlier(p, q)
    <3>1. a \in DOMAIN requests /\ (b \in DOMAIN requests \/ b = Len(requests) + 1)
      BY <1>r, <2>7, <2>9
    <3>2. CASE b \in DOMAIN requests
      BY <1>b, <2>7, <2>9, <3>1, <3>2
    <3>3. CASE b = Len(requests) + 1
      <4>1. PICK s : s = requests[a]
        OBVIOUS
      <4>2. PlacesOf(requests[a])' = PlacesOf(s)' /\ PlacesOf(requests[b])' = PlacesOf(r)'
        BY <2>7, <3>1, <3>3, <4>1 DEF PlacesOf
      <4>3. PICK o \in Places : IsFirst(o, PlacesOf(s)') /\ Collected(o)
        BY <3>1, <4>1, RequestKept
      <4>4. PlacesOf(s)' \subseteq Places'
        BY DEF PlacesOf
      <4>5. o = p
        BY <2>9, <4>2, <4>3, <4>4, OneFirstNext
      <4>6. Earlier(p, c)
        BY <2>4, <4>3, <4>5
      <4>7. q = c \/ Earlier(c, q)
        BY <2>5, <2>9, <4>2 DEF IsFirst
      <4>8. p[1] \in Nat /\ p[2] \in Nat /\ c[1] \in Nat /\ c[2] \in Nat /\ q[1] \in Nat /\ q[2] \in Nat
        BY <2>6, <2>9, PlacesOfNext
      <4>9. QED BY <4>6, <4>7, <4>8 DEF Earlier
    <3>4. QED BY <3>1, <3>2, <3>3
  <2>10. QED BY <2>8, <2>9 DEF RequestInv
<1>5. QED BY <1>1, <1>2, <1>3, <1>4, Frame

\* The request resolved first has the first of the places that package resolution
\* answers for its specifier, if none was answered before.
LEMMA ResolvedFirst ==
    ASSUME BaseInv, DoneInv, RequestInv, ResolvePackage, NEW u, u = Head(requests).use,
           u.name \notin DOMAIN resolved, u.package # None, u.usage \notin Overrides
    PROVE  \E p \in Places : IsFirst(p, Resolutions(u.name)) /\ UseAt(p) = u
<1>r. requests \in Seq(Request) /\ Len(requests) \in Nat /\ DOMAIN requests = 1..Len(requests)
  BY LenProperties DEF BaseInv, Typed, QueueTyped
<1>1. requests # <<>> /\ pc = "packages"
  BY DEF ResolvePackage
<1>2. 1 \in DOMAIN requests /\ requests[1] = Head(requests)
  BY <1>r, <1>1, HeadAndTail
<1>3. PICK p \in Places : IsFirst(p, PlacesOf(requests[1])) /\ Collected(p)
  BY <1>2 DEF RequestInv
<1>4. UseAt(p) = u
  BY <1>2, <1>3 DEF IsFirst, PlacesOf
<1>5. p \in Resolutions(u.name)
  BY <1>3, <1>4 DEF Resolutions
<1>6. ASSUME NEW q \in Resolutions(u.name), Earlier(q, p)
      PROVE  FALSE
  <2>1. q \in Places /\ UseAt(q).name = u.name /\ UseAt(q).package # None /\ UseAt(q).usage \notin Overrides
    BY <1>6 DEF Resolutions
  <2>2. /\ q \in Nat \X Nat /\ p \in Nat \X Nat /\ q[1] \in Nat /\ q[2] \in Nat
        /\ p[1] \in Nat /\ p[2] \in Nat
    BY <2>1, PlaceFacts DEF BaseInv
  <2>3. Collected(q)
    <3>1. p[1] <= at.source \/ (p[1] = at.source + 1 /\ p[2] <= at.use)
      BY <1>1, <1>3 DEF Collected
    <3>2. at.source \in Nat /\ at.use \in Nat
      BY FieldTypes DEF BaseInv
    <3>3. q[1] < p[1] \/ (q[1] = p[1] /\ q[2] < p[2])
      BY <1>6 DEF Earlier
    <3>4. q[1] <= at.source \/ (q[1] = at.source + 1 /\ q[2] <= at.use)
      BY <2>2, <3>1, <3>2, <3>3
    <3>5. QED BY <1>1, <3>4 DEF Collected
  <2>4. UseAt(q).kind # "none"
    <3>1. sources[q[1]].text \in File /\ UseAt(q) \in ToSet(UsesOf(sources[q[1]]))
      BY <2>1, PlaceFacts DEF BaseInv
    <3>2. (UseAt(q).package = None) <=> (UseAt(q).kind \in {"none", "missing"})
      BY <3>1, WorldFacts DEF UsesOf, BaseInv, Typed
    <3>3. QED BY <2>1, <3>2
  <2>5. Requested(q) \/ Handled(UseAt(q))
    BY <2>1, <2>3, <2>4 DEF DoneInv
  <2>6. ~ Handled(UseAt(q))
    BY <2>1 DEF Handled
  <2>7. PICK a \in DOMAIN requests : q \in PlacesOf(requests[a])
    BY <2>5, <2>6 DEF Requested
  <2>8. p = q \/ Earlier(p, q)
    <3>1. CASE a = 1
      BY <1>3, <2>7, <3>1 DEF IsFirst
    <3>2. CASE a # 1
      <4>1. 1 < a
        BY <1>r, <3>2
      <4>2. QED BY <1>2, <1>3, <2>1, <2>7, <4>1 DEF RequestInv
    <3>3. QED BY <3>1, <3>2
  <2>9. QED BY <1>6, <2>2, <2>8, EarlierOrder
<1>7. ASSUME NEW q \in Resolutions(u.name) PROVE q = p \/ Earlier(p, q)
  <2>1. q \in Places
    BY <1>7 DEF Resolutions
  <2>2. q \in Nat \X Nat /\ p \in Nat \X Nat
    BY <2>1, PlaceFacts DEF BaseInv
  <2>3. QED BY <1>6, <1>7, <2>2, EarlierOrder
<1>8. QED BY <1>4, <1>5, <1>7 DEF IsFirst

LEMMA FallbackStep ==
    ASSUME BaseInv, DoneInv, RequestInv, FallbackInv, Next
    PROVE  FallbackInv'
\* A first resolution stays the first.
<1>k. ASSUME NEW n, NEW x, NEW p \in Places, IsFirst(p, Resolutions(n)), x = UseAt(p).package
      PROVE  \E q \in Places' : IsFirst(q, Resolutions(n)') /\ x = UseAt(q)'.package
  <2>1. p \in Places' /\ UseAt(p)' = UseAt(p) /\ BaseInv' /\ Grows
    BY StepFacts
  <2>2. IsFirst(p, Resolutions(n)')
    BY <1>k, <2>1, FirstStaysInPlaces
  <2>3. QED BY <1>k, <2>1, <2>2
<1>1. CASE ~ ResolvePackage
  <2>1. UNCHANGED resolved
    BY <1>1, Frame
  <2>2. ASSUME NEW n \in DOMAIN resolved'
        PROVE  \E q \in Places' : IsFirst(q, Resolutions(n)') /\ resolved'[n] = UseAt(q)'.package
    <3>1. PICK p \in Places : IsFirst(p, Resolutions(n)) /\ resolved[n] = UseAt(p).package
      BY <2>1, <2>2 DEF FallbackInv
    <3>2. QED BY <1>k, <2>1, <3>1
  <2>3. DOMAIN resolved' \subseteq Name
    BY <2>1 DEF FallbackInv
  <2>4. QED BY <2>2, <2>3 DEF FallbackInv
<1>2. CASE ResolvePackage
  <2>1. PICK u : u = Head(requests).use
    OBVIOUS
  <2>2. resolved' = Fallback(u) /\ requests # <<>>
    BY <1>2, <2>1 DEF ResolvePackage
  <2>3. u.name \in Name
    <3>1. u \in Use
      BY <2>1, <2>2, RequestFacts
    <3>2. QED BY <3>1 DEF Use
  <2>4. ASSUME NEW n \in DOMAIN resolved'
        PROVE  /\ n \in Name
               /\ \E q \in Places' : IsFirst(q, Resolutions(n)') /\ resolved'[n] = UseAt(q)'.package
    <3>1. CASE n \in DOMAIN resolved
      <4>1. resolved'[n] = resolved[n] /\ n \in Name
        BY <2>2, <3>1, FallbackFacts DEF FallbackInv
      <4>2. PICK p \in Places : IsFirst(p, Resolutions(n)) /\ resolved[n] = UseAt(p).package
        BY <3>1 DEF FallbackInv
      <4>3. QED BY <1>k, <4>1, <4>2
    <3>2. CASE n \notin DOMAIN resolved
      <4>1. n = u.name /\ resolved'[n] = u.package /\ u.package # None /\ u.usage \notin Overrides
        BY <2>2, <2>4, <3>2, FallbackFacts
      <4>2. PICK p \in Places : IsFirst(p, Resolutions(n)) /\ UseAt(p) = u
        BY <1>2, <2>1, <3>2, <4>1, ResolvedFirst
      <4>3. QED BY <1>k, <2>3, <4>1, <4>2
    <3>3. QED BY <3>1, <3>2
  <2>5. QED BY <2>4 DEF FallbackInv
<1>3. QED BY <1>1, <1>2

-----------------------------------------------------------------------------
(* The order of discovery. *)

\* Only PushNext appends a source of the graph's.
LEMMA GraphSources ==
    ASSUME BaseInv, Next, ~ PushNext
    PROVE  \A i \in DOMAIN sources' : sources'[i].by = "graph" =>
              i \in DOMAIN sources /\ sources'[i] = sources[i]
<1>o. {"types", "reference", "package"} \subseteq Origin /\ Typed
  BY DEF Origin, BaseInv
<1>t. Len(sources) \in Nat /\ DOMAIN sources = 1..Len(sources)
  BY <1>o, FieldTypes
<1>a. ASSUME NEW f, NEW by \in Origin, Appends(f, by), by # "graph"
      PROVE  \A i \in DOMAIN sources' : sources'[i].by = "graph" =>
                i \in DOMAIN sources /\ sources'[i] = sources[i]
  <2>1. /\ DOMAIN sources' = 1..(Len(sources) + 1)
        /\ \A i \in 1..Len(sources) : sources'[i] = sources[i]
        /\ sources'[Len(sources) + 1].by = by
    BY <1>a, <1>o, AppendedSources
  <2>2. \A i \in DOMAIN sources' : i \in DOMAIN sources \/ i = Len(sources) + 1
    BY <1>t, <2>1
  <2>3. QED BY <1>a, <1>t, <2>1, <2>2
<1>1. CASE TypePackage \/ LoadReference
  <2>1. PICK by \in {"types", "reference"} : LoadNext(by)
    BY <1>1 DEF TypePackage, LoadReference
  <2>2. QED BY <1>a, <1>o, <2>1, LoadedNext
<1>2. CASE ResolvePackage
  BY <1>a, <1>o, <1>2, LoadedPackage
<1>3. CASE ReadRoots
  <2>1. CASE UNCHANGED sources
    BY <2>1
  <2>2. CASE ~ UNCHANGED sources
    <3>1. \A i \in DOMAIN sources' : sources'[i].by = "root"
      BY <1>3, <2>2, RootSources
    <3>2. QED BY <3>1
  <2>3. QED BY <2>1, <2>2
<1>4. CASE ~ (TypePackage \/ LoadReference \/ ResolvePackage \/ ReadRoots)
  BY <1>4, SourcesFrame
<1>5. QED BY <1>1, <1>2, <1>3, <1>4

\* What was found stays found, in the order in which it was.
LEMMA FoundKept ==
    ASSUME BaseInv, Next, NEW f
    PROVE  /\ FoundAndSeen(f) => FoundAndSeen(f)'
           /\ \A g : FoundBefore(f, g) => FoundBefore(f, g)'
<1>s. BaseInv' /\ Grows /\ \A p \in Places : p \in Places'
  BY StepFacts
<1>1. ASSUME FoundAndSeen(f) PROVE FoundAndSeen(f)'
  <2>1. PICK p \in Places : IsFirst(p, Mentions(f)) /\ Seen(p)
    BY <1>1 DEF FoundAndSeen
  <2>2. p \in Places' /\ IsFirst(p, Mentions(f)') /\ Seen(p)'
    BY <1>s, <2>1, FirstStaysInPlaces, SeenStep
  <2>3. QED BY <2>2 DEF FoundAndSeen
<1>2. ASSUME NEW g, FoundBefore(f, g) PROVE FoundBefore(f, g)'
  <2>1. PICK p \in Places, q \in Places :
            IsFirst(p, Mentions(f)) /\ IsFirst(q, Mentions(g)) /\ Earlier(p, q)
    BY <1>2 DEF FoundBefore
  <2>2. p \in Places' /\ q \in Places' /\ IsFirst(p, Mentions(f)') /\ IsFirst(q, Mentions(g)')
    BY <1>s, <2>1, FirstStaysInPlaces
  <2>3. QED BY <2>1, <2>2 DEF FoundBefore
<1>3. QED BY <1>1, <1>2

\* The place where a new file is found is the first that mentions it, and comes after
\* the places of the files found before.
LEMMA ScannedFirst ==
    ASSUME BaseInv, DoneInv, ScanUse, NEW f, f = ScannedUses[wave.use + 1].local,
           f \in File \ graph.known
    PROVE  /\ FoundAndSeen(f)'
           /\ \A g : FoundAndSeen(g) => FoundBefore(g, f)'
<1>n. Next
  BY DEF Next, Step
<1>c. PICK c : c = <<graph.next + 1, wave.use + 1>>
  OBVIOUS
<1>t. graph.next \in Nat /\ wave.use \in Nat /\ Typed /\ CursorInv
  BY FieldTypes DEF BaseInv
<1>1. c \in Places /\ UseAt(c) = ScannedUses[wave.use + 1] /\ c[1] = graph.next + 1 /\ c[2] = wave.use + 1
  <2>1. graph.next + 1 \in DOMAIN sources /\ wave.use + 1 \in 1..Len(ScannedUses)
    BY <1>t, ScannedPlace
  <2>2. QED BY <1>c, <1>t, <2>1, PlaceIntro DEF ScannedUses
<1>2. c \in Mentions(f)
  BY <1>1 DEF Mentions
<1>3. f # None
  BY ProjectLoaderAssumption
<1>4. ASSUME NEW p \in Places, Seen(p) PROVE Earlier(p, c)
  <2>1. p[1] \in Nat /\ p[2] \in Nat
    BY <1>t, PlaceFacts
  <2>2. p[1] <= graph.next \/ (p[1] = graph.next + 1 /\ p[2] <= wave.use)
    BY <1>4 DEF Seen
  <2>3. p[1] < c[1] \/ (p[1] = c[1] /\ p[2] < c[2])
    BY <1>1, <1>t, <2>1, <2>2
  <2>4. QED BY <2>3 DEF Earlier
<1>5. ASSUME NEW q \in Mentions(f) PROVE q = c \/ Earlier(c, q)
  <2>1. q \in Places /\ UseAt(q).local = f
    BY <1>5 DEF Mentions
  <2>2. ~ Seen(q)
    BY <1>3, <2>1 DEF DoneInv
  <2>3. /\ q[1] \in Nat /\ q[2] \in Nat /\ q = <<q[1], q[2]>> /\ c = <<c[1], c[2]>>
    BY <1>1, <1>t, <2>1, PlaceFacts
  <2>4. ~ (q[1] <= graph.next) /\ ~ (q[1] = graph.next + 1 /\ q[2] <= wave.use)
    BY <2>2 DEF Seen
  <2>5. c[1] < q[1] \/ (c[1] = q[1] /\ (c[2] < q[2] \/ c[2] = q[2]))
    BY <1>1, <1>t, <2>3, <2>4
  <2>6. QED BY <2>3, <2>5 DEF Earlier
<1>6. IsFirst(c, Mentions(f))
  BY <1>2, <1>5 DEF IsFirst
<1>7. c \in Places' /\ IsFirst(c, Mentions(f)') /\ Grows /\ BaseInv'
  BY <1>1, <1>6, <1>n, StepFacts, FirstStaysInPlaces
<1>8. Seen(c)'
  <2>1. wave.use # Len(ScannedUses)
    <3>1. wave.use + 1 \in 1..Len(ScannedUses)
      BY <1>t, ScannedPlace
    <3>2. QED BY <1>t, <3>1
  <2>2. graph'.next = graph.next /\ wave'.use = wave.use + 1
    BY <1>n, <1>t, <2>1, GraphFields, WaveFields DEF NextSource
  <2>3. c[1] = graph'.next + 1 /\ c[2] <= wave'.use
    BY <1>1, <1>t, <2>2
  <2>4. QED BY <2>3 DEF Seen
<1>9. FoundAndSeen(f)'
  BY <1>7, <1>8 DEF FoundAndSeen
<1>10. ASSUME NEW g, FoundAndSeen(g) PROVE FoundBefore(g, f)'
  <2>1. PICK p \in Places : IsFirst(p, Mentions(g)) /\ Seen(p)
    BY <1>10 DEF FoundAndSeen
  <2>2. p \in Places' /\ IsFirst(p, Mentions(g)') /\ Earlier(p, c)
    BY <1>4, <1>7, <1>n, <2>1, StepFacts, FirstStaysInPlaces
  <2>3. QED BY <1>7, <2>2 DEF FoundBefore
<1>11. QED BY <1>9, <1>10

LEMMA OrderStep ==
    ASSUME BaseInv, DoneInv, OrderInv, Next
    PROVE  OrderInv'
<1> DEFINE n == Len(wave.found)
           U == (wave.pushed + 1)..n
           m == Len(sources)
<1>t. /\ Typed /\ CursorInv /\ wave.pushed \in Nat /\ n \in Nat /\ m \in Nat /\ DOMAIN sources = 1..m
      /\ wave.found \in Seq(File)
  BY FieldTypes DEF BaseInv
<1>u. Unpushable = {wave.found[k] : k \in U}
  BY DEF Unpushable
<1>i. /\ \A i \in DOMAIN sources : sources[i].by = "graph" => FoundAndSeen(sources[i].file)
      /\ \A f \in Unpushable : FoundAndSeen(f)
      /\ \A i, j \in DOMAIN sources : i < j /\ sources[i].by = "graph" /\ sources[j].by = "graph"
            => FoundBefore(sources[i].file, sources[j].file)
      /\ \A i \in DOMAIN sources : \A f \in Unpushable :
            sources[i].by = "graph" => FoundBefore(sources[i].file, f)
      /\ \A k, l \in U : k < l => FoundBefore(wave.found[k], wave.found[l])
  BY DEF OrderInv
<1>k. \A f : (FoundAndSeen(f) => FoundAndSeen(f)') /\ \A g : FoundBefore(f, g) => FoundBefore(f, g)'
  BY FoundKept
\* The parts of the invariant in the new state, with rigid names for the files.
<1> DEFINE N1 == \A i \in DOMAIN sources' : \A f :
                    sources'[i].by = "graph" /\ sources'[i].file = f => FoundAndSeen(f)'
           N2 == \A f \in Unpushable' : FoundAndSeen(f)'
           N3 == \A i, j \in DOMAIN sources' : \A f, g :
                    /\ i < j /\ sources'[i].by = "graph" /\ sources'[j].by = "graph"
                    /\ sources'[i].file = f /\ sources'[j].file = g
                    => FoundBefore(f, g)'
           N4 == \A i \in DOMAIN sources' : \A g \in Unpushable' : \A f :
                    sources'[i].by = "graph" /\ sources'[i].file = f => FoundBefore(f, g)'
           N5 == \A k, l \in (wave'.pushed + 1)..Len(wave'.found) : \A f, g :
                    k < l /\ wave'.found[k] = f /\ wave'.found[l] = g => FoundBefore(f, g)'
<1>s. ASSUME N1, N2, N3, N4, N5 PROVE OrderInv'
  BY <1>s DEF OrderInv
\* What an appended source that is not of the graph's leaves alone.
<1>c. ASSUME \A i \in DOMAIN sources' : sources'[i].by = "graph" =>
                i \in DOMAIN sources /\ sources'[i] = sources[i]
      PROVE  N1 /\ N3 /\ (Unpushable' \subseteq Unpushable => N2 /\ N4)
  <2>1. N1
    BY <1>c, <1>i, <1>k
  <2>2. N3
    BY <1>c, <1>i, <1>k
  <2>3. ASSUME Unpushable' \subseteq Unpushable PROVE N2 /\ N4
    BY <1>c, <1>i, <1>k, <2>3
  <2> HIDE DEF N1, N2, N3, N4
  <2>4. QED BY <2>1, <2>2, <2>3
\* The files still to be pushed keep their order.
<1>d. ASSUME \A k \in (wave'.pushed + 1)..Len(wave'.found) : k \in U /\ wave'.found[k] = wave.found[k]
      PROVE  N5
  <2> HIDE DEF U
  <2>1. QED BY <1>d, <1>i, <1>k
<1>1. CASE ScanUse
  <2>1. UNCHANGED sources /\ wave'.pushed = wave.pushed
    BY <1>1, <1>t, WaveFields DEF ScanUse, list
  <2>2. PICK f : f = ScannedUses[wave.use + 1].local
    OBVIOUS
  <2>3. CASE wave'.found = wave.found /\ Unpushable' = Unpushable
    <3>1. N5
      BY <1>d, <2>1, <2>3
    <3> HIDE DEF N1, N2, N3, N4, N5
    <3>2. QED BY <1>c, <1>s, <2>1, <2>3, <3>1
  <2>4. CASE /\ f \in File \ graph.known /\ Unpushable' = Unpushable \cup {f}
             /\ wave'.found = Append(wave.found, f)
    <3>1. FoundAndSeen(f)' /\ \A g : FoundAndSeen(g) => FoundBefore(g, f)'
      BY <1>1, <2>2, <2>4, ScannedFirst
    <3>2. /\ Len(wave'.found) = n + 1 /\ wave'.found[n + 1] = f
          /\ \A k \in 1..n : wave'.found[k] = wave.found[k]
      BY <1>t, <2>4, AppendOne
    <3>3. \A k \in (wave'.pushed + 1)..Len(wave'.found) :
              (k \in U /\ wave'.found[k] = wave.found[k]) \/ k = n + 1
      BY <1>t, <2>1, <3>2
    <3>4. ASSUME NEW k \in (wave'.pushed + 1)..Len(wave'.found),
                 NEW l \in (wave'.pushed + 1)..Len(wave'.found), k < l,
                 NEW g, NEW h, wave'.found[k] = g, wave'.found[l] = h
          PROVE  FoundBefore(g, h)'
      <4>1. k \in U /\ wave.found[k] = g
        <5>1. k # n + 1
          BY <1>t, <2>1, <3>2, <3>4
        <5>2. QED BY <3>3, <3>4, <5>1
      <4>2. CASE l \in U /\ wave'.found[l] = wave.found[l]
        BY <1>i, <1>k, <3>4, <4>1, <4>2
      <4>3. CASE l = n + 1
        <5>1. h = f
          BY <3>2, <3>4, <4>3
        <5>2. g \in Unpushable
          BY <1>u, <4>1
        <5>3. QED BY <1>i, <3>1, <5>1, <5>2
      <4>4. QED BY <3>3, <4>2, <4>3
    <3>5. N5
      BY <3>4
    <3>6. N2
      BY <1>i, <1>k, <2>4, <3>1
    <3>7. N4
      BY <1>i, <1>k, <2>1, <2>4, <3>1
    <3> HIDE DEF N1, N2, N3, N4, N5
    <3>8. QED BY <1>c, <1>s, <2>1, <3>5, <3>6, <3>7
  <2>5. QED BY <1>1, <2>2, <2>3, <2>4, ScannedUnpushable
<1>2. CASE PushNext
  <2>1. PICK f : f = wave.found[wave.pushed + 1]
    OBVIOUS
  <2>2. Unpushable = Unpushable' \cup {f} /\ f \in Unpushable
    BY <1>2, <2>1, PushedUnpushable
  <2>3. wave'.found = wave.found /\ wave'.pushed = wave.pushed + 1 /\ wave.pushed + 1 \in U
    BY <1>2, <1>t, WaveFields, PushedFile
  <2>4. \A k \in (wave'.pushed + 1)..Len(wave'.found) : k \in U /\ wave.pushed + 1 < k
    BY <1>t, <2>3
  <2>5. \A g \in Unpushable' : FoundBefore(f, g)
    <3>1. ASSUME NEW g \in Unpushable' PROVE FoundBefore(f, g)
      <4>1. PICK k \in (wave'.pushed + 1)..Len(wave'.found) : g = wave'.found[k]
        BY <3>1 DEF Unpushable
      <4>2. QED BY <1>i, <2>1, <2>3, <2>4, <4>1
    <3>2. QED BY <3>1
  <2>6. ASSUME NEW k \in (wave'.pushed + 1)..Len(wave'.found),
               NEW l \in (wave'.pushed + 1)..Len(wave'.found), k < l,
               NEW g, NEW h, wave'.found[k] = g, wave'.found[l] = h
        PROVE  FoundBefore(g, h)'
    BY <1>i, <1>k, <2>3, <2>4, <2>6
  <2> HIDE DEF U
  <2>e. N5
    BY <2>6
  <2>7. CASE UNCHANGED sources
    <3> HIDE DEF N1, N2, N3, N4, N5
    <3>1. QED BY <1>c, <1>s, <2>2, <2>7, <2>e
  <2>8. CASE Appends(f, "graph")
    <3>1. "graph" \in Origin
      BY DEF Origin
    <3>2. /\ DOMAIN sources' = 1..(m + 1)
          /\ \A i \in 1..m : sources'[i] = sources[i]
          /\ sources'[m + 1].file = f
      BY <1>t, <2>8, <3>1, AppendedSources
    <3>3. \A i \in DOMAIN sources' :
              (i \in DOMAIN sources /\ sources'[i] = sources[i]) \/ i = m + 1
      BY <1>t, <3>2
    <3>4. ASSUME NEW i \in DOMAIN sources', sources'[i].by = "graph", NEW g, sources'[i].file = g
          PROVE  FoundAndSeen(g)' /\ \A h \in Unpushable' : FoundBefore(g, h)'
      <4>1. CASE i \in DOMAIN sources /\ sources'[i] = sources[i]
        BY <1>i, <1>k, <2>2, <3>4, <4>1
      <4>2. CASE i = m + 1
        BY <1>i, <1>k, <2>2, <2>5, <3>2, <3>4, <4>2
      <4>3. QED BY <3>3, <4>1, <4>2
    <3>5. ASSUME NEW i \in DOMAIN sources', NEW j \in DOMAIN sources', i < j,
                 sources'[i].by = "graph", sources'[j].by = "graph",
                 NEW g, NEW h, sources'[i].file = g, sources'[j].file = h
          PROVE  FoundBefore(g, h)'
      <4>1. i \in DOMAIN sources /\ sources'[i] = sources[i]
        BY <1>t, <3>2, <3>5
      <4>2. CASE j \in DOMAIN sources /\ sources'[j] = sources[j]
        BY <1>i, <1>k, <3>5, <4>1, <4>2
      <4>3. CASE j = m + 1
        BY <1>i, <1>k, <2>2, <3>2, <3>5, <4>1, <4>3
      <4>4. QED BY <3>3, <4>2, <4>3
    <3>6. \A g \in Unpushable' : FoundAndSeen(g)'
      BY <1>i, <1>k, <2>2
    <3>7. N1 /\ N4
      BY <3>4
    <3>8. N3
      BY <3>5
    <3> HIDE DEF N1, N3, N4, N5
    <3>9. QED BY <1>s, <2>e, <3>6, <3>7, <3>8
  <2>9. QED BY <1>2, <2>1, <2>7, <2>8, PushedFile
<1>3. CASE ~ (ScanUse \/ PushNext)
  <2>1. \A i \in DOMAIN sources' : sources'[i].by = "graph" =>
            i \in DOMAIN sources /\ sources'[i] = sources[i]
    BY <1>3, GraphSources
  <2>2. Unpushable' = Unpushable
    BY <1>3, UnpushableFrame
  <2>3. \A k \in (wave'.pushed + 1)..Len(wave'.found) : k \in U /\ wave'.found[k] = wave.found[k]
    <3>1. CASE OpenWave
      <4>1. wave'.pushed = 0 /\ Len(wave'.found) = 0
        BY <1>t, <3>1, WaveFields
      <4>2. QED BY <4>1
    <3>2. CASE EndWave
      <4>1. wave' = NoWave
        BY <1>t, <3>2, WaveFields
      <4>2. wave'.pushed = 0 /\ Len(wave'.found) = 0
        BY <4>1 DEF NoWave
      <4>3. QED BY <4>2
    <3>3. CASE NextSource
      BY <1>t, <3>3, WaveFields
    <3>4. CASE ~ (OpenWave \/ EndWave \/ NextSource)
      BY <1>3, <3>4, Frame
    <3>5. QED BY <3>1, <3>2, <3>3, <3>4
  <2>4. N5
    BY <1>d, <2>3
  <2> HIDE DEF N1, N2, N3, N4, N5
  <2>5. QED BY <1>c, <1>s, <2>1, <2>2, <2>4
<1>4. QED BY <1>1, <1>2, <1>3

-----------------------------------------------------------------------------
(* The inductive invariant. *)

IInv == BaseInv /\ DoneInv /\ QueueInv /\ RequestInv /\ FallbackInv /\ OrderInv

LEMMA InvariantInit == Init => IInv
<1> SUFFICES ASSUME Init PROVE IInv
  OBVIOUS
<1>1. BaseInv
  BY BaseInit
<1>2. DOMAIN sources = {} /\ DOMAIN requests = {} /\ DOMAIN resolved = {} /\ referenced = {}
      /\ pc = "roots"
  BY DEF Init
<1>3. Places = {}
  BY <1>2 DEF Places
<1>4. Unpushable = {}
  BY <1>1, <1>2, NoneUnpushable
<1>5. (wave.pushed + 1)..Len(wave.found) = {}
  <2>1. wave.found = <<>> /\ wave.pushed = 0
    BY DEF Init, NoWave
  <2>2. Len(wave.found) = 0
    BY <2>1
  <2>3. QED BY <2>1, <2>2
<1>6. DoneInv
  BY <1>2, <1>3 DEF DoneInv
<1>7. QueueInv /\ RequestInv /\ FallbackInv
  BY <1>2 DEF QueueInv, RequestInv, FallbackInv
<1>8. OrderInv
  BY <1>2, <1>4, <1>5 DEF OrderInv
<1>9. QED BY <1>1, <1>6, <1>7, <1>8 DEF IInv

LEMMA InvariantStep ==
    ASSUME IInv, Next
    PROVE  IInv'
BY BaseStep, DoneStep, QueueStep, RequestStep, FallbackStep, OrderStep DEF IInv

\* The invariant depends on the variables only.
LEMMA InvariantStutter ==
    ASSUME IInv, UNCHANGED vars
    PROVE  IInv'
<1>v. /\ world' = world /\ pc' = pc /\ sources' = sources /\ before' = before /\ loading' = loading
      /\ scanned' = scanned /\ at' = at /\ requests' = requests /\ queued' = queued
      /\ graph' = graph /\ wave' = wave /\ reads' = reads
      /\ referenced' = referenced /\ pending' = pending /\ resolved' = resolved
  BY DEF vars, list, packages, expansion, references, answers
<1>1. Typed'
  BY <1>v DEF IInv, BaseInv, Typed, ListTyped, AtTyped, QueueTyped, GraphTyped, WaveTyped, ReadsTyped,
     ReferencesTyped
<1>2. LoadedOnce' /\ OwnText'
  BY <1>v DEF IInv, BaseInv, LoadedOnce, OwnText
<1>u. Unpushable' = Unpushable /\ InGraph' = InGraph
  BY <1>v DEF Unpushable, InGraph
<1>3. CursorInv'
  BY <1>v DEF IInv, BaseInv, CursorInv, PcInv, BoundsInv, PackageCursorInv, WaveCursorInv, RoundInv,
     RootsInv, InGraph, UsesOf
<1>4. KnownInv'
  BY <1>v, <1>u DEF IInv, BaseInv, KnownInv, InGraph
<1>5. ReadInv'
  BY <1>v DEF IInv, BaseInv, ReadInv, OutInv, JoinInv, TextOf
<1>6. NamedInv'
  BY <1>v, <1>u DEF IInv, BaseInv, NamedInv
<1>p. Places' = Places
  BY <1>v DEF Places, UsesOf
<1>q. \A p : /\ UseAt(p)' = UseAt(p) /\ KeyOf(p)' = KeyOf(p)
             /\ (Seen(p)' <=> Seen(p)) /\ (Collected(p)' <=> Collected(p))
  BY <1>v DEF UseAt, UsesOf, KeyOf, Seen, Collected
<1>r. \A r : PlacesOf(r)' = PlacesOf(r)
  BY <1>v, <1>p, <1>q DEF PlacesOf
<1>s. \A p : Requested(p)' <=> Requested(p)
  BY <1>v, <1>r DEF Requested
<1>h. \A u : Handled(u)' <=> Handled(u)
  BY <1>v DEF Handled
<1>7. DoneInv'
  BY <1>v, <1>p, <1>q, <1>s, <1>h DEF IInv, DoneInv
<1>8. QueueInv'
  BY <1>v, <1>p, <1>q DEF IInv, QueueInv
<1>9. RequestInv'
  BY <1>v, <1>p, <1>q, <1>r DEF IInv, RequestInv
<1>10. \A n : Resolutions(n)' = Resolutions(n) /\ Mentions(n)' = Mentions(n)
  BY <1>p, <1>q DEF Resolutions, Mentions
<1>11. FallbackInv'
  BY <1>v, <1>p, <1>q, <1>10 DEF IInv, FallbackInv
<1>12. \A f : (FoundAndSeen(f)' <=> FoundAndSeen(f)) /\ \A g : FoundBefore(f, g)' <=> FoundBefore(f, g)
  BY <1>p, <1>q, <1>10 DEF FoundAndSeen, FoundBefore
<1>13. OrderInv'
  BY <1>v, <1>u, <1>12 DEF IInv, OrderInv
<1>14. QED
  BY <1>1, <1>2, <1>3, <1>4, <1>5, <1>6, <1>7, <1>8, <1>9, <1>11, <1>13 DEF IInv, BaseInv

\* The loader's cursors, what each scanner has passed and what it still has to do are
\* related as the invariant says in every state that it reaches.
THEOREM LoaderInvariant == Spec => []IInv
<1>1. IInv /\ [Next]_vars => IInv'
  BY InvariantStep, InvariantStutter
<1>2. QED BY <1>1, InvariantInit, PTL DEF Spec

-----------------------------------------------------------------------------
(* The properties. *)

\* No file is loaded twice, in any file system, though three scanners load and each keeps
\* its own account of what is known.
THEOREM AlwaysLoadedOnce == Spec => []LoadedOnce
<1>1. IInv => LoadedOnce
  BY DEF IInv, BaseInv
<1>2. QED BY <1>1, LoaderInvariant, PTL

\* Every source has the text of its own file, however many readers a wave had and in
\* whatever order they finished.
THEOREM AlwaysOwnText == Spec => []OwnText
<1>1. IInv => OwnText
  BY DEF IInv, BaseInv
<1>2. QED BY <1>1, LoaderInvariant, PTL

LEMMA InDiscoveryOrder ==
    ASSUME IInv
    PROVE  DiscoveryOrder
<1> SUFFICES ASSUME NEW i \in DOMAIN sources, NEW j \in DOMAIN sources, i < j,
                    sources[i].by = "graph", sources[j].by = "graph"
             PROVE  Earlier(First(Mentions(sources[i].file)), First(Mentions(sources[j].file)))
  BY DEF DiscoveryOrder
<1>1. PICK f, g : f = sources[i].file /\ g = sources[j].file
  OBVIOUS
<1>2. FoundBefore(f, g)
  BY <1>1 DEF IInv, OrderInv
<1>3. PICK p \in Places, q \in Places :
          IsFirst(p, Mentions(f)) /\ IsFirst(q, Mentions(g)) /\ Earlier(p, q)
  BY <1>2 DEF FoundBefore
<1>4. Typed /\ Mentions(f) \subseteq Places /\ Mentions(g) \subseteq Places
  BY DEF IInv, BaseInv, Mentions
<1>5. First(Mentions(f)) = p /\ First(Mentions(g)) = q
  BY <1>3, <1>4, FirstIsFirst
<1>6. QED BY <1>1, <1>3, <1>5

\* The import graph appends files in the order of the first specifiers that name them,
\* though it reads them wave by wave and each wave with several threads.
THEOREM AlwaysDiscoveryOrder == Spec => []DiscoveryOrder
BY InDiscoveryOrder, LoaderInvariant, PTL

\* A place that package resolution answers has been queued and resolved in the end.
LEMMA Answered ==
    ASSUME IInv, pc = "done" \/ (pc = "references" /\ scanned = Len(sources)),
           NEW p \in Places, UseAt(p).package # None
    PROVE  Handled(UseAt(p))
<1>1. Typed /\ CursorInv /\ DoneInv
  BY DEF IInv, BaseInv
<1>2. scanned = Len(sources) /\ requests = <<>> /\ pc # "packages"
  BY <1>1 DEF CursorInv, RoundInv, PackageCursorInv
<1>3. /\ sources[p[1]].text \in File /\ UseAt(p) \in ToSet(UsesOf(sources[p[1]]))
      /\ p[1] \in 1..Len(sources) /\ Len(sources) \in Nat
  BY <1>1, PlaceFacts, FieldTypes
<1>4. UseAt(p).kind # "none"
  BY <1>1, <1>3, WorldFacts DEF UsesOf, Typed
<1>5. Collected(p)
  BY <1>2, <1>3 DEF Collected
<1>6. ~ Requested(p)
  BY <1>2 DEF Requested
<1>7. QED BY <1>1, <1>4, <1>5, <1>6 DEF DoneInv

LEMMA ResolvedFirstInTheEnd ==
    ASSUME IInv
    PROVE  FirstResolution
<1> SUFFICES ASSUME pc = "done"
             PROVE  /\ DOMAIN resolved = {n \in Name : Resolutions(n) # {}}
                    /\ \A n \in DOMAIN resolved :
                          resolved[n] = UseAt(First(Resolutions(n))).package
  BY DEF FirstResolution
<1>1. ASSUME NEW n \in DOMAIN resolved
      PROVE  n \in Name /\ Resolutions(n) # {} /\ resolved[n] = UseAt(First(Resolutions(n))).package
  <2>1. PICK p \in Places : IsFirst(p, Resolutions(n)) /\ resolved[n] = UseAt(p).package
    BY DEF IInv, FallbackInv
  <2>2. Typed /\ Resolutions(n) \subseteq Places
    BY DEF IInv, BaseInv, Resolutions
  <2>3. First(Resolutions(n)) = p
    BY <2>1, <2>2, FirstIsFirst
  <2>4. n \in Name /\ p \in Resolutions(n)
    BY <2>1 DEF IInv, FallbackInv, IsFirst
  <2>5. QED BY <2>1, <2>3, <2>4
<1>2. ASSUME NEW n \in Name, Resolutions(n) # {}
      PROVE  n \in DOMAIN resolved
  <2>1. PICK p \in Places : UseAt(p).name = n /\ UseAt(p).package # None /\ UseAt(p).usage \notin Overrides
    BY <1>2 DEF Resolutions
  <2>2. QED BY <2>1, Answered DEF Handled
<1>3. QED BY <1>1, <1>2

\* When loading is done, the project-wide fallback answers the specifiers that package
\* resolution answers somewhere, each with its first resolution, whatever the rounds in
\* which the files were found.
THEOREM AlwaysFirstResolution == Spec => []FirstResolution
BY ResolvedFirstInTheEnd, LoaderInvariant, PTL

-----------------------------------------------------------------------------
(* The loader implements the closure. *)

\* What the closure takes for the graph of the files.
AbstractGraph == [roots |-> ToSet(world.roots), types |-> ToSet(world.types),
                  readable |-> world.readable, names |-> [f \in File |-> NamedBy(f)]]

LEMMA AbstractGraphStays ==
    ASSUME world' = world
    PROVE  AbstractGraph' = AbstractGraph
<1>1. \A f : NamedBy(f)' = NamedBy(f)
  BY DEF NamedBy
<1>2. [f \in File |-> NamedBy(f)]' = [f \in File |-> NamedBy(f)]
  BY <1>1
<1>3. QED BY <1>2 DEF AbstractGraph

\* What a file names: its references, the files the graph finds and those of packages.
LEMMA NamedByFacts ==
    ASSUME NEW g, NEW f \in File
    PROVE  f \in NamedBy(g) <=>
              \/ f \in ToSet(world.refs[g])
              \/ \E u \in ToSet(world.uses[g]) :
                    u.local = f \/ (u.kind \in {"declaration", "json"} /\ u.package = f)
<1>1. f # None
  BY ProjectLoaderAssumption
<1>2. QED BY <1>1 DEF NamedBy

\* The files that the closure misses.
LEMMA MissingFacts ==
    ASSUME IInv, NEW f \in File
    PROVE  f \in Closure!Missing <=>
              /\ f \in world.readable /\ f \notin Files(sources)
              /\ f \in ToSet(world.types) \/ \E g \in Files(sources) : f \in NamedBy(g)
<1>1. Files(sources) \subseteq File
  BY UsesFacts DEF IInv, BaseInv, Files
<1> DEFINE N == [g \in File |-> NamedBy(g)]
<1>2. \A g \in Files(sources) : N[g] = NamedBy(g)
  BY <1>1
<1>3. AbstractGraph.names = N /\ AbstractGraph.types = ToSet(world.types)
      /\ AbstractGraph.readable = world.readable
  BY DEF AbstractGraph
<1>4. Closure!Missing =
        ((AbstractGraph.types \cup UNION {AbstractGraph.names[g] : g \in Files(sources)})
            \cap AbstractGraph.readable) \ Files(sources)
  BY DEF Closure!Missing, AbstractGraph
<1> HIDE DEF N
<1>5. f \in UNION {N[g] : g \in Files(sources)} <=> \E g \in Files(sources) : f \in NamedBy(g)
  BY <1>2
<1>6. QED BY <1>3, <1>4, <1>5

\* What a step appends is missing.
LEMMA AppendedMissing ==
    ASSUME IInv, Next, ~ ReadRoots, ~ UNCHANGED sources
    PROVE  /\ \E f \in File : f \in Closure!Missing /\ Files(sources') = Files(sources) \cup {f}
           /\ pc \notin {"roots", "failed", "done"} /\ pc' = pc
<1>t. Typed /\ BaseInv /\ {"types", "reference", "package", "graph"} \subseteq Origin
  BY DEF IInv, BaseInv, Origin
\* What is appended is the file.
<1>a. ASSUME NEW f, NEW by \in Origin, Appends(f, by),
             f \in ToSet(world.types) \/ \E g \in Files(sources) : f \in NamedBy(g)
      PROVE  \E h \in File : h \in Closure!Missing /\ Files(sources') = Files(sources) \cup {h}
  <2>1. /\ f \in File /\ f \notin Files(sources) /\ f \in world.readable
        /\ Files(sources') = Files(sources) \cup {f}
    BY <1>a, <1>t, AppendedSources
  <2>2. f \in Closure!Missing
    BY <1>a, <2>1, MissingFacts
  <2>3. QED BY <2>1, <2>2
<1>n. NamedInv
  BY <1>t DEF BaseInv
<1>1. CASE TypePackage
  <2>1. LoadNext("types") /\ pc = "types" /\ pc' = "types" /\ loading # <<>>
    BY <1>1, PcOf DEF TypePackage, LoadNext
  <2>2. Appends(Head(loading), "types")
    BY <1>t, <2>1, LoadedNext
  <2>3. Head(loading) \in ToSet(world.types)
    BY <1>n, <1>t, <2>1, ToSetOfTail DEF NamedInv, Typed, ListTyped
  <2>4. QED BY <1>a, <1>t, <2>1, <2>2, <2>3
<1>2. CASE LoadReference
  <2>1. LoadNext("reference") /\ pc = "references" /\ pc' = "references" /\ loading # <<>>
    BY <1>2, PcOf DEF LoadReference, LoadNext
  <2>2. Appends(Head(loading), "reference") /\ Head(loading) \in File
    BY <1>t, <2>1, LoadedNext
  <2>3. Head(loading) \in ToSet(loading)
    BY <1>t, <2>1, ToSetOfTail DEF Typed, ListTyped
  <2>4. \E g \in Files(sources) : Head(loading) \in ToSet(world.refs[g])
    BY <1>n, <2>1, <2>3 DEF NamedInv
  <2>5. \E g \in Files(sources) : Head(loading) \in NamedBy(g)
    BY <2>2, <2>4, NamedByFacts
  <2>6. QED BY <1>a, <1>t, <2>1, <2>2, <2>5
<1>3. CASE ResolvePackage
  <2> DEFINE u == Head(requests).use
             g == Head(requests).importer
  <2>1. requests # <<>> /\ pc = "packages" /\ pc' = "packages"
    BY <1>3, PcOf DEF ResolvePackage
  <2>2. Loads(u) /\ Appends(u.package, "package")
    BY <1>3, <1>t, LoadedPackage
  <2>3. g \in Files(sources) /\ u \in ToSet(world.uses[g])
    BY <1>t, <2>1, RequestFacts
  <2>4. u.kind \in {"declaration", "json"} /\ u.package \in File
    BY <2>2 DEF Loads, Appends
  <2> HIDE DEF u, g
  <2>5. u.package \in NamedBy(g)
    BY <2>3, <2>4, NamedByFacts
  <2>6. QED BY <1>a, <1>t, <2>1, <2>2, <2>3, <2>5
<1>4. CASE PushNext
  <2> DEFINE f == wave.found[wave.pushed + 1]
  <2>1. f \in Unpushable /\ Appends(f, "graph") /\ pc = "push" /\ pc' = "push"
    BY <1>4, <1>t, PushedFile, PcOf
  <2> HIDE DEF f
  <2>2. \E g \in Files(sources) : \E u \in ToSet(world.uses[g]) : u.local = f
    BY <1>n, <2>1 DEF NamedInv
  <2>3. f \in File
    BY <2>1 DEF Appends
  <2>4. \E g \in Files(sources) : f \in NamedBy(g)
    BY <2>2, <2>3, NamedByFacts
  <2>5. QED BY <1>a, <1>t, <2>1, <2>4
<1>5. QED BY <1>1, <1>2, <1>3, <1>4, SourcesFrame

\* When the last round has added nothing, nothing is missing.
LEMMA SettledComplete ==
    ASSUME IInv, EndRound, Settled
    PROVE  Closure!Missing = {}
<1>1. pc = "references" /\ loading = <<>> /\ Unscanned = {} /\ Len(sources) = before
  BY DEF EndRound, AtDirectives, Settled
<1>t. /\ Typed /\ BaseInv /\ DoneInv /\ OwnText /\ KnownInv
      /\ Len(sources) \in Nat /\ scanned \in Nat /\ graph.next \in Nat
      /\ DOMAIN sources = 1..Len(sources)
  BY FieldTypes DEF IInv, BaseInv
<1>2. scanned = Len(sources) /\ graph.next = Len(sources)
  <2>1. before <= scanned /\ scanned <= graph.next
    BY <1>1 DEF IInv, BaseInv, CursorInv, RoundInv
  <2>2. scanned <= Len(sources) /\ graph.next <= Len(sources)
    BY DEF IInv, BaseInv, CursorInv, BoundsInv
  <2>3. QED BY <1>1, <1>t, <2>1, <2>2
<1>3. ToSet(loading) = {} /\ Unpushable = {}
  BY <1>1, <1>t, NoneUnpushable DEF ToSet
<1>4. \A f \in ToSet(world.types) \cap world.readable : f \in Files(sources)
  BY <1>1, <1>t DEF DoneInv
<1>5. ASSUME NEW g \in Files(sources), NEW f \in File, f \in NamedBy(g), f \in world.readable
      PROVE  f \in Files(sources)
  <2>1. PICK i \in DOMAIN sources : g = sources[i].file
    BY <1>5 DEF Files
  <2>2. sources[i].text = g /\ i \in 1..Len(sources)
    BY <1>t, <2>1 DEF OwnText
  <2>3. CASE f \in ToSet(world.refs[g])
    <3>1. g \in referenced
      BY <1>1, <2>1 DEF Unscanned
    <3>2. f \in ToSet(world.refs[g]) \cap world.readable
      BY <1>5, <2>3
    <3>3. QED BY <1>3, <1>t, <3>1, <3>2 DEF DoneInv
  <2>4. ASSUME NEW u \in ToSet(world.uses[g]),
               u.local = f \/ (u.kind \in {"declaration", "json"} /\ u.package = f)
        PROVE  f \in Files(sources)
    <3>1. UsesOf(sources[i]) = world.uses[g]
      BY <2>2 DEF UsesOf
    <3>2. PICK k \in DOMAIN UsesOf(sources[i]) : u = UsesOf(sources[i])[k]
      BY <2>4, <3>1 DEF ToSet
    <3>3. k \in 1..Len(UsesOf(sources[i]))
      BY <1>t, <3>2, UsesFacts
    <3>4. PICK p : p = <<i, k>>
      OBVIOUS
    <3>5. p \in Places /\ UseAt(p) = u /\ p[1] = i
      BY <1>t, <3>2, <3>3, <3>4, PlaceIntro
    <3>6. f # None
      BY ProjectLoaderAssumption
    <3>7. CASE u.local = f
      <4>1. Seen(p)
        BY <1>2, <2>2, <3>5 DEF Seen
      <4>2. f \in graph.known
        BY <1>t, <3>5, <3>6, <3>7, <4>1 DEF DoneInv
      <4>3. QED BY <1>3, <1>5, <1>t, <4>2 DEF KnownInv
    <3>8. CASE u.kind \in {"declaration", "json"} /\ u.package = f
      <4>1. Handled(u)
        BY <1>1, <1>2, <3>5, <3>6, <3>8, Answered
      <4>2. QED BY <1>5, <3>8, <4>1 DEF Handled
    <3>9. QED BY <2>4, <3>7, <3>8
  <2>5. QED BY <1>5, <2>3, <2>4, NamedByFacts
<1>6. Closure!Missing \subseteq File
  <2>1. world.readable \subseteq File
    BY <1>t, WorldFacts DEF Typed
  <2>2. QED BY <2>1 DEF Closure!Missing
<1>7. ASSUME NEW f \in Closure!Missing PROVE FALSE
  <2>1. f \in File
    BY <1>6, <1>7
  <2>2. QED BY <1>4, <1>5, <1>7, <2>1, MissingFacts
<1>8. QED BY <1>7

\* After the roots, there are files.
LEMMA SomeFiles ==
    ASSUME IInv
    PROVE  /\ pc \in {"roots", "failed"} => Files(sources) = {}
           /\ pc \notin {"roots", "failed"} => Files(sources) # {}
<1>1. RootsInv /\ Typed
  BY DEF IInv, BaseInv, CursorInv
<1>2. ASSUME pc \in {"roots", "failed"} PROVE Files(sources) = {}
  BY <1>1, <1>2 DEF RootsInv, Files
<1>3. ASSUME pc \notin {"roots", "failed"} PROVE Files(sources) # {}
  <2>1. world.roots \in Seq(File) /\ world.roots # <<>>
    BY <1>1, WorldFacts DEF Typed
  <2>2. Head(world.roots) \in ToSet(world.roots)
    BY <2>1, ToSetOfTail
  <2>3. QED BY <1>1, <1>3, <2>2 DEF RootsInv
<1>4. QED BY <1>2, <1>3

LEMMA ClosureStep ==
    ASSUME IInv, Next
    PROVE  [Closure!Next]_Closure!vars
<1>b. BaseInv /\ Typed
  BY DEF IInv, BaseInv
<1>w. world' = world /\ AbstractGraph' = AbstractGraph
  BY <1>b, StepFacts, AbstractGraphStays
<1>1. CASE ReadRoots
  <2>1. pc = "roots" /\ ~ Over /\ Files(sources) = {}
    BY <1>1, PcOf, SomeFiles DEF Over
  <2>2. CASE ToSet(world.roots) \subseteq world.readable
    <3>1. Files(sources') = ToSet(world.roots) /\ pc' = "types"
      BY <1>1, <1>b, <2>2, RootSources
    <3>2. Over' = Over
      BY <2>1, <3>1 DEF Over
    <3>3. Closure!LoadRoots
      BY <1>w, <2>1, <2>2, <3>1, <3>2 DEF Closure!LoadRoots, AbstractGraph
    <3>4. QED BY <3>3 DEF Closure!Next
  <2>3. CASE ~ (ToSet(world.roots) \subseteq world.readable)
    <3>1. UNCHANGED sources /\ pc' = "failed"
      BY <1>1, <1>b, <2>3, RootSources
    <3>2. Over' = TRUE
      BY <3>1 DEF Over
    <3>3. Closure!Fail
      BY <1>w, <2>1, <2>3, <3>1, <3>2 DEF Closure!Fail, AbstractGraph
    <3>4. QED BY <3>3 DEF Closure!Next
  <2>4. QED BY <2>2, <2>3
<1>2. CASE ~ ReadRoots /\ ~ UNCHANGED sources
  <2>1. PICK f \in File : f \in Closure!Missing /\ Files(sources') = Files(sources) \cup {f}
    BY <1>2, AppendedMissing
  <2>2. pc \notin {"roots", "failed", "done"} /\ pc' = pc
    BY <1>2, AppendedMissing
  <2>3. ~ Over /\ Over' = Over /\ Files(sources) # {}
    BY <2>2, SomeFiles DEF Over
  <2>4. \E new \in SUBSET Closure!Missing : Files(sources') = Files(sources) \cup new
    <3>1. {f} \in SUBSET Closure!Missing
      BY <2>1
    <3>2. QED BY <2>1, <3>1
  <2>5. Closure!Load
    BY <1>w, <2>3, <2>4 DEF Closure!Load, AbstractGraph
  <2>6. QED BY <2>5 DEF Closure!Next
<1>3. CASE EndRound /\ Settled
  <2>1. pc = "references" /\ pc' = "done" /\ UNCHANGED sources
    BY <1>3 DEF EndRound, AtDirectives, list
  <2>2. ~ Over /\ Over' = TRUE /\ Files(sources) # {}
    BY <2>1, SomeFiles DEF Over
  <2>3. Closure!Missing = {}
    BY <1>3, SettledComplete
  <2>4. Closure!Stop
    BY <1>w, <2>1, <2>2, <2>3 DEF Closure!Stop, AbstractGraph
  <2>5. QED BY <2>4 DEF Closure!Next
<1>4. CASE ~ ReadRoots /\ UNCHANGED sources /\ ~ (EndRound /\ Settled)
  <2>1. Over' = Over
    <3>1. EndRound => pc = "references" /\ pc' = "round"
      BY <1>4 DEF EndRound, AtDirectives
    <3>2. Terminated => pc' = pc
      BY PcOf
    <3>3. ASSUME ~ EndRound, ~ Terminated
          PROVE  pc \notin {"done", "failed"} /\ pc' \notin {"done", "failed"}
      BY <1>4, <3>3, PcOf DEF Next, Step
    <3>4. QED BY <3>1, <3>2, <3>3 DEF Over
  <2>2. UNCHANGED Closure!vars
    BY <1>4, <1>w, <2>1 DEF Closure!vars, AbstractGraph
  <2>3. QED BY <2>2
<1>5. QED BY <1>1, <1>2, <1>3, <1>4

\* The loader finds the least set of files that holds the roots and the type packages
\* and is closed under what files name: it loads nothing else, and when a round that
\* added nothing ends the load, nothing is missing.
THEOREM LoaderImplementsClosure == Spec => ImplementsClosure
<1>1. Init => Closure!Init
  <2> SUFFICES ASSUME Init PROVE Closure!Init
    OBVIOUS
  <2>1. Files(sources) = {} /\ Over = FALSE
    BY DEF Init, Files, Over
  <2>2. QED BY <2>1 DEF Closure!Init
<1>2. IInv /\ [Next]_vars => [Closure!Next]_Closure!vars
  <2> SUFFICES ASSUME IInv, [Next]_vars PROVE [Closure!Next]_Closure!vars
    OBVIOUS
  <2>1. CASE Next
    BY <2>1, ClosureStep
  <2>2. CASE UNCHANGED vars
    <3>1. world' = world /\ sources' = sources /\ pc' = pc
      BY <2>2 DEF vars, list
    <3>2. AbstractGraph' = AbstractGraph
      BY <3>1, AbstractGraphStays
    <3>3. UNCHANGED Closure!vars
      BY <3>1, <3>2 DEF Closure!vars, AbstractGraph, Over
    <3>4. QED BY <3>3
  <2>3. QED BY <2>1, <2>2
<1>3. QED BY <1>1, <1>2, LoaderInvariant, PTL DEF Spec, ImplementsClosure, Closure!Spec
=============================================================================
