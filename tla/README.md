# Verification of surge-ts

surge-ts is a TypeScript checker whose first promise after compatibility is
determinism: `--jobs N` prints the same bytes as `--jobs 1`. The parts that have
to earn this promise are the ones where threads, caches and fixpoints meet:
speculative checking and module analysis on worker threads, the replay pipeline,
the canonical type store, the memos of the type resolver, the project loader and
the resolution of export tables. This project models them in TLA+, model-checks
them with TLC and proves the central claims with TLAPS. Paths below are relative
to `src/crates/surge-ts-checker/src/` unless they start with `crates/`.

## 1. Inventory

| Part | State | Operations | What makes it correct |
|---|---|---|---|
| Resolution caches (`infer/types/cache/mod.rs`) | two maps of capped buckets, four flat maps | look up, intern, capped insert | first writer wins; a hit can change how a type is displayed, so *who* published an entry matters |
| Check sessions (`speculative/session.rs`, `file_log.rs`) | base view (frozen snapshot or live), overlay, current log | begin file, look up, intern, take logs | the log holds everything the file's result depended on |
| Worker phase (`program/check_files.rs` 215-325) | `next_index`, one session per worker | dispatch, check a file, join | overlay dependencies are earlier files |
| Commit walk (`check_files.rs` 590-713, `speculative/commit.rs`) | `published`, `dirty`, `slots`, the live caches | validate, publish, replay, recheck | every committed position is what a serial run would have produced |
| Replay schedule (`commit.rs` 35-154) | `predicted`, `submit_at` | predict, schedule | a scheduled replay starts in time and sees what it was scheduled after |
| Frontier pipeline (`replay.rs`) | queue, results, deferral worklist, `parked`, `defer_count`, two condvars | submit, deliver, take, drain, route, shut down | no wait is for ever, no deferral is lost |
| Reservation table (`speculative/reservation.rs`) | per key and publisher: Pending, Ready, Cancelled | reserve, query, finalize | visibility is positional, the pending count is exact |
| Module analysis (`program/binding.rs` 835-1394) | the same sessions, utility diagnostic keys, the rolling context | analyse, commit, re-analyse | as the commit walk; no diagnostic twice; the serial pass's memo is left behind |
| Interface expansion and memos (`infer/types/interface.rs`, `resolve/named.rs`, `cache/`) | four memos, in-flight marks, the resolving stack, thread-local registers | resolve, re-enter, peel, expand, store | what is kept does not depend on what was open when it was computed |
| Canonical type store (`crates/surge-ts-types/src/store.rs`) | weak interning tables, id counters, memo of overload merges | intern, probe, sweep, merge | one representative per live value |
| Project loader (`crates/surge-ts/src/lib.rs`, `import_graph.rs`, `package_declarations/`) | one list of sources, three cursors, resolution maps | scan packages, expand imports, follow references | every named file once, in an order independent of timing |
| Export tables (`modules/exports/table.rs`) | table per module, modules in progress | resolve, re-enter, merge stars | no invented or unmarked export, whatever cycle is cut |
| Config loading (`crates/surge-ts-config/src/extends.rs`) | chain of configs | resolve extends | cycles end |
| Parsers, checks, inference, flow, assignability, CLI, API, Node binding, metrics | per file or per call | sequential | not concurrent; see section 8 |

The parts interact as follows. `check_program_files_parallel` takes a snapshot
of the caches and starts workers; each owns a session. A worker's `check_program_file`
never writes the live caches; every cache access goes through the session, which
answers from the snapshot and then from the overlay, and logs misses, overlay
dependencies and insertions. When all workers have joined, the coordinator
predicts conflicts, derives a replay schedule and enters
`run_frontier_pipeline`. For each position in serial order (the *frontier*) it
submits due replays to the pool, wakes or parks deferred ones, waits for the
position's own replay if there is one, and commits: the worker's log if no key
it missed has been published and no file it depends on was dirty; otherwise the
replay's log if no key it missed has been published; otherwise the log of an
inline recheck against the live caches. Pool threads read the live caches while
the coordinator writes them.

Before that phase, the project loader turns a configuration into a list of
sources; the modules are analysed twice (a preliminary pass for declarations, a
final one that also lowers global values), by the same kind of sessions when
`SURGE_PARALLEL_ANALYSIS` is set; the export tables are resolved from the
analyses. Resolving a type, in analysis or checking, recurses through interface
declarations and their memos and interns what it builds in the type store, which
all threads share.

The hard behaviours are therefore: replays racing publications, partially
published logs, transitive invalidation through overlays, buckets that fill up,
deferral and requeueing against a moving frontier, wake-ups that happen outside
the lock, waits without timeouts, weak references that die under a reader,
answers computed while something is in flight, fixpoints driven by several
cursors, and cycles cut at a point that depends on the order of the search.
`PROJECT.json` lists them as hazards, each at its line, with the properties that
cover it.

## 2. Modules

| Module | Models | Extends |
|---|---|---|
| `CheckProgram` | what a file's check does to the caches: a deterministic automaton over cache answers | |
| `CheckProgramProofs` | lemmas about the automaton and its logs, shared by the proofs of checking and analysis | `CheckProgram` |
| `SerialCheck` | abstract specification: `check_program_files_serial` | `CheckProgram` |
| `SpeculativeCheck` | sessions, workers, commit walk, replays, for every schedule | `CheckProgram`; instantiates `SerialCheck` |
| `SerialReference` | the serial run as a recursive function (TLC only) | `SpeculativeCheck` |
| `SpeculativeCheckInv` | the inductive invariant | `SpeculativeCheck` |
| `ScheduledCheck` | prediction and schedule, composed with `SpeculativeCheck` | `SpeculativeCheck` |
| `ParallelCheckProofs` | theorems about the parallel checker, for every schedule and for the scheduled one | `ScheduledCheck`, `SpeculativeCheckInv`, `CheckProgramProofs` |
| `ReplayPipeline` | pool, condvars, coordinator loop, deferral, reservation table | |
| `ReplayPipelineProofs` | theorems about the pipeline | `ReplayPipeline` |
| `TypeStore` | interning through weak references by several threads, sweeps, overload merges | |
| `TypeStoreProofs` | theorems about the store | `TypeStore` |
| `ModuleAnalysis` | workers and walk of the parallel module analysis | `CheckProgram` |
| `ModuleAnalysisProofs` | theorems about the analysis | `ModuleAnalysis`, `CheckProgramProofs` |
| `InterfaceMemo` | expansion of interfaces, its memos and registers | |
| `InterfaceMemoProofs` | theorems about what the memos keep | `InterfaceMemo` |
| `FileClosure` | abstract specification: the least set of files closed under naming | |
| `ProjectLoader` | `Project::prepare`: three scanners in rounds, waves read in parallel | instantiates `FileClosure` |
| `ProjectLoaderProofs` | theorems about the loader | `ProjectLoader` |
| `ExportTables` | depth-first resolution of re-exports | |
| `ExportTablesProofs` | theorems about the tables | `ExportTables` |
| `MC*` | small instances | |

Operators whose comment begins "Mutant of" are faulty variants of the definition
that follows them. No specification uses them; replacing the definition by its
variant must make TLC report the property named in `PROJECT.json`, which shows
that the property depends on that piece of code.

### 2.1 Files, caches and logs (`CheckProgram`, `SpeculativeCheck`)

`check_program_file` is deterministic, so which cache operation it makes next
depends only on earlier answers. A file is a start location (`entry[p]`) of an
automaton: at location `l` it does `Kind[l]` on `KeyAt[l]` and goes to
`Goto[l][answer]`. The theorems hold for *every* such automaton. The result of
a file is the sequence of its observations; two runs with the same observations
produce the same diagnostics.

A key is a cache together with the key in it; an entry is identified by the
position that published it (0 for entries that predate the phase). This keeps
precisely what order-visibility is about: two positions may compute different
values for one key, and it matters whose is hit. Bucketed caches have several
keys per bucket and a cap; a flat cache is the case of one key per bucket. The
persistent generic cache has separate lookup and insert calls; its insert is
modelled as an intern because every insert follows a lookup of the same key.

| Variable | Code |
|---|---|
| `snapshot`, `caches` | `CacheSnapshots`, `LiveCacheHandles` |
| `nextIndex`, `owner` | `next_index.fetch_add`, which worker got the index |
| `overlay[w]` | `WorkerOverlay`, entries tagged with the inserting file |
| `log[p]` / `replay[p]` / `work` | `FileCacheLog` of the worker, of the replay, of the log being built or applied by the coordinator |
| `published`, `dirty` | the same |
| `frontier`, `coord`, `cursor` | the loop variable, where in the commit closure, the next insertion to apply |
| `result[p]` | `slots` |

Actions: `Dispatch`, `WorkerStep` (one cache operation), `Join`, `Submit`,
`ReplayStep` (one cache operation on the live caches), `CommitClean`,
`CommitReplay`, `StartRecheck`, `RecheckStep`, `RecheckDone`, and
`ApplyEntry`/`SkipEntry` (one insertion: `apply_file_log` releases each map's
lock, so replays run in between), `AdvanceFrontier`.

A lookup by a live-reading session takes several locks in turn (the base entry,
the bucket's length, its own overlay). It is one step here: what decides the
answer is the read of the base entry, and a publication between that read and
the end of the operation has the same effect as one just after the operation.
Only the length can be newer than the entry, which matters only when a bucket is
close to its cap.

`Submit` may submit any position at or ahead of the frontier at any time. The
code calls the schedule "a hint" on which correctness never depends, so
correctness is shown for every schedule. A deferred replay (`SURGE_DEFER`) is
discarded, so for this module a position whose replay deferred is one that was
not submitted.

### 2.2 The schedule (`ScheduledCheck`)

`ConflictsGiven` is the body of `predict_conflicts`' loop: given the positions
predicted so far, is this one? `Predicted` is the least set of positions closed
under it, which the loop computes in one pass because a position's verdict rests on
earlier ones only. `DepsOf` and `SubmitSchedule` are `compute_submit_schedule`,
`ChosenSchedule` the three modes of `check_program_files_parallel`. `ScheduledNext` submits exactly
the positions whose bucket is the frontier, before the walk goes on.

### 2.3 The pipeline (`ReplayPipeline`)

Every critical section of the pool's mutex is one action; the notification that
follows it, made after the lock is dropped, is another (`Notify`, `Announce`).
Condition variables have no spurious wake-ups in the model, so that a lost
wake-up would not be masked. The coordinator's iteration is `SubmitDue` (step 1,
one position of the frontier's bucket at a time), `Wake` and `Resubmit` (step 2: the
replays parked on the position just committed), `Drain`, `RouteDrop`/`RouteSubmit`/
`RoutePark` (step 3), `RouteDone` or `SkipInactive`, `Take` (step 4), `Commit`.
`CommitNeedsReplay` is the retry path, which production code no longer takes
but the orchestrator implements and its tests exercise. `Lookup` is
`DeferralContext::check`; what the replay computes is left to
`SpeculativeCheck`. `Commit` finalizes the reservations *below* the position it
commits, as the commit closure does. `Cancelled` reservations do not occur:
only tests call `cancel`.

### 2.4 The type store (`TypeStore`)

One of the four tables of `ProgramTypeStore`, which share their code's shape. A
payload is a shape and perhaps a child; memory is a finite set of addresses that
are reused once a payload is destroyed. A thread that interns takes the shard's
lock (`Begin`), looks at the bucket's entries one at a time (`ScanDead`,
`ScanOther`, `ScanHit`: the upgrade is part of the look), and on a miss inserts
with a fresh id and sweeps when due (`Insert`), or gives up when it only probed
(`ProbeMiss`) or the type was too large to fingerprint (`Fallback`). Other threads
clone and drop handles in between (`Share`, `Drop`, `Destroy`), since drops take
no lock. `LookupMerge`, `LookupStaleMerge` and `RecordMerge` are the memo of
overload merges, keyed by ids and holding its result weakly. Ids wrap at
`IdSpace`. `Arc`, `Weak` and the allocator are marked external.

### 2.5 Module analysis (`ModuleAnalysis`)

As `SpeculativeCheck`, with three classes of keys (cache, utility diagnostic,
global value), a walk without replays, and modules that are never handed to a
worker. A worker's session lasts for all its modules, its context for one:
`Visible`. Insertions are published in one step, as nothing reads the live caches
meanwhile. A run covers both passes.

An analysis has two bodies. The serial pass and the re-analysis call `analyze_module`
with `lower, !lower` (`program/binding.rs:640-641`, `1286-1287`); the workers always
call it with `false, true` (`1025-1026`): no globals lowered, values collected thinly.
`entry[p]` is where the first body of a file starts and `thin[p]` where the second does.
In the preliminary pass they are one; in the final pass they may be any two automata.

`UsesAssumption` states facts of the code about which operations an analysis makes:
utility keys are only interned, never looked up; globals are declared by nothing but a
`declare global` block in the final pass, and never by the workers' body (`GlobalFree`:
the locations from which no global is ever declared).

### 2.6 Interfaces (`InterfaceMemo`)

The state is one thread's: the four memos, the stack of open expansions (a peel of
a lazy reference starts a segment of its own), the registers of the context
(lowest frame re-entered, lowest frame re-entered as unknown) and the thread-local
registers that an expansion publishes for its caller. An action is a step of the
recursion: `Reference` reaches the next type a body names, `NamedHit` ...
`PeelBlocked` answer it without a new frame, `Expand` opens one, `AbsorbBase` and
`AbsorbMember` return to the caller, `EndBases` and `EndMembers` publish the
registers at the lines where the code does, `Finish` decides what is stored.

Assumed: module analysis (so no session), user interfaces of one file, one clean
instantiation per generic declaration written where no type parameter is in
scope, no index signatures, caps not reached. The run's programs have acyclic
heritage; the theorems do not need it (`Line`, a declaration with its ancestors, is the
least set closed under naming a base). Aliases and
library interfaces are left out.

A memo entry belongs to the declaration here. The code's key (`interface.rs:160-253`) also
has the identity of the declaration table, unless the body is of another file, and the
context of a peel has a clone of that table with an identity of its own
(`symbols/type_declarations.rs:1151-1157`). So what is resolved for a peel may hit or miss
an entry that is there (`MayMiss`), and what it stores replaces that entry.

### 2.7 Loading a project (`ProjectLoader`)

`sources` is the one list the three scanners extend; `scanned`, `graph` and
`referenced` are what each of them knows. What a specifier resolves to is a fact of
the modelled file system (`World`), as resolution only reads the disk. A step takes
one file or one specifier, as the code's loops do, and a cursor says how far a loop
is: `loading` for lists of type files (`TypePackage`, `LoadReference`), `at` for the
sources whose specifiers the package scanner queues (`QueueUse`, `EndSource`), `wave`
for the specifiers that the import graph looks at and the files it has found
(`ScanUse`, `NextSource`, `PushNext`). `reads` is what the readers of a wave do: each
claims the next index and reads that file (`ReadOne`, any reader at any time), the
readers are joined one by one, their results appended (`JoinReader`) and sorted by
index (`SortResults`). A small wave is read in one go (`ReadAll`). `Closure` maps the
loader to `FileClosure`, which loads any missing named file at any time and may stop
only when none is missing.

Resolutions are kept as in the code. `resolved` is the flat fallback. `importers` has the
keys of a file: the plain one, and one for each mode; an `import x = require()` writes the
key of the `require` mode, which a resolution-mode attribute writes too, and fills the
plain key if it is free.

### 2.8 Export tables (`ExportTables`)

One action per statement of a module in progress. A frame holds the indices of the
statements it has still to take; `Before` and `Reached` are the code's two passes over
them (what names its exports, then the stars). `Descend` enters a module that is
neither resolved nor in progress, and one in progress answers with its local table.
A type-only star is put aside and copied, marked, once the frame's other statements
are done (`CopyTypeOnlyStar`, one star per step).
`Exported` is the reference: what a module exports by the language's rules, computed in
one round per module and name. That these rounds suffice is proved (`RoundsSuffice`,
section 6.8).
The model follows values and type-only marks; of the type side it keeps the names
bound to unknown. Not covered: `default`, `export =`, ambient modules, re-exports of
imported names, and `export type { x }` without a module, which marks a name of the local
table (`table.rs:182-216`); here a local table has no marks.

## 3. Runs

| Run | Instance | Properties | Result |
|---|---|---|---|
| `speculative_safety` | 3 files, 2 workers, 4 routines (64 programs), 8 snapshots, colliding digest | `TypeOK` `SerialEquivalence` `ByteIdentical` `PublicationComplete` `ReplayHitsAreFinal` `ImplementsSerial` | holds, 771 000 states |
| `speculative_capped` | 3 programs, cap 1, fairness | `RecheckComplete` `Termination` | holds, 57 000 states |
| `speculative_cap_diverges` | cap 1, one program | `ByteIdentical` | **violated** (finding 1) |
| `scheduled_deps` | 4 files, 2 workers, the default schedule, exact digests | `ScheduledInTime` `PredictionExact` `ReplaySeesDependencies` | holds, 451 000 states |
| `replay_pipeline` | 4 positions, one inactive, 2 threads, 2 keys, 1 defer, 1 retry, fairness | `DeliveryOwed` `OneAttempt` `DeferralsRouted` `WorkNeverSleeps` `PendingExact` `ReplaysAhead` `Termination` | holds, 1 358 000 states |
| `type_store` | 2 threads, 2 shapes, 2 addresses, colliding fingerprints, 3 insertions, 2 merges | `TypeOK` `OneLivePayload` `IdsDistinct` `MergeFaithful` | holds, 446 000 states |
| `module_analysis` | 3 files, 2 workers, both passes, both bodies, every set of serial-only modules, 16 snapshots, colliding digest | `SerialEquivalence` `EmittedOnce` `MemoCarried` | holds, 608 000 states |
| `interface_memo` | 3 declarations, 2 references from modules, fairness | `IncompleteIsOpen` `MarksReleased` `SharedComplete` `QuietMemoComplete` `Answers` | holds, 832 000 states |
| `interface_memo_heritage` | 3 generic declarations | `MemoComplete` | **violated** (finding 2) |
| `project_loader` | 5 files, 16 000 file systems, 2 readers, fairness | `LoadedOnce` `OwnText` `DiscoveryOrder` `FirstResolution` `OwnResolution` `ImplementsClosure` `Termination` | holds, 644 000 states |
| `export_tables` | every graph of stars on 4 modules, re-exports of every kind on 3 | `TypeOnlyKept` `EntryComplete` `TablesSound` | holds, 522 000 states |
| `export_type_only_star` | graphs of stars on 4 modules | `StarNotTypeOnly` | **violated** (finding 3) |

Why the bounds suffice. Three files are the least for a conflict that propagates:
one publishes, one conflicts, one depends on the conflict through the overlay;
two workers let files share an overlay or not. The three keys are two
instantiations in one bucket and one flat entry; the routines cover resolution
with and without a nested resolution, an intern without a lookup and a read-back
of the file's own entry. Two of the keys share a digest, since the code claims a
collision is only a spurious recheck. The scheduled run has four files so that
committed files can lie between a dependency and a conflict. Four pipeline
positions with two keys let a replay defer to a publisher while another is
parked; one allowed defer makes both sides of `MAX_DEFERS` (4 in the code) happen.
Two addresses for two shapes force reuse of an address while an entry still names
it; the theorems cover the rest. Three interfaces are the least for a base that is
open two frames up with an expansion in between. Five files let a wave hold three
files, one of them unreadable, and let each scanner find what another names. Four
modules with stars contain every cycle of length up to four, with and without a
chord.

## 4. Properties

*Results of checking.* `SerialEquivalence` says that each committed position
observed what a serial check against its predecessors' caches observes and
published exactly what that check inserts. `ByteIdentical` says the same against an
independent recursive computation of the whole serial run, with final caches.
`ImplementsSerial` is the refinement: an advance of the frontier is one iteration of
the serial loop and everything else is invisible. `PublicationComplete`,
`ReplayHitsAreFinal`, `DepsAreEarlier` (proved only) and `RecheckComplete` are the
code's own arguments for it, taken from the comments of `replay.rs`,
`check_files.rs` and the assertion in `binding.rs`.

*Schedule.* `ScheduledInTime`, `PredictionExact` and `ReplaySeesDependencies` say
what the schedule achieves. The last two are limited to the first predicted
conflict on purpose: beyond it a recomputed log may insert other keys than the
worker's did, and a replay that hits where its worker missed takes another path,
so prediction and schedule are guesses from there on.

*Pipeline.* `DeliveryOwed`: whatever is deferred, parked or dropped, a submitted
position that is still to be taken has a delivery or an attempt in flight, so
`take` cannot wait for ever. `DeferralsRouted`: no deferral ahead of the frontier
is forgotten. `OneAttempt`: a position ahead of the frontier is never in the pool
twice. `WorkNeverSleeps`: no lost wake-up. `ReplaysAhead`: only a replay that was
requeued can outlive its position. `PendingExact`, `Termination`.

*Type store.* `OneLivePayload`: pointer equality of interned types is type equality.
`IdsDistinct` and `MergeFaithful`: ids can stand for payloads, also in the memo that
outlives them, until the counter wraps.

*Analysis.* `SerialEquivalence` as above, over caches, utility keys and globals. Of the
preliminary pass it speaks of every module, which is what `binding.rs:734-742` promises. In
the final pass it leaves out the attempts of workers that stand (`SameBody`), since they
are of another body (section 8); the modules that are analysed again and those with a
`declare global` block are covered, so handing one of the latter to a worker violates it.
What is published is exactly what the kept analyses inserted, in both passes.
`EmittedOnce`, `MemoCarried`.

*Interfaces.* `IncompleteIsOpen`: an expansion that lacks inherited members is
open, wherever it is kept, so no access is reported wrongly. `SharedComplete` and
`QuietMemoComplete`: no memo keeps an expansion that lacks inherited members, as
long as nothing is resolved between the write of the register and its read;
finding 2 is what happens otherwise. `MarksReleased`, `Answers`.

*Loader.* `ImplementsClosure`, `LoadedOnce`, `OwnText`, `DiscoveryOrder`,
`FirstResolution`, `Termination`: what is loaded, once, with which text, in which
order, under which resolution, and that the rounds end. `OwnResolution`: whichever
scanner loaded a file, in whichever round, the file's own answers are in its map, a
declaration's under the plain key even beside an `import x = require()`, and a failed
one as a failure.

*Exports.* `TablesSound`: no cut of a cycle invents an export. `TypeOnlyKept`: a value
that is only reachable through type-only re-exports stays marked. `EntryComplete`: a
module entered before anything it reaches is complete, in a cycle of stars too; what it
has through a type-only star counts (section 8).

## 5. Fairness

Threads keep running: weak fairness for each worker's next step, for each pool
thread, for the coordinator, for the thread that resolves a reference
(`InterfaceMemo`), and for the loader together with its readers
(`ProjectLoader`: some reader reads while a wave is read). That is what an
operating-system scheduler gives a runnable thread; mutexes are held briefly and
never across a wait. No fairness is assumed for submitting a replay, for deferring,
or for the choice between commit and retry; at most one retry per position is taken,
as in the code. A thread woken by a notification is some sleeping thread, chosen
arbitrarily.

## 6. Proofs

The theorems hold for every value of the constants: any number of files, workers,
threads, keys, declarations or modules, every program, snapshot and digest function.
The invariants below are what the properties lack to be inductive.

### 6.1 What is assumed

The named `ASSUME`s type the constants, give each modelled file system the shape the
loader can meet (`IsWorld`: distinct roots, one meaning per package specifier in a file and usage,
no specifiers in JSON) and state facts of the code (`UsesAssumption`,
section 2.5; `SchedulesAssumption` of the pipeline, which `ScheduleBounds` proves of
`ChosenSchedule`). Two theorems of the store assume that ids do not run out, and the
theorems about results of checking that no bucket can fill up:

* `CapNotReached` of `SpeculativeCheckInv` leaves twice the room a bucket's keys take.
  That is what a live-reading session needs: if another position publishes a key that
  the session has already put in its overlay, it counts that key twice. Finding 1 shows
  that the assumption cannot be dropped.
* `CapNotReached` of `ModuleAnalysisProofs` leaves the room they take; no session of
  the analysis reads live caches.

`TypeCorrect`, `RechecksPublishCompletely`, `ScheduledReplaysInTime` and
`AlwaysMemoCarried` hold for every cap. Nothing is assumed of `Digest`: validation stays
sound when digests collide. The one exception is `AlwaysReplaySeesDependencies`, which is
about the default schedule and digests that do not collide: a collision can make the
schedule name an earlier, wrong position as the one to wait for.

The theorems about export tables assume that the modules and names of a program are
finitely many, and that the marker for a missing table is no table (`NoneAssumption`).

### 6.2 Checking

`ParallelCheckProofs` proves `TypeCorrect`, `SerialEquivalent`,
`PublishesCompletely`, `ReplayHitsFinal`, `DependenciesEarlier`,
`RechecksPublishCompletely` and the refinement `ParallelImplementsSerial`:
`Spec => ImplementsSerial`.

`SerialEquivalence` says nothing about logs that are yet to be committed. `IInv` adds
what each log promises. A log is well formed (`WellFormed`: it is a run of the automaton;
every miss is in `misses` and precedes the file's own insertion of the key; `inserts`
lists the kept keys once each). A worker's hit is a snapshot entry or was kept by
a dependency the log names (`WorkerLogInv`, from the contents of the overlays);
a live hit is an entry published before the position (`LiveLogInv`). Every entry
added to the caches has its digest in `published` (`CachesInv`). The core is the
lemma `ValidLogIsSerialRun`: a well-formed finished log whose hits are all in the
caches and whose misses are all outside them is the serial run on those caches.
A validated worker log satisfies it because a dependency that is not dirty
committed the very log the overlay entry came from (`CommittedInv`), a validated
replay because nothing it hit can change, a recheck because nothing was published
while it ran. `ApplyInv` carries this through the publication of the log, entry by
entry; advancing the frontier re-establishes `SerialEquivalence`.

`RechecksPublishCompletely` has an invariant of its own, as it needs no room in the
buckets beyond what the recheck itself found: every insertion of the recheck's log fits
into the caches together with the insertions before it (`Fits`, `RecheckInv`). It is
the log's order that matters here, since a later insertion counts the earlier ones.

### 6.3 The schedule

`ParallelCheckProofs` also proves that the scheduled checker is an instance of the other
(`ScheduleIsOnlyAHint`), so it implements the serial loop (`ScheduledImplementsSerial`),
that every scheduled replay is submitted in time (`ScheduledReplaysInTime`, from
`ScheduleInv`: buckets left behind were submitted), that prediction and verdict agree up
to and including the first predicted position (`AlwaysPredictionExact`), and that the
replay of that position sees everything its worker missed and an earlier log inserts
(`AlwaysReplaySeesDependencies`). For the first of the last two, `DigestInv` bounds
`published` from above by what the walk put into the caches, and `VerdictInv` compares
`dirty` with the prediction at every position that has a verdict. For the second,
`BucketInv` ties a submitted replay to the frontier having reached its bucket: all of its
dependencies are committed by then, from the very logs the prediction read.

### 6.4 The pipeline

`ReplayPipelineProofs` proves `PipelineTypes` and the six invariants of the run.

* `AlwaysWorkNeverSleeps` needs `StopInv`: which notifications can be outstanding in which
  phase, and that a thread exits only after shutdown and with an empty queue.
* `AlwaysOneAttempt` needs `TokenInv`: for a position ahead of the frontier there is at
  most one attempt *or duty to make one*, in exactly one of six places (being submitted,
  queued, running, newly deferred, drained, parked), and none before it is submitted.
* `AlwaysReplaysAhead` needs `FirstInv`: as long as a position has not been requeued, its
  first attempt is all there is, a delivery ends it, and the walk passes it only after.
* `AlwaysDeliveryOwed` (`OwedInv`), `AlwaysDeferralsRouted` (`RoutedInv`) and
  `AlwaysPendingExact` (`CountInv`, the count as the cardinality of the set of pending
  reservations) are nearly inductive; what they need besides is type correctness, which
  includes where each phase of the coordinator can be.

### 6.5 Module analysis

`ModuleAnalysisProofs` proves `AnalysisSerialEquivalent`, `UtilityEmittedOnce` and
`AlwaysMemoCarried`, for any two bodies per file. The invariant follows 6.2, with the
differences of the analysis: a worker's overlay keeps utility keys only for the module in
hand (`OverlayInv`); the rolling state is that of the start and what the walk published
(`RollingInv`); no worker declares a global (`PassInv`, `NoGlobals`) and in the preliminary
pass nobody does (`PreliminaryInv`); a re-analysis reads the rolling state alone (`RedoInv`).
`RunsInv` says of every kept analysis which body it ran and what it could see: a
re-analysis, the serial body and all that was there before; a worker's attempt, the thin body
without the globals that the pass added. `SerialEquivalence` follows for the re-analyses,
among which are all modules with a `declare global` block, and for the preliminary pass,
where the bodies are one and no globals were added. `UtilityEmittedOnce` follows too: a key
that is published once is published by one module, and a second module that emitted it would
have been found in conflict. `MemoInv` follows the memo to the last module by the position
the walk is at.

### 6.6 The type store

`TypeStoreProofs` proves `TypeStoreTypeCorrect`, `HandlesStayAlive`, `InternedOnce`
(`OneLivePayload`), and, while fewer values are inserted than there are ids
(`MaxMisses < IdSpace`), `IdsNeverShared` and `MergesStayFaithful`. The invariant
`SafeInv` adds to `OneLivePayload` what makes it inductive: every live interned payload
has an entry under its fingerprint (`Entered`, which sweeps must keep), a thread that
scans has seen every entry that is not in its `todo` and none of those was its value
(`Scanned`), and only the thread with the shard's lock inserts there (`Exclusive`).
A drop can only make a seen entry dead, never alive again, so a completed scan still
justifies the insertion. `IdInv` bounds every id by the counter, and says that merges
name ids that were drawn.

### 6.7 Interfaces

`InterfaceMemoProofs` proves `AlwaysIncompleteIsOpen`, `AlwaysMarksReleased`,
`AlwaysSharedComplete` and `AlwaysQuietMemoComplete`. `IncompleteIsOpen` is about the
memos; `IInv` is about everything that can get there. Each frame of the stack is an expansion in progress that
waits for the frame above it, or, at the top, for the reference being resolved
(`Pending`); while its bases are resolved, it has the whole line of every base that is
neither still to come nor awaited, or is open already (`FrameOK`). An answer that returns
to its frame is sound (`KeptSound`) and so closes the gap it was awaited for. That
argument never looks at the registers: whatever they decide to keep is sound. `MarkInv`
gives every mark in flight a frame that will remove it. `RegisterInv` is the one part
of it where a register's value matters: without signatures an expansion finishes right after
its openness was published, so `SharedComplete` can trust it.

`QuietMemoComplete` is where the registers' values matter, and has an invariant of its own,
`QInv`, proved on top of `IInv`. It is about declarations whose whole line is `Quiet`
(`Pure`). What a frame has is closed under bases, its open ones apart, but for what its
context owes it (`Owed`): the declarations open in that context at or above the lowest
index that its heritage met as unknown (`HeritageUnk`). The same goes for answers on their
way (`StackClosed`, `AnswerClosed`). A generic declaration is lazy, or peeled, only as a
base of itself (`PeelInv`), so a peel adds nothing that is owed. When an expansion finishes
and its register reaches its own depth, the only declaration it can be owed is itself, and
closed then means complete (`FinishedValue`); otherwise it is closed but for what the frame
below is owed too. The comparison in the code reads the thread's registers, which other expansions write; three
parts say that they still are this expansion's. `LowInv`: whatever a frame met as unknown it
also met, or a frame below it did once both were past their heritage. `SavedInv`: a
frame saved the registers of the one below, and past the heritage the context's are no
higher. `HeritageInv`: a quiet expansion with bases resolves nothing after its heritage, so
nothing was published in between. Finding 2 is what happens without that last part.

### 6.8 Export tables

`ExportTablesProofs` proves `AlwaysTablesSound` and `AlwaysTypeOnlyKept` for every program,
cycles included. Both have to be carried through tables in progress: `FrameFits` says that
a frame's table is sound and marked, and that the tables its type-only stars still owe it
(`later`) are sound under its name, so that copying them with a mark on every name keeps
both. A module that is cut answers with its local table, which fits because it holds nothing but
its declarations.

It also proves `AlwaysEntryComplete`, from a second invariant `EInv`. Its common part:
a module is in progress once, waits at a statement that is left for the module above it,
reaches all that are above it, and every target of a statement that is done was visited
(`ProgressInv`, `ChainInv`, `VisitInv`). The two cases of the property then differ.

* Cycles of stars (`HeldInv`, `EntryInv`): of every module that a fresh search has come
  to, each declaration is held by *some* module in progress, in its table, in a type-only
  star or in the finished target of a statement that is left. Which one changes when a
  module finishes: its names pass to the module that waits for it. When the entry itself
  finishes, all that it reaches was visited, and its table is the only place left. The
  invariant has to speak of the whole stack: no single table in a cycle is complete.
* No cycles (`FreeInv`): each statement that is done has passed its target's names on. Its
  target is finished, since one in progress would reach the module.

Reachability and the language's rules are least fixed points computed in rounds
(`Reach`, `Exported`). What holds of every round is proved by the least round for which it
would fail (`LeastExists`), which needs no induction rule with an operator parameter.
`ReachLeast` and `ExportedLeast` say that the fixed points are contained in every closed
set. `RoundsSuffice` and `ReachLeast` say that they are closed: a round that adds anything
adds a module, or a place of some symbol, and there are no more of these than rounds.

### 6.9 Loading a project

`ProjectLoaderProofs` proves `AlwaysLoadedOnce`, `AlwaysOwnText`, `AlwaysDiscoveryOrder`,
`AlwaysFirstResolution` and the refinement `LoaderImplementsClosure`:
`Spec => ImplementsClosure`. They rest on `LoaderInvariant` (`Spec => []IInv`), whose parts
are these.

* `BaseInv` is what `LoadedOnce` and `OwnText` need. The cursors stay in the list, each
  phase leaves the others' cursors where the next one expects them (`CursorInv`). A
  file is pushed without another look at the list, so the import graph must know
  everything that is loaded while it runs, and what it found and has not pushed must be
  distinct and not loaded (`KnownInv`). The readers have read each claimed index once,
  with its file's text (`OutInv`), and joining loses and repeats none of it (`JoinInv`),
  so that the place of a result after sorting is its index: as many results have a
  smaller one as there are smaller indices. Whatever is about to be loaded is named by
  the configuration or by a source (`NamedInv`).
* `DoneInv` says that nothing a scanner has passed is forgotten: a reference is loaded or
  in `loading`, a local file is known, and a package specifier is among the requests or
  `Handled`, that is loaded and in the fallback. A request answers for every place that
  writes the same specifier in the same file. `QueueInv` justifies this when a
  specifier is skipped because its key is queued already: the keys are those of the
  round's places and of no other.
* `FirstResolution` is about places (a source and a specifier in it) in program order.
  `FallbackInv` needs that the request taken first is the earliest place
  that can still decide a name: requests are ordered by the first place each stands
  for (`RequestInv`), and places that have left the queue are `Handled`.
* `OrderInv` gives every file that the graph loaded or found the place of its first
  mention, and orders the list, the rest of the wave and each against the other by it. A
  later append can add places, but only behind all that exist.

The refinement maps `ReadRoots` to the step that loads or rejects the roots, each append
to the load of one missing named file (`NamedInv`), and the end of a settled round to the
stop: `RoundInv` and the round's length say that every scanner passed every source, so
`DoneInv` and `KnownInv` leave no readable file missing. All other steps are invisible.

### 6.10 Only model-checked

* Liveness under fairness (`Termination`, `Answers`): out of the prover's reach.
* `OwnResolution`.
* `ByteIdentical`: its reference is a recursive operator. `SerialEquivalent` and
  `ParallelImplementsSerial` say the same without it.

## 7. Findings

1. **Incomplete publication is not propagated** (`speculative/commit.rs:359`).
   `commit_file_log` drops `apply_file_log`'s `complete` flag, so a file whose
   insertion was cap-blocked counts as clean, and a file that used that
   insertion through a worker's overlay commits although a serial run would have
   missed. The comments at `commit.rs:21-22` and `commit.rs:393-395` describe the
   check that is not made. It needs a full bucket: 4096 instantiations of one
   declaration, or a lower `SURGE_GENERIC_CACHE_BUCKET_CAP`.
2. **The heritage register does not survive the members** (`infer/types/interface.rs:1318`).
   It is set when the bases are done and read when the expansion ends; expansions
   nested in the members set it again. A body whose heritage re-entered an outer frame
   is then stored, which `module_memo.rs:67-68` rules out. `IncompleteIsOpen` still
   holds: the stored expansion is open.
3. **A type-only star below a star wins over a plain star**
   (`modules/exports/table.rs:1410`), contrary to `table.rs:1321-1323`: only the
   module's own type-only stars are taken last.

## 8. Observations

Met while modelling, most of them as counterexamples to stronger forms of the
properties; none is a run of its own.

* With `SURGE_DEFER`, a requeued replay can still run when the frontier takes the older,
  deferred delivery and passes its position, contrary to `replay.rs:23-25`. The late
  result is never used. `ReplaysAhead` excepts requeued positions for this reason.
* With `SURGE_DEFER`, a woken replay can defer to the position whose commit woke it
  (`session.rs:92-94`, `replay.rs:299-300`): reservations of `frontier - 1` are finalized
  by the commit of `frontier`. It costs attempts, not correctness.
* With a retry, the second `take` accepts any delivery of the position, also an older
  attempt's. Production code never retries.
* The store's ids come from a 32-bit counter that wraps, while
  `crates/surge-ts-types/src/store.rs:81-83` says they are never reused. `IdsNeverShared`
  states the bound under which that is true.
* The final pass of the parallel analysis (`SURGE_PARALLEL_ANALYSIS` set and
  `SURGE_PARALLEL_ANALYSIS_FINAL` not `0`, `program/mod.rs:1040-1052`) is not the serial
  one. Its workers lower no globals and collect values thinly (`program/binding.rs:1025-1026`),
  where the serial pass does neither (`640-641`), and their context has none of the globals
  that the pass adds. A module whose attempt meets no conflict therefore enters the later
  stages with a thin analysis (`modules/exports/values.rs:204`, while
  `SURGE_THIN_PRELIM` is on), and whether it does depends on the conflicts. With `SameBody`
  replaced by `TRUE`, TLC finds a program where the final pass differs from the serial one
  after its first module. "Workers run the identical `analyze_module` body ... the result is
  byte-identical to the serial pass" (`binding.rs:734-742`) is written of the preliminary
  pass, but the function it describes is called for both.
* `LAST_EXPANSION_BASE_IS_OPEN` is written before the signatures are resolved
  (`interface.rs:1711`), so an expansion inside a signature can overwrite it, contrary to
  `interface.rs:989-992`; `SharedComplete` excepts declarations with bases and signatures.
* A plain interface is interned whenever it resolved without an error of its own
  (`named.rs:1413`), also when an inherited member was read in flight
  (`cache/mod.rs:78-82`), and what it resolved to is kept for the module whatever was open
  around it; `Quiet` excepts plain declarations. A generic one can be interned with an
  unknown back-edge whose diagnostic was already emitted (`interface.rs:474` against
  `named.rs:1095-1099`).
* The inner modules of a cycle of re-exports keep the tables they finished with, so a
  named re-export through a cut can be reported missing although it is there;
  `EntryComplete` is limited to stars and to acyclic programs.
* `export type *` "re-exports the target's TYPES only. Binding its values too would invent
  names the module does not have" (`crates/surge-ts-syntax/src/ast.rs:1393-1395`). The
  resolution of export tables does bind them, marked as type-only (`table.rs:1421-1431`), and
  the project `tests/compat-projects/type-only-export-value-use` expects it: a value use of
  such a name is TS1362 and its type still resolves. `EntryComplete` follows the code and
  that test.

## 9. Not modelled

* What checking a file computes (checks, inference, flow, assignability) and the
  parsers: sequential code over syntax trees, far beyond explicit-state checking.
  `CheckProgram` stands for all of it at once. They, with generated tables, are most of
  the 270 000 lines of the implementation, so the models cover the concurrent and
  stateful core and not a large share of the lines.
* Values of cache entries and `DeclarationEnvironment` identities
  (`environment_attempt`): entries are identified by publisher.
* Panics. A panicking pool thread would leave the coordinator waiting in `take`.
* How a specifier is resolved on disk; path-mapping overrides; the default library.
* Statistics, probes and reports behind environment variables.
* CLI, API, Node binding, diagnostics catalogue, metrics: data handling.

## 10. Plan

1. Done: checking (sessions, commit walk, replays, schedule, pipeline), type store,
   module analysis, interface memos, project loader, export tables.
2. Done: the safety invariants of all these components and the refinements of
   `SerialCheck` and `FileClosure`. What stays model-checked is in section 6.10.
3. Further components: `extends` chains of configurations (cycles end), the cycle
   handling of assignability, the parse phase and file schedule.
