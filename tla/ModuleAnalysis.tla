--------------------------- MODULE ModuleAnalysis ---------------------------
(***************************************************************************)
(* Parallel module analysis (SURGE_PARALLEL_ANALYSIS):                     *)
(* collect_module_analyses_with_bindings_parallel.                         *)
(*                                                                         *)
(* Workers analyze modules against the pass-start state, each worker with  *)
(* one session for all its modules and a fresh context per module.  After  *)
(* they have joined, a walk in file order accepts an attempt or analyzes   *)
(* the module again on the rolling context.                                *)
(*                                                                         *)
(* Module analysis is an automaton like a file check (CheckProgram), but   *)
(* it uses more than the caches, and it has two bodies.  The serial pass   *)
(* and the re-analysis pass lower_global_augmentation_values and its       *)
(* negation as thin_value_collection; the workers always lower no global   *)
(* and collect values thinly (thin_superseded_value_collection).  In the   *)
(* preliminary pass the two are the same; in the final pass they differ.   *)
(* A key belongs to a class:                                               *)
(*   cache    an entry of the program-wide caches: read and inserted       *)
(*            through the session, which logs it for validation;           *)
(*   utility  a key of push_utility_diagnostic_once: an intern emits the   *)
(*            diagnostic on a miss, and is suppressed by a hit;            *)
(*   global   an ambient global value: an intern is a declare global block *)
(*            (first wins), a lookup reads the value.                      *)
(* Utility keys and globals live in the context: a worker sees those of    *)
(* the pass's start and its module's own.                                  *)
(***************************************************************************)
EXTENDS CheckProgram

CONSTANTS
    Class,      \* [Key -> {"cache", "utility", "global"}]
    Worker,
    NoWorker,
    Passes,     \* records: is it the final pass, and the program in both bodies
    GlobalBlock \* the entries of modules with a declare global block

ASSUME AnalysisAssumption ==
    /\ Class \in [Key -> {"cache", "utility", "global"}]
    /\ NoWorker \notin Worker
    /\ Passes \subseteq [final : BOOLEAN, entry : [Pos -> Loc], thin : [Pos -> Loc]]
    /\ GlobalBlock \subseteq Loc

\* The locations from which an analysis never declares a global.
GlobalFree ==
    UNION {G \in SUBSET Loc :
        \A l \in G : /\ \A a \in Answer : Goto[l][a] \in G
                     /\ Kind[l] = "intern" => Class[KeyAt[l]] # "global"}

\* push_utility_diagnostic_once is the only use of a utility key; globals are
\* declared by declare global blocks in the final pass only, and never by the
\* workers' body, which is that of the preliminary pass.
ASSUME UsesAssumption ==
    /\ \A l \in Loc : Kind[l] = "lookup" => Class[KeyAt[l]] # "utility"
    /\ \A x \in Passes : \A p \in Pos :
        /\ x.entry[p] \in GlobalFree \/ (x.final /\ x.entry[p] \in GlobalBlock)
        /\ x.thin[p] \in GlobalFree
        /\ ~x.final => x.thin[p] = x.entry[p]

VARIABLES
    final,      \* lower_global_augmentation_values: the final pass lowers globals
    entry,      \* the program: where the serial analysis of a file is entered, at
                \* "done" for a file that is not a module
    thin,       \* where a worker enters the analysis of the file
    serialOnly, \* modules that are never handed to a worker
    snapshot,   \* caches, utility keys and globals at the start of the pass
    nextIndex,  \* next_index
    owner,      \* [Pos -> Worker or NoWorker]
    overlay,    \* [Worker -> Caches]: the insertions of a worker's modules
    log,        \* [Pos -> Log]: FileCacheLog and WorkerModuleOutcome
    phase,      \* "analyze" until the workers have joined, then "commit"
    rolling,    \* the live caches and the rolling context's keys and globals
    published,  \* digests published by the walk
    dirty,      \* positions whose attempt was rejected
    frontier,   \* the position the walk is at
    redo,       \* is the walk analyzing the frontier's module again?
    work,       \* the log of the re-analysis
    memo,       \* the position whose named-resolution memo the rolling context has
    result      \* analyses: [Pos -> Seq(Event)]

workerVars == <<nextIndex, owner, overlay, log>>
walkVars   == <<rolling, published, dirty, frontier, redo, work, memo, result>>
pass == <<final, entry, thin, serialOnly, snapshot>>
vars == <<pass, workerVars, phase, walkVars>>

Log == [loc : Loc, trace : Seq(Event), misses : SUBSET {Digest[k] : k \in Key},
        deps : SUBSET Publisher, inserts : Seq(Key)]

FreshLog(l) == [loc |-> l, trace |-> <<>>, misses |-> {},
                deps |-> {}, inserts |-> <<>>]

Finished(lg) == Kind[lg.loc] = "done"

IsModule(p) == Kind[entry[p]] # "done"

Modules == {p \in Pos : IsModule(p)}

-----------------------------------------------------------------------------
(* One operation of an analysis. *)

AnswerOf(base, ov, k) == IF k \in DOMAIN base THEN base[k]
                         ELSE IF k \in DOMAIN ov THEN ov[k] ELSE Miss

Keeps(base, ov, l) ==
    LET k == KeyAt[l] IN
    /\ Kind[l] = "intern"
    /\ AnswerOf(base, ov, k) = Miss
    /\ BucketLen(base, k) + BucketLen(ov, k) < Cap

\* The log of position p after its next operation: the session logs the
\* operations on the caches only.
Performed(base, ov, p, lg) ==
    LET l == lg.loc
        k == KeyAt[l]
        a == AnswerOf(base, ov, k)
        logged == Class[k] = "cache"
        kept   == Keeps(base, ov, l)
    IN  [loc     |-> Goto[l][a],
         trace   |-> Append(lg.trace, [loc |-> l, answer |-> a, kept |-> kept]),
         misses  |-> IF logged /\ a = Miss THEN lg.misses \cup {Digest[k]} ELSE lg.misses,
         deps    |-> IF logged /\ k \notin DOMAIN base /\ a \notin {Miss, p}
                     THEN lg.deps \cup {a} ELSE lg.deps,
         inserts |-> IF kept THEN Append(lg.inserts, k) ELSE lg.inserts]

\* Mutant of Visible: the context is kept from module to module.
VisibleKeptContext(ov, p) == ov

\* What module p sees of its worker's overlay: the session's cache entries, and
\* of the context, which is fresh for every module, only its own additions.
Visible(ov, p) ==
    [k \in {j \in DOMAIN ov : Class[j] = "cache" \/ ov[j] = p} |-> ov[k]]

-----------------------------------------------------------------------------
Init ==
    /\ \E x \in Passes : final = x.final /\ entry = x.entry /\ thin = x.thin
    /\ serialOnly \in SUBSET Modules
    /\ final => {p \in Modules : entry[p] \in GlobalBlock} \subseteq serialOnly
    /\ snapshot \in UNION {[D -> {BasePublisher}] : D \in SUBSET Key}
    /\ nextIndex = 1
    /\ owner = [p \in Pos |-> NoWorker]
    /\ overlay = [w \in Worker |-> [k \in {} |-> BasePublisher]]
    /\ log = [p \in Pos |-> FreshLog(thin[p])]
    /\ phase = "analyze"
    /\ rolling = snapshot
    /\ published = {}
    /\ dirty = {}
    /\ frontier = 1
    /\ redo = FALSE
    /\ work = FreshLog(entry[1])
    /\ memo = BasePublisher
    /\ result = [p \in Pos |-> <<>>]

-----------------------------------------------------------------------------
(* The worker phase. *)

Busy(w) == \E p \in Pos : owner[p] = w /\ ~Finished(log[p])

\* An idle worker fetches the next index; a file that is not a module, or is
\* serial-only (it has a declare global block and this is the final pass, or a
\* probe excludes it), is passed over.
Dispatch(w) ==
    /\ phase = "analyze"
    /\ nextIndex \in Pos
    /\ ~Busy(w)
    /\ nextIndex' = nextIndex + 1
    /\ owner' = IF nextIndex \in Modules \ serialOnly
                THEN [owner EXCEPT ![nextIndex] = w] ELSE owner
    /\ UNCHANGED <<pass, overlay, log, phase, walkVars>>

\* A worker's analysis was entered with lower = false and thin = true, whatever
\* the pass.
WorkerStep(p) ==
    LET w  == owner[p]
        ov == Visible(overlay[w], p)
        l  == log[p].loc
    IN
    /\ w \in Worker
    /\ ~Finished(log[p])
    /\ log' = [log EXCEPT ![p] = Performed(snapshot, ov, p, @)]
    /\ overlay' = [overlay EXCEPT ![w] =
                     IF Keeps(snapshot, ov, l) THEN WithEntry(@, KeyAt[l], p) ELSE @]
    /\ UNCHANGED <<pass, nextIndex, owner, phase, walkVars>>

Join ==
    /\ phase = "analyze"
    /\ nextIndex = N + 1
    /\ \A w \in Worker : ~Busy(w)
    /\ phase' = "commit"
    /\ UNCHANGED <<pass, workerVars, walkVars>>

-----------------------------------------------------------------------------
(* The commit walk. *)

\* Mutant of UtilityConflict: the rolling keys are not consulted.
UtilityConflictIgnored(lg) == FALSE

\* The attempt recorded a utility key that an earlier module recorded.
UtilityConflict(lg) ==
    \E k \in KeptKeys(lg.trace) : Class[k] = "utility" /\ k \in DOMAIN rolling

\* The utility check and commit_file_log's two checks.
CleanVerdict(lg) ==
    /\ ~UtilityConflict(lg)
    /\ lg.misses \cap published = {}
    /\ lg.deps \cap dirty = {}

\* apply_file_log: the insertions that find their key absent and their bucket
\* with room are published.
Publishable(ins) ==
    {i \in DOMAIN ins :
        /\ ins[i] \notin DOMAIN rolling
        /\ BucketLen(rolling, ins[i])
             + Cardinality({j \in 1..(i - 1) : Bucket[ins[j]] = Bucket[ins[i]]}) < Cap}

\* The walk keeps lg as module frontier's analysis and moves on.
Keep(lg) ==
    LET new == {lg.inserts[i] : i \in Publishable(lg.inserts)} IN
    /\ rolling' = [k \in DOMAIN rolling \cup new |-> IF k \in new THEN frontier ELSE rolling[k]]
    /\ published' = published \cup {Digest[k] : k \in {j \in new : Class[j] = "cache"}}
    /\ result' = [result EXCEPT ![frontier] = lg.trace]
    /\ frontier' = frontier + 1

AtFrontier == phase = "commit" /\ frontier \in Pos /\ ~redo

SkipFile ==
    /\ AtFrontier
    /\ ~IsModule(frontier)
    /\ frontier' = frontier + 1
    /\ UNCHANGED <<pass, workerVars, phase, rolling, published,
                   dirty, redo, work, memo, result>>

\* Mutant of LastModule: the last file, module or not.
LastModuleAnyFile == N

\* last_module_index: the only module whose attempt captures its memo.
LastModule == CHOOSE p \in Modules : \A q \in Modules : q <= p

\* The attempt stands.
CommitClean ==
    /\ AtFrontier
    /\ owner[frontier] # NoWorker
    /\ CleanVerdict(log[frontier])
    /\ Keep(log[frontier])
    /\ memo' = IF frontier = LastModule THEN frontier ELSE memo
    /\ UNCHANGED <<pass, workerVars, phase, dirty, redo, work>>

\* The attempt is rejected, or there was none: its slot and its log are dropped
\* and the module is analyzed on the rolling context, whose memo it replaces, with
\* the flags of the serial pass.
StartReanalysis ==
    /\ AtFrontier
    /\ IsModule(frontier)
    /\ owner[frontier] = NoWorker \/ ~CleanVerdict(log[frontier])
    /\ dirty' = dirty \cup {frontier}
    /\ redo' = TRUE
    /\ work' = FreshLog(entry[frontier])
    /\ memo' = frontier
    /\ UNCHANGED <<pass, workerVars, phase, rolling, published,
                   frontier, result>>

\* The re-analysis reads the live caches and the rolling context.
Reanalyze(lg) == Performed(rolling, [k \in KeptKeys(lg.trace) |-> frontier], frontier, lg)

ReanalysisStep ==
    /\ redo
    /\ ~Finished(work)
    /\ work' = Reanalyze(work)
    /\ UNCHANGED <<pass, workerVars, phase, rolling, published,
                   dirty, frontier, redo, memo, result>>

\* The re-analysis is published.
ReanalysisDone ==
    /\ redo
    /\ Finished(work)
    /\ Keep(work)
    /\ redo' = FALSE
    /\ UNCHANGED <<pass, workerVars, phase, dirty, work, memo>>

-----------------------------------------------------------------------------
Walk == SkipFile \/ CommitClean \/ StartReanalysis \/ ReanalysisStep \/ ReanalysisDone

Terminated == frontier = N + 1 /\ UNCHANGED vars

Next == \/ \E w \in Worker : Dispatch(w)
        \/ \E p \in Pos : WorkerStep(p)
        \/ Join
        \/ Walk
        \/ Terminated

Spec == Init /\ [][Next]_vars

-----------------------------------------------------------------------------
(* Correctness. *)

Before(p) == [k \in {j \in DOMAIN rolling : rolling[j] < p} |-> rolling[k]]

\* Are module p's analysis and the serial pass's the same body with the same globals?
\* In the final pass a worker's attempt that stands is thin and has none of the globals
\* that the pass added.
SameBody(p) == ~final \/ p \in dirty \/ entry[p] \in GlobalBlock

\* Every analysis kept by the preliminary pass observed what a serial analysis of the
\* module after its predecessors observes, so that "the result is byte-identical to the
\* serial pass" (binding.rs:734-742, which is about that pass).  In the final pass that
\* is so of every module analyzed again and of every module with a declare global block,
\* the only ones that add globals.  And either pass has published exactly what the kept
\* analyses inserted.
SerialEquivalence ==
    \A p \in Modules : p < frontier =>
        /\ SameBody(p) => IsSerialRun(result[p], p, entry[p], Before(p))
        /\ {k \in DOMAIN rolling : rolling[k] = p} = KeptKeys(result[p])

Emitted(p) == {k \in KeptKeys(result[p]) : Class[k] = "utility"}

\* A utility diagnostic is emitted by one module only, and by none if it was
\* emitted before the pass: push_utility_diagnostic_once means once, although
\* the workers that might emit it do not see each other's keys.
EmittedOnce ==
    \A p, q \in Pos : \A k \in Emitted(p) :
        p < frontier => /\ k \notin DOMAIN snapshot
                        /\ q < frontier /\ k \in Emitted(q) => p = q

\* After the pass the rolling context has the memo of the module the serial
\* pass analyzed last, although attempts are accepted without their memos.
MemoCarried ==
    frontier = N + 1 /\ Modules # {} => memo \in Modules /\ \A q \in Modules : q <= memo
=============================================================================
