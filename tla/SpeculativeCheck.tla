-------------------------- MODULE SpeculativeCheck --------------------------
(***************************************************************************)
(* Serial-equivalent parallel checking: check_program_files_parallel with  *)
(* the check sessions, file logs and commit walk it is built on.           *)
(*                                                                         *)
(* Workers check files against a frozen snapshot of the caches plus a      *)
(* private overlay and log what they observed.  After they have joined, a  *)
(* coordinator walks the positions in serial order (the frontier): it      *)
(* publishes a log that is still valid, and otherwise a background         *)
(* replay's log, and otherwise rechecks the file itself.  Replays read the *)
(* live caches while the coordinator writes them.                          *)
(*                                                                         *)
(* Which positions are replayed, and from which frontier on, is a          *)
(* scheduling hint on which correctness "never depends"; here it is any    *)
(* choice at all, so every schedule is covered.                            *)
(***************************************************************************)
EXTENDS CheckProgram

CONSTANTS
    Worker,     \* the speculating worker threads
    NoWorker,
    Entries     \* the programs: functions in [Pos -> Loc]

ASSUME WorkerAssumption == NoWorker \notin Worker

ASSUME EntriesAssumption == Entries \subseteq [Pos -> Loc]

VARIABLES
    entry,      \* the program being checked
    snapshot,   \* CacheSnapshots: the caches at fan-out
    nextIndex,  \* next_index: the next position to hand to a worker
    owner,      \* [Pos -> Worker or NoWorker]: which worker got the position
    overlay,    \* [Worker -> Caches]: WorkerOverlay, tagged by inserting file
    log,        \* [Pos -> Log]: FileCacheLog of the workers
    phase,      \* "check" until the workers have joined, then "commit"
    caches,     \* LiveCacheHandles: the six live caches
    published,  \* digests published by the walk
    dirty,      \* positions whose worker log failed validation
    frontier,   \* the position the walk is at
    coord,      \* what the coordinator is doing
    work,       \* the log the coordinator is building or applying
    cursor,     \* index of the next insertion of work to apply
    submitted,  \* positions handed to the replay pool
    replay,     \* [Pos -> Log]: the replays' logs
    result      \* slots: [Pos -> Seq(Event)]

workerVars == <<nextIndex, owner, overlay, log>>
walkVars   == <<caches, published, dirty, frontier, coord, work, cursor, result>>
replayVars == <<submitted, replay>>
vars == <<entry, snapshot, workerVars, phase, walkVars, replayVars>>

Log == [loc : Loc, trace : Seq(Event), misses : SUBSET {Digest[k] : k \in Key},
        deps : SUBSET Publisher, inserts : Seq(Key)]

\* begin_file: an empty log for position p.
FreshLog(p) == [loc |-> entry[p], trace |-> <<>>, misses |-> {},
                deps |-> {}, inserts |-> <<>>]

Finished(lg) == Kind[lg.loc] = "done"

-----------------------------------------------------------------------------
(***************************************************************************)
(* The session: every lookup and intern reads the base view first and the  *)
(* overlay second.  The generic cache's insert returns nothing and always  *)
(* follows a lookup of the same key, otherwise it is an intern.            *)
(***************************************************************************)
AnswerOf(base, ov, k) == IF k \in DOMAIN base THEN base[k]
                         ELSE IF k \in DOMAIN ov THEN ov[k] ELSE Miss

\* Mutant of Keeps: only the overlay's part of the bucket is counted.
KeepsIgnoringBase(base, ov, l) ==
    /\ Kind[l] = "intern"
    /\ AnswerOf(base, ov, KeyAt[l]) = Miss
    /\ BucketLen(ov, KeyAt[l]) < Cap

\* An intern that misses is kept while the bucket has room, counting the
\* entries of the base view and those of the overlay.
Keeps(base, ov, l) ==
    LET k == KeyAt[l] IN
    /\ Kind[l] = "intern"
    /\ AnswerOf(base, ov, k) = Miss
    /\ BucketLen(base, k) + BucketLen(ov, k) < Cap

\* Mutant of Performed: a miss is logged as a dependency too.
PerformedMissIsDep(base, ov, p, lg) ==
    LET l    == lg.loc
        k    == KeyAt[l]
        a    == AnswerOf(base, ov, k)
        kept == Keeps(base, ov, l)
    IN  [loc     |-> Goto[l][a],
         trace   |-> Append(lg.trace, [loc |-> l, answer |-> a, kept |-> kept]),
         misses  |-> IF a = Miss THEN lg.misses \cup {Digest[k]} ELSE lg.misses,
         deps    |-> IF k \notin DOMAIN base THEN lg.deps \cup {a} ELSE lg.deps,
         inserts |-> IF kept THEN Append(lg.inserts, k) ELSE lg.inserts]

\* The log of position p after its next operation.
Performed(base, ov, p, lg) ==
    LET l    == lg.loc
        k    == KeyAt[l]
        a    == AnswerOf(base, ov, k)
        kept == Keeps(base, ov, l)
    IN  [loc     |-> Goto[l][a],
         trace   |-> Append(lg.trace, [loc |-> l, answer |-> a, kept |-> kept]),
         misses  |-> IF a = Miss THEN lg.misses \cup {Digest[k]} ELSE lg.misses,
         deps    |-> IF k \notin DOMAIN base /\ a \notin {Miss, p}
                     THEN lg.deps \cup {a} ELSE lg.deps,
         inserts |-> IF kept THEN Append(lg.inserts, k) ELSE lg.inserts]

OverlayAfter(base, ov, p, l) ==
    IF Keeps(base, ov, l) THEN WithEntry(ov, KeyAt[l], p) ELSE ov

\* A live-reading session is used for one file: its overlay is that file's
\* own insertions.
OwnOverlay(p, lg) == [k \in KeptKeys(lg.trace) |-> p]

PerformedLive(p, lg) == Performed(caches, OwnOverlay(p, lg), p, lg)

-----------------------------------------------------------------------------
Init ==
    /\ entry \in Entries
    /\ snapshot \in UNION {[D -> {BasePublisher}] : D \in SUBSET Key}
    /\ nextIndex = 1
    /\ owner = [p \in Pos |-> NoWorker]
    /\ overlay = [w \in Worker |-> [k \in {} |-> BasePublisher]]
    /\ log = [p \in Pos |-> FreshLog(p)]
    /\ phase = "check"
    /\ caches = snapshot
    /\ published = {}
    /\ dirty = {}
    /\ frontier = 1
    /\ coord = "top"
    /\ work = FreshLog(1)
    /\ cursor = 1
    /\ submitted = {}
    /\ replay = [p \in Pos |-> FreshLog(p)]
    /\ result = [p \in Pos |-> <<>>]

-----------------------------------------------------------------------------
(* The worker phase. *)

Busy(w) == \E p \in Pos : owner[p] = w /\ ~Finished(log[p])

\* An idle worker fetches the next position and begins its file.
Dispatch(w) ==
    /\ phase = "check"
    /\ nextIndex \in Pos
    /\ ~Busy(w)
    /\ owner' = [owner EXCEPT ![nextIndex] = w]
    /\ nextIndex' = nextIndex + 1
    /\ UNCHANGED <<entry, snapshot, overlay, log, phase, walkVars, replayVars>>

\* The worker that owns p performs one cache operation of p's check.
WorkerStep(p) ==
    LET w == owner[p] IN
    /\ w \in Worker
    /\ ~Finished(log[p])
    /\ log' = [log EXCEPT ![p] = Performed(snapshot, overlay[w], p, @)]
    /\ overlay' = [overlay EXCEPT ![w] = OverlayAfter(snapshot, @, p, log[p].loc)]
    /\ UNCHANGED <<entry, snapshot, nextIndex, owner, phase, walkVars, replayVars>>

\* The scope joins every worker; their logs are handed to the coordinator.
Join ==
    /\ phase = "check"
    /\ nextIndex = N + 1
    /\ \A w \in Worker : ~Busy(w)
    /\ phase' = "commit"
    /\ UNCHANGED <<entry, snapshot, workerVars, walkVars, replayVars>>

-----------------------------------------------------------------------------
(* The replay pool. *)

\* The coordinator, at the top of the frontier loop, submits a position.
Submit(p) ==
    /\ phase = "commit" /\ coord = "top"
    /\ p >= frontier
    /\ p \notin submitted
    /\ submitted' = submitted \cup {p}
    /\ UNCHANGED <<entry, snapshot, workerVars, phase, walkVars, replay>>

\* A pool thread performs one operation of p's replay on the live caches.
ReplayStep(p) ==
    /\ p \in submitted
    /\ ~Finished(replay[p])
    /\ replay' = [replay EXCEPT ![p] = PerformedLive(p, @)]
    /\ UNCHANGED <<entry, snapshot, workerVars, phase, walkVars, submitted>>

-----------------------------------------------------------------------------
(* The commit walk. *)

\* Mutants of the two checks: the check is left out.
MissConflictIgnored(lg) == FALSE
DependencyConflictIgnored(lg) == FALSE

\* commit_file_log's two checks.
MissConflict(lg) == lg.misses \cap published # {}

DependencyConflict(lg) == lg.deps \cap dirty # {}

\* Mutant of CleanVerdict: dirty dependencies are accepted.
CleanVerdictMissOnly(lg) == ~MissConflict(lg)

CleanVerdict(lg) == ~MissConflict(lg) /\ ~DependencyConflict(lg)

\* Mutants of AtFrontier: the walk does not wait for a replay, or it waits for
\* one whether or not it submitted it.
AtFrontierImpatient ==
    /\ phase = "commit" /\ coord = "top"
    /\ frontier \in Pos

AtFrontierAlwaysTakes ==
    /\ phase = "commit" /\ coord = "top"
    /\ frontier \in Pos
    /\ frontier \in submitted /\ Finished(replay[frontier])

\* take(frontier): the walk waits for a replay it submitted.
AtFrontier ==
    /\ phase = "commit" /\ coord = "top"
    /\ frontier \in Pos
    /\ frontier \in submitted => Finished(replay[frontier])

\* Start publishing lg as the outcome of the frontier's position.
Apply(lg, how) ==
    /\ coord' = how
    /\ work' = lg
    /\ cursor' = 1
    /\ result' = [result EXCEPT ![frontier] = lg.trace]

\* The worker's log validates: its speculative result stands.
CommitClean ==
    /\ AtFrontier
    /\ CleanVerdict(log[frontier])
    /\ Apply(log[frontier], "apply_clean")
    /\ UNCHANGED <<entry, snapshot, workerVars, phase, caches, published,
                   dirty, frontier, replayVars>>

\* Mutant of ReplayValid: a delivered replay is taken without validation.
ReplayValidUnchecked == frontier \in submitted

ReplayValid == frontier \in submitted /\ ~MissConflict(replay[frontier])

\* The worker's log conflicts and a replay validates (commit_replay_log).
CommitReplay ==
    /\ AtFrontier
    /\ ~CleanVerdict(log[frontier])
    /\ ReplayValid
    /\ dirty' = dirty \cup {frontier}
    /\ Apply(replay[frontier], "apply_replay")
    /\ UNCHANGED <<entry, snapshot, workerVars, phase, caches, published,
                   frontier, replayVars>>

\* The worker's log conflicts and there is no replay or a stale one: the
\* coordinator rechecks the file with a live-reading session.
StartRecheck ==
    /\ AtFrontier
    /\ ~CleanVerdict(log[frontier])
    /\ ~ReplayValid
    /\ dirty' = dirty \cup {frontier}
    /\ coord' = "recheck"
    /\ work' = FreshLog(frontier)
    /\ UNCHANGED <<entry, snapshot, workerVars, phase, caches, published,
                   frontier, cursor, result, replayVars>>

RecheckStep ==
    /\ coord = "recheck"
    /\ ~Finished(work)
    /\ work' = PerformedLive(frontier, work)
    /\ UNCHANGED <<entry, snapshot, workerVars, phase, caches, published,
                   dirty, frontier, coord, cursor, result, replayVars>>

RecheckDone ==
    /\ coord = "recheck"
    /\ Finished(work)
    /\ Apply(work, "apply_recheck")
    /\ UNCHANGED <<entry, snapshot, workerVars, phase, caches, published,
                   dirty, frontier, replayVars>>

Applying == coord \in {"apply_clean", "apply_replay", "apply_recheck"}

\* apply_file_log's guards for the next insertion of work.
CanPublish(k) == k \notin DOMAIN caches /\ BucketLen(caches, k) < Cap

\* apply_file_log publishes one insertion.  A map's lock is released between
\* the maps, so replays can run between insertions.
ApplyEntry ==
    /\ Applying
    /\ cursor \in DOMAIN work.inserts
    /\ LET k == work.inserts[cursor] IN
        /\ CanPublish(k)
        /\ caches' = WithEntry(caches, k, frontier)
        /\ published' = published \cup {Digest[k]}
    /\ cursor' = cursor + 1
    /\ UNCHANGED <<entry, snapshot, workerVars, phase, dirty, frontier, coord,
                   work, result, replayVars>>

\* merge_skipped_existing / merge_cap_blocked: the insertion is dropped.
SkipEntry ==
    /\ Applying
    /\ cursor \in DOMAIN work.inserts
    /\ ~CanPublish(work.inserts[cursor])
    /\ cursor' = cursor + 1
    /\ UNCHANGED <<entry, snapshot, workerVars, phase, caches, published, dirty,
                   frontier, coord, work, result, replayVars>>

\* The position is committed; the frontier moves on.
AdvanceFrontier ==
    /\ Applying
    /\ cursor = Len(work.inserts) + 1
    /\ coord' = "top"
    /\ frontier' = frontier + 1
    /\ UNCHANGED <<entry, snapshot, workerVars, phase, caches, published, dirty,
                   work, cursor, result, replayVars>>

-----------------------------------------------------------------------------
\* Every position is committed and every replay delivered.
Quiescent == frontier = N + 1 /\ \A p \in submitted : Finished(replay[p])

Terminated == Quiescent /\ UNCHANGED vars

Walk == \/ CommitClean \/ CommitReplay \/ StartRecheck
        \/ RecheckStep \/ RecheckDone
        \/ ApplyEntry \/ SkipEntry \/ AdvanceFrontier

Next == \/ \E w \in Worker : Dispatch(w)
        \/ \E p \in Pos : WorkerStep(p) \/ Submit(p) \/ ReplayStep(p)
        \/ Join
        \/ Walk
        \/ Terminated

Spec == Init /\ [][Next]_vars

\* The threads and the coordinator keep running; nothing forces a replay to
\* be submitted.
Fairness ==
    /\ \A w \in Worker : WF_vars(Dispatch(w))
    /\ \A p \in Pos : WF_vars(WorkerStep(p)) /\ WF_vars(ReplayStep(p))
    /\ WF_vars(Join)
    /\ WF_vars(Walk)

FairSpec == Spec /\ Fairness

-----------------------------------------------------------------------------
(* Correctness. *)

\* Every variable has its type.
TypeOK ==
    /\ entry \in [Pos -> Loc]
    /\ snapshot \in Caches
    /\ nextIndex \in 1..(N + 1)
    /\ owner \in [Pos -> Worker \cup {NoWorker}]
    /\ overlay \in [Worker -> Caches]
    /\ log \in [Pos -> Log]
    /\ phase \in {"check", "commit"}
    /\ caches \in Caches
    /\ published \subseteq {Digest[k] : k \in Key}
    /\ dirty \subseteq Pos
    /\ frontier \in 1..(N + 1)
    /\ coord \in {"top", "recheck", "apply_clean", "apply_replay", "apply_recheck"}
    /\ work \in Log
    /\ cursor \in Nat \ {0}
    /\ submitted \subseteq Pos
    /\ replay \in [Pos -> Log]
    /\ result \in [Pos -> Seq(Event)]

\* The caches as the positions before p left them.
Before(p) == [k \in {j \in DOMAIN caches : caches[j] < p} |-> caches[k]]

PublishedBy(p) == {k \in DOMAIN caches : caches[k] = p}

\* speculative/mod.rs: "By induction over file order the committed results
\* and final cache contents are byte-identical to a serial run."  Every
\* committed position observed exactly what a serial check against the caches
\* its predecessors left would have, and published exactly what that serial
\* check would have inserted.
SerialEquivalence ==
    \A p \in Pos : p < frontier =>
        /\ IsSerialRun(result[p], p, entry[p], Before(p))
        /\ PublishedBy(p) = KeptKeys(result[p])

\* A log that passed validation publishes every one of its insertions:
\* apply_file_log never finds one already present or cap-blocked.
PublicationComplete ==
    Applying /\ cursor \in DOMAIN work.inserts => CanPublish(work.inserts[cursor])

\* binding.rs: the log of an inline recheck publishes completely, because it
\* read the very caches it is applied to.  Holds for every cap.
RecheckComplete ==
    coord = "apply_recheck" /\ cursor \in DOMAIN work.inserts =>
        CanPublish(work.inserts[cursor])

\* replay.rs: "a hit with publisher position >= k cannot be observed, and
\* every observable hit is provably the serial-visible value."  Whatever a
\* replay of p hit was published before p and is still the entry of its key.
ReplayHitsAreFinal ==
    \A p \in submitted : \A i \in DOMAIN replay[p].trace :
        LET a == replay[p].trace[i].answer
            k == KeyAt[replay[p].trace[i].loc]
        IN  a \notin {Miss, p} => a < p /\ k \in DOMAIN caches /\ caches[k] = a

\* session.rs (begin_file): a worker's overlay only holds entries of files
\* earlier in serial order, so an overlay dependency is an earlier position
\* that the same worker has finished.
DepsAreEarlier ==
    \A p \in Pos : \A q \in log[p].deps :
        q \in 1..(p - 1) /\ owner[q] = owner[p] /\ Finished(log[q])

\* The walk commits every position, whatever was replayed, and every replay
\* is delivered: no thread waits for ever on another.
Termination == <>Quiescent

Serial == INSTANCE SerialCheck WITH
    next   <- frontier,
    caches <- Before(frontier),
    result <- [p \in Pos |-> IF p < frontier THEN result[p] ELSE <<>>]

\* The parallel path implements check_program_files_serial: each advance of
\* the frontier is one step of the serial loop and everything else is
\* invisible to it.
ImplementsSerial == Serial!Spec
=============================================================================
