------------------------ MODULE SpeculativeCheckInv -------------------------
(***************************************************************************)
(* The inductive invariant behind SerialEquivalence, checked by TLC and    *)
(* proved in ParallelCheckProofs.                                          *)
(***************************************************************************)
EXTENDS SpeculativeCheck

\* No bucket can fill up.  The factor is 2 because a live-reading session
\* counts an entry twice when another position publishes a key that the
\* session has already put into its own overlay.
CapNotReached == \A k \in Key : 2 * Cardinality(Bucketmates(k)) <= Cap

\* The log lg of position p, entered at l with snapshot s, records a run of
\* the automaton: every miss is logged and precedes the file's own insertion
\* of the key, every hit on the file's own entry follows it, and inserts lists
\* the keys the run kept, once each.
WellFormed(lg, p, l, s) ==
    LET t == lg.trace IN
    /\ lg.loc = LocAfter(t, Len(t), l)
    /\ \A i \in DOMAIN t :
        LET k == KeyAt[t[i].loc] IN
        /\ t[i].loc = LocAfter(t, i - 1, l)
        /\ Kind[t[i].loc] # "done"
        /\ t[i].kept <=> Kind[t[i].loc] = "intern" /\ t[i].answer = Miss
        /\ t[i].answer = Miss => /\ Digest[k] \in lg.misses
                                 /\ k \notin DOMAIN s
                                 /\ \A h \in 1..(i - 1) : ~Kept(t, h, k)
        /\ t[i].answer = p => \E h \in 1..(i - 1) : Kept(t, h, k)
    /\ \A j \in DOMAIN lg.inserts : lg.inserts[j] \in KeptKeys(t)
    /\ \A k \in KeptKeys(t) : \E j \in DOMAIN lg.inserts : lg.inserts[j] = k
    /\ \A i, j \in DOMAIN lg.inserts : lg.inserts[i] = lg.inserts[j] => i = j

\* Every hit of lg on an entry that is not p's own is an entry of c.
HitsIn(lg, p, c) ==
    \A i \in DOMAIN lg.trace :
        LET a == lg.trace[i].answer
            k == KeyAt[lg.trace[i].loc]
        IN  a \notin {Miss, p} => a < p /\ k \in DOMAIN c /\ c[k] = a

\* Every such hit is an entry of the snapshot s, or was kept by the log, in
\* logs, of a dependency that lg names.
HitsExplained(lg, p, s, logs) ==
    \A i \in DOMAIN lg.trace :
        LET a == lg.trace[i].answer
            k == KeyAt[lg.trace[i].loc]
        IN  a \notin {Miss, p} => \/ k \in DOMAIN s /\ a = s[k]
                                  \/ a \in lg.deps /\ k \in KeptKeys(logs[a].trace)

\* No key that lg missed is in c.
MissesOutside(lg, c) ==
    \A i \in DOMAIN lg.trace :
        lg.trace[i].answer = Miss => KeyAt[lg.trace[i].loc] \notin DOMAIN c

\* Positions below nextIndex have a worker, and a worker finishes a file
\* before it begins the next.
DispatchInv ==
    /\ \A p \in Pos : owner[p] \in Worker <=> p < nextIndex
    /\ \A p \in Pos : owner[p] = NoWorker => log[p] = FreshLog(p)
    /\ \A p, q \in Pos : q < p /\ owner[q] = owner[p] /\ owner[p] \in Worker
                            => Finished(log[q])

\* A worker's overlay holds exactly what its files kept.
OverlayInv ==
    /\ \A w \in Worker : \A k \in DOMAIN overlay[w] :
        /\ overlay[w][k] \in Pos
        /\ owner[overlay[w][k]] = w
        /\ k \in KeptKeys(log[overlay[w][k]].trace)
    /\ \A q \in Pos : owner[q] \in Worker =>
        KeptKeys(log[q].trace) \subseteq DOMAIN overlay[owner[q]]

\* A worker's log hits the snapshot, the file's own entries, or entries kept
\* by the dependencies it names.
WorkerLogInv ==
    \A p \in Pos :
        /\ WellFormed(log[p], p, entry[p], snapshot)
        /\ HitsExplained(log[p], p, snapshot, log)
        /\ \A q \in log[p].deps :
            q \in 1..(p - 1) /\ owner[q] = owner[p] /\ Finished(log[q])

\* Nothing is committed before the workers have joined, all finished.
PhaseInv ==
    /\ phase = "check" => frontier = 1 /\ coord = "top" /\ submitted = {}
    /\ phase = "commit" => \A p \in Pos : Finished(log[p])

\* The live caches are the snapshot and what the walk published, tagged by
\* positions up to the frontier.
CachesInv ==
    /\ \A k \in DOMAIN snapshot :
        snapshot[k] = BasePublisher /\ k \in DOMAIN caches /\ caches[k] = BasePublisher
    /\ \A k \in DOMAIN caches \ DOMAIN snapshot :
        /\ caches[k] \in Pos
        /\ caches[k] <= frontier
        /\ caches[k] = frontier => Applying
        /\ Digest[k] \in published

\* Replays, and the recheck in progress, hit only committed entries.
LiveLogInv ==
    /\ \A p \in Pos :
        /\ WellFormed(replay[p], p, entry[p], snapshot)
        /\ HitsIn(replay[p], p, caches)
        /\ p \in submitted /\ (p < frontier \/ (p = frontier /\ coord # "top"))
            => Finished(replay[p])
    /\ coord = "recheck" => /\ WellFormed(work, frontier, entry[frontier], snapshot)
                            /\ HitsIn(work, frontier, caches)
                            /\ MissesOutside(work, caches)
                            /\ frontier \in Pos

\* While a log is applied, the insertions before the cursor are published and
\* the others are not in the caches.
ApplyInv ==
    Applying =>
        /\ frontier \in Pos
        /\ WellFormed(work, frontier, entry[frontier], snapshot)
        /\ result[frontier] = work.trace
        /\ IsSerialRun(work.trace, frontier, entry[frontier], Before(frontier))
        /\ cursor <= Len(work.inserts) + 1
        /\ \A j \in DOMAIN work.inserts :
            IF j < cursor
            THEN work.inserts[j] \in DOMAIN caches /\ caches[work.inserts[j]] = frontier
            ELSE work.inserts[j] \notin DOMAIN caches
        /\ \A k \in PublishedBy(frontier) :
            \E j \in DOMAIN work.inserts : j < cursor /\ work.inserts[j] = k
        /\ frontier \notin dirty => work.trace = log[frontier].trace

\* A committed position that is not dirty committed its worker's log, and
\* only dirty positions are rechecked.
CommittedInv ==
    /\ \A p \in Pos : p < frontier /\ p \notin dirty => result[p] = log[p].trace
    /\ \A p \in dirty : p <= frontier /\ (p = frontier => coord # "top")
    /\ coord = "recheck" => frontier \in dirty

\* The inductive invariant.
IInv == /\ TypeOK /\ DispatchInv /\ OverlayInv /\ WorkerLogInv /\ PhaseInv
        /\ CachesInv /\ LiveLogInv /\ ApplyInv /\ CommittedInv
        /\ SerialEquivalence
=============================================================================
