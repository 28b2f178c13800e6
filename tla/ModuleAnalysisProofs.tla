------------------------ MODULE ModuleAnalysisProofs ------------------------
(***************************************************************************)
(* Proof that the parallel preliminary pass is equivalent to the serial    *)
(* one, and the re-analyses of the final pass to theirs, for every number  *)
(* of modules and workers, every program and every assignment of modules   *)
(* to workers, as long as no cache bucket fills up.                        *)
(***************************************************************************)
EXTENDS ModuleAnalysis, CheckProgramProofs

-----------------------------------------------------------------------------
(* The inductive invariant. *)

\* No bucket can fill up.
CapNotReached == \A k \in Key : Cardinality(Bucketmates(k)) <= Cap

TypeOK ==
    /\ final \in BOOLEAN /\ entry \in [Pos -> Loc] /\ thin \in [Pos -> Loc]
    /\ snapshot \in Caches
    /\ nextIndex \in 1..(N + 1)
    /\ owner \in [Pos -> Worker \cup {NoWorker}]
    /\ overlay \in [Worker -> Caches]
    /\ log \in [Pos -> Log]
    /\ phase \in {"analyze", "commit"}
    /\ rolling \in Caches
    /\ dirty \subseteq Pos
    /\ frontier \in 1..(N + 1)
    /\ redo \in BOOLEAN
    /\ work \in Log
    /\ result \in [Pos -> Seq(Event)]

\* The trace t of position p, entered at l, over caches that hold s: every miss
\* precedes the module's own insertion of the key, every hit on its own entry
\* follows it, and an intern that misses is kept.
TraceOK(t, p, l, s) ==
    \A i \in DOMAIN t :
        LET k == KeyAt[t[i].loc] IN
        /\ t[i].loc = LocAfter(t, i - 1, l)
        /\ Kind[t[i].loc] # "done"
        /\ t[i].kept <=> Kind[t[i].loc] = "intern" /\ t[i].answer = Miss
        /\ t[i].answer = Miss => /\ k \notin DOMAIN s
                                 /\ \A h \in 1..(i - 1) : ~Kept(t, h, k)
        /\ t[i].answer = p => \E h \in 1..(i - 1) : Kept(t, h, k)

\* inserts lists the keys that the run kept, once each, and the misses on the
\* caches are logged.
LogOK(lg) ==
    /\ \A j \in DOMAIN lg.inserts : lg.inserts[j] \in KeptKeys(lg.trace)
    /\ \A k \in KeptKeys(lg.trace) : \E j \in DOMAIN lg.inserts : lg.inserts[j] = k
    /\ \A i, j \in DOMAIN lg.inserts : lg.inserts[i] = lg.inserts[j] => i = j
    /\ \A i \in DOMAIN lg.trace :
        LET k == KeyAt[lg.trace[i].loc] IN
        lg.trace[i].answer = Miss /\ Class[k] = "cache" => Digest[k] \in lg.misses

WellFormed(lg, p, l, s) ==
    /\ lg.loc = LocAfter(lg.trace, Len(lg.trace), l)
    /\ TraceOK(lg.trace, p, l, s)
    /\ LogOK(lg)

\* Every hit of t on an entry that is not p's own is an entry of c.
HitsIn(t, p, c) ==
    \A i \in DOMAIN t :
        LET a == t[i].answer
            k == KeyAt[t[i].loc]
        IN  a \notin {Miss, p} => k \in DOMAIN c /\ c[k] = a

\* No key that t missed is in c.
MissesOutside(t, c) ==
    \A i \in DOMAIN t : t[i].answer = Miss => KeyAt[t[i].loc] \notin DOMAIN c

\* Every such hit of a worker's log is an entry of the pass's start, or was
\* kept in the caches by the log of a dependency that it names.
HitsExplained(lg, p) ==
    \A i \in DOMAIN lg.trace :
        LET a == lg.trace[i].answer
            k == KeyAt[lg.trace[i].loc]
        IN  a \notin {Miss, p} => \/ k \in DOMAIN snapshot /\ a = snapshot[k]
                                  \/ a \in lg.deps /\ k \in KeptKeys(log[a].trace)

\* No worker declares a global, the bodies are the same in the preliminary pass,
\* and no worker gets a module with a declare global block in the final pass.
PassInv ==
    /\ \A p \in Pos : thin[p] \in GlobalFree /\ (~final => thin[p] = entry[p])
    /\ \A p \in Modules : final /\ entry[p] \in GlobalBlock => p \in serialOnly

\* A worker finishes a module before it begins the next.
DispatchInv ==
    /\ \A p \in Pos : owner[p] \in Worker => p < nextIndex /\ p \in Modules \ serialOnly
    /\ \A p \in Pos : owner[p] = NoWorker => log[p] = FreshLog(thin[p])
    /\ \A p, q \in Pos : q < p /\ owner[q] = owner[p] /\ owner[p] \in Worker
                            => Finished(log[q])

\* A worker's overlay holds what its modules kept; of the context, what the
\* latest of them did.
OverlayInv ==
    /\ \A w \in Worker : \A k \in DOMAIN overlay[w] :
        /\ k \notin DOMAIN snapshot
        /\ overlay[w][k] \in Pos
        /\ owner[overlay[w][k]] = w
        /\ k \in KeptKeys(log[overlay[w][k]].trace)
    /\ \A q \in Pos : owner[q] \in Worker => \A k \in KeptKeys(log[q].trace) :
        /\ k \in DOMAIN overlay[owner[q]]
        /\ ~Finished(log[q]) => Class[k] = "cache" \/ overlay[owner[q]][k] = q

\* No worker declares a global.
NoGlobals(p) ==
    /\ log[p].loc \in GlobalFree
    /\ \A k \in KeptKeys(log[p].trace) : Class[k] # "global"

WorkerLogInv ==
    \A p \in Pos :
        /\ WellFormed(log[p], p, thin[p], snapshot)
        /\ HitsExplained(log[p], p)
        /\ \A q \in log[p].deps : q \in 1..(p - 1) /\ owner[q] = owner[p] /\ owner[p] \in Worker
        /\ owner[p] \in Worker => NoGlobals(p)

\* Nothing is committed before the workers have joined, all finished.
PhaseInv ==
    /\ phase = "analyze" => frontier = 1 /\ ~redo
    /\ phase = "commit" => \A p \in Pos : owner[p] \in Worker => Finished(log[p])

\* The rolling state is that of the pass's start and what the walk published.
RollingInv ==
    /\ \A k \in DOMAIN snapshot :
        snapshot[k] = BasePublisher /\ k \in DOMAIN rolling /\ rolling[k] = BasePublisher
    /\ \A k \in DOMAIN rolling \ DOMAIN snapshot :
        /\ rolling[k] \in Pos /\ rolling[k] < frontier
        /\ Class[k] = "cache" => Digest[k] \in published

\* A position that the walk has passed has published what it kept.
CommittedInv ==
    /\ \A p \in Pos : p < frontier =>
        {k \in DOMAIN rolling : rolling[k] = p} = KeptKeys(result[p])
    /\ \A p \in Modules : p < frontier /\ p \notin dirty =>
        result[p] = log[p].trace /\ owner[p] \in Worker
    /\ \A p \in Pos : ~(p \in Modules /\ p < frontier) => result[p] = <<>>
    /\ \A p \in dirty : p < frontier \/ (p = frontier /\ redo)

\* The re-analysis under way reads the rolling state.
RedoInv ==
    redo => /\ frontier \in Modules /\ frontier \in dirty
            /\ WellFormed(work, frontier, entry[frontier], rolling)
            /\ HitsIn(work.trace, frontier, rolling)

\* The preliminary pass adds no global.
PreliminaryInv ==
    ~final =>
        /\ \A k \in DOMAIN rolling \ DOMAIN snapshot : Class[k] # "global"
        /\ redo => /\ work.loc \in GlobalFree
                   /\ \A k \in KeptKeys(work.trace) : Class[k] # "global"

\* The globals that modules before p added during the pass.
AddedGlobals(p) == {k \in DOMAIN Before(p) : Class[k] = "global" /\ k \notin DOMAIN snapshot}

\* What p's kept analysis had before it: a worker has no global that the pass added.
Seen(p) == [k \in DOMAIN Before(p) \ (IF p \in dirty THEN {} ELSE AddedGlobals(p)) |-> rolling[k]]

\* Where p's kept analysis was entered.
Body(p) == IF p \in dirty THEN entry[p] ELSE thin[p]

\* Every kept analysis is a serial run of the body that was analyzed, over what
\* that analysis could see.
RunsInv ==
    \A p \in Modules : p < frontier => IsSerialRun(result[p], p, Body(p), Seen(p))

IInv == /\ TypeOK /\ PassInv /\ DispatchInv /\ OverlayInv /\ WorkerLogInv /\ PhaseInv
        /\ RollingInv /\ CommittedInv /\ RedoInv /\ PreliminaryInv /\ RunsInv

\* The rolling context has the memo of the last module the walk has passed, or
\* is analyzing.
MemoInv ==
    \A p \in Modules : (\A q \in Modules : q <= p) /\ (p < frontier \/ (p = frontier /\ redo))
        => memo = p

-----------------------------------------------------------------------------
(* One operation of an analysis. *)

\* While the cap is out of reach, a bucket has room for a key that is in
\* neither of two disjoint parts of the caches.
LEMMA RoomForKey ==
    ASSUME CapNotReached, NEW k \in Key,
           NEW X \in SUBSET Key, NEW Y \in SUBSET Key,
           k \notin X, k \notin Y, X \cap Y = {}
    PROVE  /\ Cardinality(Bucketmates(k) \cap X) + Cardinality(Bucketmates(k) \cap Y) < Cap
           /\ Cardinality(Bucketmates(k) \cap (X \cup Y)) < Cap
<1> DEFINE B == Bucketmates(k)
<1>1. ASSUME NEW Z \in SUBSET Key, k \notin Z
      PROVE  /\ IsFiniteSet(B \cap Z) /\ Cardinality(B \cap Z) \in Nat
             /\ Cardinality(B \cap Z) < Cardinality(B)
  BY <1>1, BucketBelow
<1>2. Cardinality(B) \in Nat /\ Cardinality(B) <= Cap /\ Cap \in Nat
  BY BucketBelow, CapAssumption DEF CapNotReached
<1> HIDE DEF B
<1>3. X \cup Y \in SUBSET Key /\ k \notin X \cup Y
  OBVIOUS
<1>4. /\ (B \cap X) \cup (B \cap Y) = B \cap (X \cup Y)
      /\ (B \cap X) \cap (B \cap Y) = {}
  OBVIOUS
<1>5. Cardinality(B \cap (X \cup Y)) =
        Cardinality(B \cap X) + Cardinality(B \cap Y) - Cardinality({})
  BY <1>1, <1>4, FS_Union
<1>6. Cardinality({}) = 0
  BY FS_EmptySet
<1>7. /\ Cardinality(B \cap X) \in Nat /\ Cardinality(B \cap Y) \in Nat
      /\ Cardinality(B \cap (X \cup Y)) < Cap
  <2>1. Cardinality(B \cap (X \cup Y)) \in Nat
        /\ Cardinality(B \cap (X \cup Y)) < Cardinality(B)
    BY <1>1, <1>3
  <2>2. QED BY <2>1, <1>1, <1>2
<1>8. Cardinality(B \cap X) + Cardinality(B \cap Y) < Cap
  BY <1>5, <1>6, <1>7
<1>9. QED BY <1>7, <1>8 DEF B

\* The event that the next operation of lg appends.
NextEvent(base, ov, lg) ==
    [loc |-> lg.loc, answer |-> AnswerOf(base, ov, KeyAt[lg.loc]),
     kept |-> Keeps(base, ov, lg.loc)]

\* One operation extends the log by one event of the right type, and an intern
\* that misses is kept.
LEMMA PerformedType ==
    ASSUME CapNotReached, NEW p \in Pos, NEW lg \in Log,
           NEW base \in Caches, NEW ov \in Caches, DOMAIN base \cap DOMAIN ov = {}
    PROVE  /\ Performed(base, ov, p, lg) \in Log
           /\ NextEvent(base, ov, lg) \in Event
           /\ Performed(base, ov, p, lg).trace = Append(lg.trace, NextEvent(base, ov, lg))
           /\ Keeps(base, ov, lg.loc) <=>
                Kind[lg.loc] = "intern" /\ AnswerOf(base, ov, KeyAt[lg.loc]) = Miss
<1> DEFINE k == KeyAt[lg.loc]
           a == AnswerOf(base, ov, k)
<1>1. lg.loc \in Loc /\ lg.trace \in Seq(Event) /\ lg.inserts \in Seq(Key)
      /\ lg.misses \subseteq {Digest[j] : j \in Key} /\ lg.deps \subseteq Publisher
  BY DEF Log
<1>2. k \in Key
  BY <1>1, ProgramAssumption
<1>3. a \in Answer /\ (a # Miss => a \in Publisher)
  BY CachesElim, <1>2 DEF AnswerOf, Answer
<1>4. a = Miss => k \notin DOMAIN base /\ k \notin DOMAIN ov
  BY CachesElim, MissIsNoPublisher DEF AnswerOf
<1>5. Goto[lg.loc][a] \in Loc
  BY <1>1, <1>3, ProgramAssumption
<1>6. Keeps(base, ov, lg.loc) <=> Kind[lg.loc] = "intern" /\ a = Miss
  <2>1. DOMAIN base \in SUBSET Key /\ DOMAIN ov \in SUBSET Key
    BY CachesElim
  <2>2. a = Miss => BucketLen(base, k) + BucketLen(ov, k) < Cap
    BY <2>1, <1>2, <1>4, RoomForKey DEF BucketLen
  <2>3. QED BY <2>2 DEF Keeps
<1>7. Keeps(base, ov, lg.loc) \in BOOLEAN
  BY DEF Keeps
<1>8. NextEvent(base, ov, lg) \in Event
  BY <1>1, <1>3, <1>7 DEF NextEvent, Event
<1>9. Performed(base, ov, p, lg) \in Log
  <2> DEFINE new == Performed(base, ov, p, lg)
             lo == Class[k] = "cache"
  <2>1. new = [loc |-> Goto[lg.loc][a],
               trace |-> Append(lg.trace, NextEvent(base, ov, lg)),
               misses |-> IF lo /\ a = Miss THEN lg.misses \cup {Digest[k]} ELSE lg.misses,
               deps |-> IF lo /\ k \notin DOMAIN base /\ a \notin {Miss, p}
                        THEN lg.deps \cup {a} ELSE lg.deps,
               inserts |-> IF Keeps(base, ov, lg.loc) THEN Append(lg.inserts, k)
                           ELSE lg.inserts]
    BY DEF Performed, NextEvent
  <2>2. Append(lg.trace, NextEvent(base, ov, lg)) \in Seq(Event)
    BY <1>1, <1>8
  <2>3. Append(lg.inserts, k) \in Seq(Key)
    BY <1>1, <1>2
  <2>4. (IF lo /\ a = Miss THEN lg.misses \cup {Digest[k]} ELSE lg.misses)
            \subseteq {Digest[j] : j \in Key}
    BY <1>1, <1>2
  <2>5. (IF lo /\ k \notin DOMAIN base /\ a \notin {Miss, p}
         THEN lg.deps \cup {a} ELSE lg.deps) \subseteq Publisher
    BY <1>1, <1>3
  <2> HIDE DEF new, a, k, lo
  <2>6. QED BY <2>1, <2>2, <2>3, <2>4, <2>5, <1>1, <1>5 DEF Log, new
<1>10. Performed(base, ov, p, lg).trace = Append(lg.trace, NextEvent(base, ov, lg))
  BY DEF Performed, NextEvent
<1>11. QED BY <1>6, <1>8, <1>9, <1>10

\* One operation keeps a log well formed, provided the base has none of p's
\* entries and the overlay tags p's own insertions, all of them and nothing
\* else, with p.
LEMMA PerformedWellFormed ==
    ASSUME CapNotReached, NEW p \in Pos, NEW lg \in Log, NEW l \in Loc,
           NEW base \in Caches, NEW ov \in Caches, DOMAIN base \cap DOMAIN ov = {},
           WellFormed(lg, p, l, base), ~Finished(lg),
           \A k \in DOMAIN base : base[k] # p,
           \A k \in DOMAIN ov : ov[k] = p => k \in KeptKeys(lg.trace),
           KeptKeys(lg.trace) \subseteq DOMAIN ov
    PROVE  WellFormed(Performed(base, ov, p, lg), p, l, base)
<1> DEFINE t   == lg.trace
           n   == Len(t)
           e   == NextEvent(base, ov, lg)
           u   == Append(t, e)
           new == Performed(base, ov, p, lg)
           k   == KeyAt[lg.loc]
           a   == AnswerOf(base, ov, k)
<1>1. /\ new \in Log /\ e \in Event /\ new.trace = u
      /\ e.kept <=> Kind[e.loc] = "intern" /\ e.answer = Miss
      /\ e.loc = lg.loc /\ e.answer = a
      /\ Keeps(base, ov, lg.loc) = e.kept
  BY PerformedType DEF NextEvent
<1>2. /\ t \in Seq(Event) /\ u \in Seq(Event) /\ n \in Nat /\ Len(u) = n + 1
      /\ \A i \in 1..n : u[i] = t[i]
      /\ u[n + 1] = e
      /\ DOMAIN t = 1..n /\ DOMAIN u = 1..(n + 1)
      /\ KeptKeys(u) = KeptKeys(t) \cup {j \in Key : e.kept /\ KeyAt[e.loc] = j}
      /\ lg.loc \in Loc /\ k \in Key /\ lg.inserts \in Seq(Key)
  BY <1>1, KeptAppend, ProgramAssumption DEF Log
<1>3. /\ new.loc = Goto[lg.loc][a]
      /\ new.misses = IF Class[k] = "cache" /\ a = Miss THEN lg.misses \cup {Digest[k]}
                      ELSE lg.misses
      /\ new.inserts = IF e.kept THEN Append(lg.inserts, k) ELSE lg.inserts
  BY <1>1 DEF Performed
<1>4. /\ a = Miss => k \notin DOMAIN base /\ k \notin DOMAIN ov
      /\ a = p => k \in DOMAIN ov /\ ov[k] = p
      /\ p # Miss
  BY CachesElim, MissIsNoPublisher DEF AnswerOf, Publisher
<1>5. /\ lg.loc = LocAfter(t, n, l)
      /\ TraceOK(t, p, l, base) /\ LogOK(lg)
  BY DEF WellFormed
<1>6. \A i \in 1..(n + 1) : LocAfter(u, i - 1, l) = LocAfter(t, i - 1, l)
  BY <1>2 DEF LocAfter
<1>7. \A h \in 1..n : \A j : Kept(u, h, j) <=> Kept(t, h, j)
  BY <1>2 DEF Kept
<1>8. k \in KeptKeys(t) <=> \E h \in 1..n : Kept(t, h, k)
  BY <1>2 DEF KeptKeys
<1>9. ~(Kind[lg.loc] = "done")
  BY DEF Finished
<1>10. KeptKeys(t) \subseteq DOMAIN ov /\ (k \in DOMAIN ov /\ ov[k] = p => k \in KeptKeys(t))
  OBVIOUS
<1> HIDE DEF t, n, e, u, new, k, a
<1>11. new.loc = LocAfter(u, n + 1, l)
  BY <1>1, <1>2, <1>3 DEF LocAfter
<1>12. ASSUME NEW i \in 1..(n + 1)
       PROVE  /\ u[i].loc = LocAfter(u, i - 1, l)
              /\ Kind[u[i].loc] # "done"
              /\ u[i].kept <=> Kind[u[i].loc] = "intern" /\ u[i].answer = Miss
              /\ u[i].answer = Miss => /\ KeyAt[u[i].loc] \notin DOMAIN base
                                       /\ \A h \in 1..(i - 1) : ~Kept(u, h, KeyAt[u[i].loc])
              /\ u[i].answer = p => \E h \in 1..(i - 1) : Kept(u, h, KeyAt[u[i].loc])
              /\ u[i].answer = Miss /\ Class[KeyAt[u[i].loc]] = "cache"
                    => Digest[KeyAt[u[i].loc]] \in new.misses
  <2>1. CASE i \in 1..n
    <3>1. \A h \in 1..(i - 1) : h \in 1..n
      BY <2>1, <1>2
    <3>2. u[i] = t[i] /\ i \in DOMAIN t /\ lg.misses \subseteq new.misses
      BY <2>1, <1>2, <1>3
    <3>3. LocAfter(u, i - 1, l) = LocAfter(t, i - 1, l)
      BY <1>6
    <3>4. t[i].answer = Miss /\ Class[KeyAt[t[i].loc]] = "cache"
            => Digest[KeyAt[t[i].loc]] \in lg.misses
      BY <3>2, <1>5 DEF LogOK, t
    <3>5. QED BY <3>1, <3>2, <3>3, <3>4, <1>5, <1>7 DEF TraceOK
  <2>2. CASE i = n + 1
    <3>1. u[i] = e /\ i - 1 = n /\ KeyAt[e.loc] = k
      BY <2>2, <1>2, <1>1 DEF k
    <3>2. e.loc = LocAfter(u, n, l)
      BY <3>1, <1>1, <1>2, <1>5, <1>6
    <3>3. e.answer = Miss => /\ k \notin DOMAIN base
                             /\ \A h \in 1..n : ~Kept(u, h, k)
      BY <1>1, <1>4, <1>7, <1>8, <1>10
    <3>4. e.answer = p => \E h \in 1..n : Kept(u, h, k)
      BY <1>1, <1>4, <1>7, <1>8, <1>10
    <3>5. e.answer = Miss /\ Class[k] = "cache" => Digest[k] \in new.misses
      BY <1>1, <1>3
    <3>6. QED BY <3>1, <3>2, <3>3, <3>4, <3>5, <1>1, <1>9
  <2>3. QED BY <2>1, <2>2, <1>2
<1>13. /\ \A j \in DOMAIN new.inserts : new.inserts[j] \in KeptKeys(u)
       /\ \A j \in KeptKeys(u) : \E i \in DOMAIN new.inserts : new.inserts[i] = j
       /\ \A i, j \in DOMAIN new.inserts : new.inserts[i] = new.inserts[j] => i = j
  <2>1. /\ \A j \in DOMAIN lg.inserts : lg.inserts[j] \in KeptKeys(t)
        /\ \A j \in KeptKeys(t) : \E i \in DOMAIN lg.inserts : lg.inserts[i] = j
        /\ \A i, j \in DOMAIN lg.inserts : lg.inserts[i] = lg.inserts[j] => i = j
    BY <1>5 DEF LogOK, t
  <2>2. CASE ~e.kept
    BY <2>1, <2>2, <1>2, <1>3
  <2>3. CASE e.kept
    <3>1. KeptKeys(u) = KeptKeys(t) \cup {k}
      BY <2>3, <1>1, <1>2 DEF k
    <3>2. k \notin KeptKeys(t)
      BY <2>3, <1>1, <1>4, <1>10
    <3>3. /\ new.inserts = Append(lg.inserts, k)
          /\ DOMAIN new.inserts = 1..(Len(lg.inserts) + 1)
          /\ DOMAIN lg.inserts = 1..Len(lg.inserts)
          /\ Len(lg.inserts) \in Nat
          /\ \A i \in DOMAIN lg.inserts : new.inserts[i] = lg.inserts[i]
          /\ new.inserts[Len(lg.inserts) + 1] = k
      BY <2>3, <1>2, <1>3
    <3>4. \A j \in DOMAIN new.inserts : j \in DOMAIN lg.inserts \/ j = Len(lg.inserts) + 1
      BY <3>3
    <3>5. \A j \in DOMAIN new.inserts : new.inserts[j] \in KeptKeys(u)
      BY <3>1, <3>3, <3>4, <2>1
    <3>6. \A j \in KeptKeys(u) : \E i \in DOMAIN new.inserts : new.inserts[i] = j
      BY <3>1, <3>3, <2>1
    <3>7. \A i, j \in DOMAIN new.inserts : new.inserts[i] = new.inserts[j] => i = j
      BY <3>2, <3>3, <3>4, <2>1
    <3>8. QED BY <3>5, <3>6, <3>7
  <2>4. QED BY <2>2, <2>3
<1>14. DOMAIN u = 1..(n + 1) /\ Len(u) = n + 1 /\ new.trace = u
  BY <1>1, <1>2
<1>15. TraceOK(u, p, l, base)
  BY <1>12, <1>14 DEF TraceOK
<1>16. LogOK(new)
  BY <1>12, <1>13, <1>14 DEF LogOK
<1>17. WellFormed(new, p, l, base)
  BY <1>11, <1>14, <1>15, <1>16 DEF WellFormed
<1>18. QED BY <1>17 DEF new

\* The heart of the argument: a well formed, finished log is a serial run on c
\* when none of its misses is in c and all its hits are in c.
LEMMA ValidLogIsSerialRun ==
    ASSUME CapNotReached, NEW p \in Pos, NEW lg \in Log, NEW l \in Loc, NEW s \in Caches,
           NEW c \in Caches,
           WellFormed(lg, p, l, s), Finished(lg),
           MissesOutside(lg.trace, c), HitsIn(lg.trace, p, c)
    PROVE  IsSerialRun(lg.trace, p, l, c)
<1> DEFINE t == lg.trace
           mine(i) == {j \in Key : \E h \in 1..(i - 1) : Kept(t, h, j)}
<1>1. t \in Seq(Event) /\ DOMAIN t = 1..Len(t) /\ Len(t) \in Nat
  BY DEF Log
<1>2. Kind[LocAfter(t, Len(t), l)] = "done"
  BY DEF WellFormed, Finished
<1>3. ASSUME NEW i \in DOMAIN t
      PROVE  LET k == KeyAt[t[i].loc] IN
             /\ t[i].loc = LocAfter(t, i - 1, l)
             /\ Kind[t[i].loc] # "done"
             /\ t[i].answer = IF k \in DOMAIN c THEN c[k]
                              ELSE IF k \in mine(i) THEN p ELSE Miss
             /\ t[i].kept =
                  (/\ Kind[t[i].loc] = "intern"
                   /\ t[i].answer = Miss
                   /\ Cardinality(Bucketmates(k) \cap (DOMAIN c \cup mine(i))) < Cap)
  <2> DEFINE k == KeyAt[t[i].loc]
  <2>1. /\ t[i].loc = LocAfter(t, i - 1, l)
        /\ Kind[t[i].loc] # "done"
        /\ t[i].kept <=> Kind[t[i].loc] = "intern" /\ t[i].answer = Miss
        /\ t[i].answer = Miss => \A h \in 1..(i - 1) : ~Kept(t, h, k)
        /\ t[i].answer = p => \E h \in 1..(i - 1) : Kept(t, h, k)
    BY DEF WellFormed, TraceOK
  <2>2. t[i] \in Event /\ k \in Key /\ t[i].kept \in BOOLEAN /\ i \in Nat
    <3>1. t[i] \in Event /\ i \in Nat
      BY <1>1
    <3>2. t[i].loc \in Loc /\ t[i].kept \in BOOLEAN
      BY <3>1 DEF Event
    <3>3. QED BY <3>1, <3>2, ProgramAssumption
  <2>3. k \in mine(i) <=> \E h \in 1..(i - 1) : Kept(t, h, k)
    BY <2>2
  <2>4. t[i].answer = Miss => k \notin DOMAIN c
    BY DEF MissesOutside
  <2>5. t[i].answer \notin {Miss, p} => k \in DOMAIN c /\ c[k] = t[i].answer
    BY DEF HitsIn
  <2>6. ASSUME t[i].answer = p PROVE k \notin DOMAIN c
    <3>1. PICK h \in 1..(i - 1) : Kept(t, h, k)
      BY <2>1, <2>6
    <3>2. h \in DOMAIN t
      BY <1>1, <2>2
    <3>3. t[h].answer = Miss /\ KeyAt[t[h].loc] = k
      BY <3>1, <3>2 DEF Kept, WellFormed, TraceOK
    <3>4. QED BY <3>2, <3>3 DEF MissesOutside
  <2>7. t[i].answer = IF k \in DOMAIN c THEN c[k] ELSE IF k \in mine(i) THEN p ELSE Miss
    BY <2>1, <2>3, <2>4, <2>5, <2>6
  <2>8. t[i].answer = Miss =>
          Cardinality(Bucketmates(k) \cap (DOMAIN c \cup mine(i))) < Cap
    <3>1. DOMAIN c \cup mine(i) \in SUBSET Key
      BY CachesElim
    <3>2. t[i].answer = Miss => k \notin DOMAIN c \cup mine(i)
      BY <2>1, <2>3, <2>4
    <3>3. {} \in SUBSET Key /\ k \notin {} /\ (DOMAIN c \cup mine(i)) \cap {} = {}
          /\ (DOMAIN c \cup mine(i)) \cup {} = DOMAIN c \cup mine(i)
      OBVIOUS
    <3> HIDE DEF mine, k
    <3>4. QED BY <3>1, <3>2, <3>3, <2>2, RoomForKey
  <2>9. t[i].kept =
          (/\ Kind[t[i].loc] = "intern"
           /\ t[i].answer = Miss
           /\ Cardinality(Bucketmates(k) \cap (DOMAIN c \cup mine(i))) < Cap)
    BY <2>1, <2>2, <2>8
  <2>10. QED BY <2>1, <2>7, <2>9
<1>4. QED BY <1>2, <1>3 DEF IsSerialRun

-----------------------------------------------------------------------------
(* The start of a pass. *)

\* An analysis that declares no global never gets to a location that does.
LEMMA GlobalFreeClosed ==
    ASSUME NEW l \in GlobalFree
    PROVE  /\ \A a \in Answer : Goto[l][a] \in GlobalFree
           /\ Kind[l] = "intern" => Class[KeyAt[l]] # "global"
<1>1. PICK G \in SUBSET Loc :
        /\ l \in G
        /\ \A m \in G : /\ \A a \in Answer : Goto[m][a] \in G
                        /\ Kind[m] = "intern" => Class[KeyAt[m]] # "global"
  BY DEF GlobalFree
<1>2. \A m \in G : m \in GlobalFree
  BY <1>1 DEF GlobalFree
<1>3. QED BY <1>1, <1>2

\* An empty log is a well formed log of its position and hits nothing.
LEMMA FreshLogOK ==
    ASSUME NEW l \in Loc, NEW p \in Pos, NEW s
    PROVE  /\ FreshLog(l) \in Log
           /\ WellFormed(FreshLog(l), p, l, s)
           /\ FreshLog(l).trace = <<>> /\ FreshLog(l).deps = {}
           /\ FreshLog(l).loc = l
           /\ KeptKeys(FreshLog(l).trace) = {}
<1>1. /\ FreshLog(l).trace = <<>> /\ FreshLog(l).inserts = <<>>
      /\ FreshLog(l).loc = l /\ FreshLog(l).misses = {} /\ FreshLog(l).deps = {}
  BY DEF FreshLog
<1>2. FreshLog(l) \in Log
  <2>1. <<>> \in Seq(Event) /\ <<>> \in Seq(Key)
    OBVIOUS
  <2>2. QED BY <2>1 DEF FreshLog, Log
<1>3. KeptKeys(<<>>) = {}
  BY DEF KeptKeys
<1>4. WellFormed(FreshLog(l), p, l, s)
  BY <1>1, <1>3 DEF WellFormed, TraceOK, LogOK, LocAfter
<1>5. QED BY <1>1, <1>2, <1>3, <1>4

\* The initial states satisfy the inductive invariant.
LEMMA InitIInv == Init => IInv
<1> SUFFICES ASSUME Init PROVE IInv
  OBVIOUS
<1>1. PICK x \in Passes : final = x.final /\ entry = x.entry /\ thin = x.thin
  BY DEF Init
<1>2. final \in BOOLEAN /\ entry \in [Pos -> Loc] /\ thin \in [Pos -> Loc]
  BY <1>1, AnalysisAssumption
<1>3. 1 \in Pos /\ 1 \in 1..(N + 1) /\ Pos \subseteq Nat /\ \A p \in Pos : ~(p < 1)
  BY NAssumption DEF Pos
<1>4. snapshot \in Caches /\ \A k \in DOMAIN snapshot : snapshot[k] = BasePublisher
  <2>1. PICK D \in SUBSET Key : snapshot \in [D -> {BasePublisher}]
    BY DEF Init
  <2>2. QED BY <2>1 DEF Caches, Publisher
<1>5. \A p \in Pos :
        /\ FreshLog(thin[p]) \in Log /\ FreshLog(entry[p]) \in Log
        /\ WellFormed(FreshLog(thin[p]), p, thin[p], snapshot)
        /\ FreshLog(thin[p]).trace = <<>>
        /\ FreshLog(thin[p]).deps = {}
        /\ KeptKeys(FreshLog(thin[p]).trace) = {}
  BY <1>2, FreshLogOK
<1>6. TypeOK
  <2>1. [k \in {} |-> BasePublisher] \in Caches
    BY DEF Caches, Publisher
  <2>2. <<>> \in Seq(Event)
    OBVIOUS
  <2>3. overlay \in [Worker -> Caches]
    BY <2>1 DEF Init
  <2>4. log \in [Pos -> Log] /\ work \in Log /\ result \in [Pos -> Seq(Event)]
    BY <1>3, <1>5, <2>2 DEF Init
  <2>5. owner \in [Pos -> Worker \cup {NoWorker}]
    BY DEF Init
  <2>6. QED BY <1>2, <1>3, <1>4, <2>3, <2>4, <2>5 DEF Init, TypeOK
<1>7. PassInv
  <2>1. \A p \in Pos : x.thin[p] \in GlobalFree /\ (~x.final => x.thin[p] = x.entry[p])
    BY UsesAssumption
  <2>2. \A p \in Modules : final /\ entry[p] \in GlobalBlock => p \in serialOnly
    BY DEF Init
  <2>3. QED BY <2>1, <2>2, <1>1 DEF PassInv
<1>8. DispatchInv
  BY AnalysisAssumption, <1>3 DEF Init, DispatchInv
<1>9. OverlayInv
  <2>1. \A w \in Worker : DOMAIN overlay[w] = {}
    BY DEF Init
  <2>2. \A q \in Pos : owner[q] \notin Worker
    BY AnalysisAssumption DEF Init
  <2>3. QED BY <2>1, <2>2 DEF OverlayInv
<1>10. WorkerLogInv
  <2>1. \A p \in Pos : owner[p] \notin Worker /\ log[p] = FreshLog(thin[p])
    BY AnalysisAssumption DEF Init
  <2>2. QED BY <1>5, <2>1 DEF WorkerLogInv, HitsExplained
<1>11. PhaseInv
  BY DEF Init, PhaseInv
<1>12. RollingInv
  BY <1>4 DEF Init, RollingInv
<1>13. CommittedInv /\ RedoInv
  BY <1>3 DEF Init, CommittedInv, RedoInv, Modules
<1>14. PreliminaryInv /\ RunsInv
  BY <1>3 DEF Init, PreliminaryInv, RunsInv, Modules
<1>15. QED
  BY <1>6, <1>7, <1>8, <1>9, <1>10, <1>11, <1>12, <1>13, <1>14 DEF IInv

-----------------------------------------------------------------------------
(* The worker phase. *)

\* The parts of the invariant about the walk survive a step of the workers
\* before they have joined.
LEMMA WalkUntouched ==
    ASSUME IInv, UNCHANGED <<pass, walkVars>>, phase = "analyze"
    PROVE  /\ PassInv' /\ RollingInv' /\ CommittedInv' /\ RedoInv' /\ PreliminaryInv' /\ RunsInv'
           /\ phase' = phase => PhaseInv'
<1>1. /\ UNCHANGED <<final, entry, thin, serialOnly, snapshot>>
      /\ UNCHANGED <<rolling, published, dirty, frontier, redo, work, memo, result>>
  BY DEF pass, walkVars
<1>2. frontier = 1 /\ ~redo
  BY DEF IInv, PhaseInv
<1>3. \A p \in Pos : ~(p < frontier)
  BY <1>2, NAssumption DEF Pos
<1>4. Modules' = Modules /\ Modules \subseteq Pos
  BY <1>1 DEF Modules, IsModule
<1>5. PassInv'
  BY <1>1, <1>4 DEF IInv, PassInv
<1>6. RollingInv'
  BY <1>1 DEF IInv, RollingInv
<1>7. CommittedInv'
  BY <1>1, <1>3, <1>4 DEF IInv, CommittedInv
<1>8. RedoInv' /\ PreliminaryInv' /\ RunsInv'
  BY <1>1, <1>2, <1>3, <1>4 DEF IInv, RedoInv, PreliminaryInv, RunsInv
<1>9. phase' = phase => PhaseInv'
  BY <1>1, <1>2 DEF PhaseInv
<1>10. QED BY <1>5, <1>6, <1>7, <1>8, <1>9

\* The parts about the workers survive a step that leaves the workers alone.
LEMMA WorkersUntouched ==
    ASSUME IInv, UNCHANGED <<pass, workerVars>>
    PROVE  PassInv' /\ DispatchInv' /\ OverlayInv' /\ WorkerLogInv'
<1>1. /\ UNCHANGED <<final, entry, thin, serialOnly, snapshot>>
      /\ UNCHANGED <<nextIndex, owner, overlay, log>>
  BY DEF pass, workerVars
<1>2. Modules' = Modules
  BY <1>1 DEF Modules, IsModule
<1>3. PassInv' /\ DispatchInv'
  BY <1>1, <1>2 DEF IInv, PassInv, DispatchInv, FreshLog
<1>4. OverlayInv'
  BY <1>1 DEF IInv, OverlayInv
<1>5. WorkerLogInv'
  BY <1>1 DEF IInv, WorkerLogInv, HitsExplained, NoGlobals
<1>6. QED BY <1>3, <1>4, <1>5

\* Handing out the next index preserves the invariant.
LEMMA DispatchStep ==
    ASSUME IInv, NEW w \in Worker, Dispatch(w)
    PROVE  IInv'
<1> USE DEF IInv
<1>1. /\ UNCHANGED <<pass, walkVars>>
      /\ UNCHANGED <<overlay, log, phase>>
      /\ phase = "analyze" /\ nextIndex \in Pos
      /\ nextIndex' = nextIndex + 1
      /\ \A p \in Pos : owner[p] = w => Finished(log[p])
      /\ owner' = IF nextIndex \in Modules \ serialOnly
                  THEN [owner EXCEPT ![nextIndex] = w] ELSE owner
  BY DEF Dispatch, Busy
<1>2. /\ UNCHANGED <<final, entry, thin, serialOnly, snapshot>>
      /\ UNCHANGED <<rolling, published, dirty, frontier, redo, work, memo, result>>
      /\ Modules' = Modules
  BY <1>1 DEF pass, walkVars, Modules, IsModule
<1>3. /\ owner \in [Pos -> Worker \cup {NoWorker}] /\ nextIndex \in Nat /\ Pos \subseteq Nat
      /\ log \in [Pos -> Log] /\ thin \in [Pos -> Loc]
  BY NAssumption DEF TypeOK, Pos
<1>4. /\ \A p \in Pos : p # nextIndex => owner'[p] = owner[p]
      /\ owner'[nextIndex] = owner[nextIndex]
         \/ (owner'[nextIndex] = w /\ nextIndex \in Modules \ serialOnly)
      /\ owner' \in [Pos -> Worker \cup {NoWorker}]
  BY <1>1, <1>3
<1>5. owner[nextIndex] = NoWorker
  BY <1>1, <1>3 DEF DispatchInv
<1>6. log[nextIndex] = FreshLog(thin[nextIndex])
  BY <1>1, <1>5 DEF DispatchInv
<1>7. TypeOK'
  <2>1. nextIndex' \in 1..(N + 1)
    BY <1>1, NAssumption DEF Pos
  <2>2. QED BY <1>1, <1>2, <1>4, <2>1 DEF TypeOK
<1>8. \A p \in Pos : owner'[p] \in Worker => p < nextIndex + 1 /\ p \in Modules \ serialOnly
  <2>1. \A p \in Pos : p < nextIndex => p < nextIndex + 1
    BY <1>3
  <2>2. nextIndex < nextIndex + 1
    BY <1>3
  <2>3. QED BY <2>1, <2>2, <1>4, <1>5, AnalysisAssumption DEF DispatchInv
<1>9. DispatchInv'
  <2>1. ASSUME NEW p \in Pos, owner'[p] = NoWorker PROVE log[p] = FreshLog(thin[p])
    BY <2>1, <1>4, <1>6 DEF DispatchInv
  <2>2. ASSUME NEW p \in Pos, NEW q \in Pos, q < p, owner'[q] = owner'[p],
               owner'[p] \in Worker
        PROVE  Finished(log[q])
    <3>1. p < nextIndex + 1
      BY <1>8, <2>2
    <3>2. q # nextIndex /\ owner'[q] = owner[q]
      BY <3>1, <2>2, <1>3, <1>4
    <3>3. QED BY <3>2, <2>2, <1>1, <1>4 DEF DispatchInv
  <2>3. QED BY <2>1, <2>2, <1>8, <1>1, <1>2 DEF DispatchInv, FreshLog
<1>10. KeptKeys(log[nextIndex].trace) = {} /\ log[nextIndex].loc = thin[nextIndex]
       /\ log[nextIndex].deps = {}
  BY <1>1, <1>3, <1>6, FreshLogOK
<1>11. OverlayInv'
  <2>1. ASSUME NEW v \in Worker, NEW k \in DOMAIN overlay[v]
        PROVE  /\ k \notin DOMAIN snapshot
               /\ overlay[v][k] \in Pos /\ owner'[overlay[v][k]] = v
               /\ k \in KeptKeys(log[overlay[v][k]].trace)
    BY <1>4, <1>5, AnalysisAssumption DEF OverlayInv
  <2>2. ASSUME NEW q \in Pos, owner'[q] \in Worker, NEW k \in KeptKeys(log[q].trace)
        PROVE  /\ k \in DOMAIN overlay[owner'[q]]
               /\ ~Finished(log[q]) => Class[k] = "cache" \/ overlay[owner'[q]][k] = q
    <3>1. q # nextIndex
      BY <2>2, <1>10
    <3>2. QED BY <3>1, <2>2, <1>4 DEF OverlayInv
  <2>3. QED BY <2>1, <2>2, <1>1, <1>2 DEF OverlayInv
<1>12. WorkerLogInv'
  <2>1. ASSUME NEW p \in Pos, NEW q \in log[p].deps
        PROVE  q \in 1..(p - 1) /\ owner'[q] = owner'[p] /\ owner'[p] \in Worker
    <3>1. q \in 1..(p - 1) /\ owner[q] = owner[p] /\ owner[p] \in Worker /\ q \in Pos
      BY EarlierPos DEF WorkerLogInv
    <3>2. p # nextIndex /\ q # nextIndex
      BY <3>1, <1>5, AnalysisAssumption
    <3>3. QED BY <3>1, <3>2, <1>4
  <2>2. ASSUME NEW p \in Pos, owner'[p] \in Worker
        PROVE  log[p].loc \in GlobalFree
               /\ \A k \in KeptKeys(log[p].trace) : Class[k] # "global"
    <3>1. CASE p = nextIndex
      BY <3>1, <2>2, <1>10 DEF PassInv
    <3>2. CASE p # nextIndex
      BY <3>2, <2>2, <1>4 DEF WorkerLogInv, NoGlobals
    <3>3. QED BY <3>1, <3>2
  <2>3. ASSUME NEW p \in Pos
        PROVE  WellFormed(log[p], p, thin[p], snapshot) /\ HitsExplained(log[p], p)
    BY DEF WorkerLogInv
  <2>4. QED BY <2>1, <2>2, <2>3, <1>1, <1>2 DEF WorkerLogInv, HitsExplained, NoGlobals
<1>13. QED BY <1>1, <1>7, <1>9, <1>11, <1>12, WalkUntouched

\* Joining the workers preserves the invariant.
LEMMA JoinStep ==
    ASSUME IInv, Join
    PROVE  IInv'
<1> USE DEF IInv
<1>1. /\ UNCHANGED <<pass, workerVars>> /\ UNCHANGED <<pass, walkVars>>
      /\ phase = "analyze" /\ phase' = "commit"
      /\ \A w \in Worker : \A p \in Pos : owner[p] = w => Finished(log[p])
  BY DEF Join, Busy
<1>2. /\ UNCHANGED <<final, entry, thin, serialOnly, snapshot, nextIndex, owner, overlay, log>>
      /\ UNCHANGED <<rolling, published, dirty, frontier, redo, work, memo, result>>
  BY <1>1 DEF pass, workerVars, walkVars
<1>3. TypeOK' /\ PhaseInv'
  BY <1>1, <1>2 DEF TypeOK, PhaseInv
<1>4. QED BY <1>1, <1>3, WalkUntouched, WorkersUntouched

\* One operation of a worker preserves the invariant.
LEMMA WorkerStepOK ==
    ASSUME CapNotReached, IInv, NEW p \in Pos, WorkerStep(p)
    PROVE  IInv'
<1> USE DEF IInv
<1> DEFINE w   == owner[p]
           all == overlay[w]
           ov  == Visible(all, p)
           lg  == log[p]
           new == Performed(snapshot, ov, p, lg)
           k0  == KeyAt[lg.loc]
           a0  == AnswerOf(snapshot, ov, k0)
           e   == NextEvent(snapshot, ov, lg)
<1>1. /\ w \in Worker /\ ~Finished(lg)
      /\ log' = [log EXCEPT ![p] = new]
      /\ overlay' = [overlay EXCEPT ![w] =
                       IF Keeps(snapshot, ov, lg.loc) THEN WithEntry(all, k0, p) ELSE all]
      /\ UNCHANGED <<nextIndex, owner, phase>>
      /\ UNCHANGED <<pass, walkVars>>
  <2>1. overlay \in [Worker -> Caches] /\ log \in [Pos -> Log]
    BY DEF TypeOK
  <2>2. QED BY <2>1 DEF WorkerStep
<1>2. /\ UNCHANGED <<final, entry, thin, serialOnly, snapshot>>
      /\ UNCHANGED <<rolling, published, dirty, frontier, redo, work, memo, result>>
      /\ Modules' = Modules
  BY <1>1 DEF pass, walkVars, Modules, IsModule
<1>3. /\ snapshot \in Caches /\ all \in Caches /\ lg \in Log /\ thin[p] \in Loc
      /\ overlay \in [Worker -> Caches] /\ log \in [Pos -> Log]
      /\ p \in Publisher /\ k0 \in Key /\ lg.loc \in Loc /\ lg.trace \in Seq(Event)
  <2>1. snapshot \in Caches /\ all \in Caches /\ lg \in Log /\ thin[p] \in Loc
        /\ overlay \in [Worker -> Caches] /\ log \in [Pos -> Log]
    BY <1>1 DEF TypeOK
  <2>2. lg.loc \in Loc /\ lg.trace \in Seq(Event)
    BY <2>1 DEF Log
  <2>3. QED BY <2>1, <2>2, ProgramAssumption DEF Publisher
<1>4. phase = "analyze"
  BY <1>1 DEF PhaseInv, TypeOK
<1>5. /\ DOMAIN ov = {j \in DOMAIN all : Class[j] = "cache" \/ all[j] = p}
      /\ \A j \in DOMAIN ov : ov[j] = all[j]
      /\ ov \in Caches
      /\ DOMAIN snapshot \cap DOMAIN ov = {}
  <2>1. /\ DOMAIN ov = {j \in DOMAIN all : Class[j] = "cache" \/ all[j] = p}
        /\ \A j \in DOMAIN ov : ov[j] = all[j]
    BY DEF Visible
  <2>2. DOMAIN ov \in SUBSET Key /\ \A j \in DOMAIN ov : ov[j] \in Publisher
    BY <2>1, <1>3, CachesElim
  <2>3. ov = [j \in DOMAIN ov |-> ov[j]]
    BY DEF Visible
  <2>4. ov \in [DOMAIN ov -> Publisher]
    BY <2>2, <2>3
  <2>5. ov \in Caches
    BY <2>2, <2>4 DEF Caches
  <2>6. DOMAIN snapshot \cap DOMAIN ov = {}
    BY <2>1, <1>1 DEF OverlayInv
  <2>7. QED BY <2>1, <2>5, <2>6
<1>6. KeptKeys(lg.trace) \subseteq DOMAIN ov
  BY <1>1, <1>5 DEF OverlayInv
<1>7. /\ new \in Log /\ e \in Event /\ new.trace = Append(lg.trace, e)
      /\ e.kept <=> Kind[lg.loc] = "intern" /\ a0 = Miss
      /\ e.loc = lg.loc /\ e.answer = a0 /\ e.kept = Keeps(snapshot, ov, lg.loc)
      /\ e.answer \in Answer
  <2>1. /\ new \in Log /\ e \in Event /\ new.trace = Append(lg.trace, e)
        /\ Keeps(snapshot, ov, lg.loc) <=> Kind[lg.loc] = "intern" /\ a0 = Miss
    BY <1>3, <1>5, PerformedType
  <2>2. e.loc = lg.loc /\ e.answer = a0 /\ e.kept = Keeps(snapshot, ov, lg.loc)
    BY DEF NextEvent
  <2>3. QED BY <2>1, <2>2 DEF Event
<1>8. WellFormed(new, p, thin[p], snapshot)
  <2>1. WellFormed(lg, p, thin[p], snapshot)
    BY DEF WorkerLogInv
  <2>2. \A k \in DOMAIN snapshot : snapshot[k] # p
    BY MissIsNoPublisher DEF RollingInv, BasePublisher, Pos
  <2>3. \A k \in DOMAIN ov : ov[k] = p => k \in KeptKeys(lg.trace)
    BY <1>1, <1>5 DEF OverlayInv
  <2>4. QED BY <2>1, <2>2, <2>3, <1>1, <1>3, <1>5, <1>6, PerformedWellFormed
<1>9. /\ \A i \in 1..Len(lg.trace) : new.trace[i] = lg.trace[i]
      /\ new.trace[Len(lg.trace) + 1] = e
      /\ KeptKeys(new.trace) = KeptKeys(lg.trace) \cup {k \in Key : e.kept /\ k0 = k}
      /\ DOMAIN lg.trace = 1..Len(lg.trace)
      /\ DOMAIN new.trace = 1..(Len(lg.trace) + 1)
      /\ Len(lg.trace) \in Nat
  BY <1>3, <1>7, KeptAppend
<1>10. log'[p] = new /\ \A q \in Pos : q # p => log'[q] = log[q]
  BY <1>1, <1>3
<1>11. /\ a0 = Miss => k0 \notin DOMAIN ov /\ k0 \notin DOMAIN snapshot
       /\ a0 # Miss => \/ k0 \in DOMAIN snapshot /\ a0 = snapshot[k0]
                       \/ k0 \notin DOMAIN snapshot /\ k0 \in DOMAIN ov /\ a0 = ov[k0]
  BY <1>3, <1>5, CachesElim, MissIsNoPublisher DEF AnswerOf
<1>12. /\ overlay'[w] = IF e.kept THEN WithEntry(all, k0, p) ELSE all
       /\ \A v \in Worker : v # w => overlay'[v] = overlay[v]
  BY <1>1, <1>3, <1>7
<1>13. /\ new.deps = IF Class[k0] = "cache" /\ k0 \notin DOMAIN snapshot /\ a0 \notin {Miss, p}
                     THEN lg.deps \cup {a0} ELSE lg.deps
       /\ new.loc = Goto[lg.loc][a0]
  BY DEF Performed
<1>14. /\ WithEntry(all, k0, p) \in Caches
       /\ DOMAIN WithEntry(all, k0, p) = DOMAIN all \cup {k0}
       /\ WithEntry(all, k0, p)[k0] = p
       /\ \A j \in DOMAIN all : j # k0 => WithEntry(all, k0, p)[j] = all[j]
  BY <1>3, WithEntryType
<1>15. \A q \in Pos : q # p /\ owner[q] = w => q < p /\ Finished(log[q])
  BY <1>1, MissIsNoPublisher DEF DispatchInv
<1> HIDE DEF w, all, ov, lg, new, k0, a0, e
<1>16. TypeOK'
  <2>1. log' \in [Pos -> Log]
    BY <1>1, <1>3, <1>7
  <2>2. overlay' \in [Worker -> Caches]
    BY <1>1, <1>3, <1>14
  <2>3. QED BY <2>1, <2>2, <1>1, <1>2 DEF TypeOK
<1>17. DispatchInv'
  <2>1. ASSUME NEW q \in Pos, owner[q] = NoWorker PROVE log'[q] = FreshLog(thin[q])
    BY <2>1, <1>1, <1>10, AnalysisAssumption DEF DispatchInv, w
  <2>2. ASSUME NEW r \in Pos, NEW q \in Pos, q < r, owner[q] = owner[r], owner[r] \in Worker
        PROVE  Finished(log'[q])
    <3>1. Finished(log[q])
      BY <2>2 DEF DispatchInv
    <3>2. QED BY <3>1, <1>1, <1>10 DEF lg
  <2>3. QED BY <2>1, <2>2, <1>1, <1>2 DEF DispatchInv, FreshLog
<1>18. OverlayInv'
  <2>1. ASSUME NEW q \in Pos PROVE KeptKeys(log[q].trace) \subseteq KeptKeys(log'[q].trace)
    BY <1>9, <1>10 DEF lg
  <2>2. ASSUME NEW v \in Worker, NEW k \in DOMAIN overlay'[v]
        PROVE  /\ k \notin DOMAIN snapshot
               /\ overlay'[v][k] \in Pos /\ owner[overlay'[v][k]] = v
               /\ k \in KeptKeys(log'[overlay'[v][k]].trace)
    <3>1. CASE k \in DOMAIN overlay[v] /\ overlay'[v][k] = overlay[v][k]
      BY <3>1, <2>1 DEF OverlayInv
    <3>2. CASE ~(k \in DOMAIN overlay[v] /\ overlay'[v][k] = overlay[v][k])
      <4>1. v = w /\ e.kept
        BY <3>2, <2>2, <1>12 DEF all
      <4>2. overlay'[v] = WithEntry(all, k0, p)
        BY <4>1, <1>12
      <4>3. k0 \notin DOMAIN snapshot
        BY <4>1, <1>7, <1>11
      <4>4. k = k0 /\ overlay'[v][k] = p
        BY <4>1, <4>2, <3>2, <2>2, <1>14 DEF all
      <4>5. k \in KeptKeys(log'[p].trace)
        BY <4>1, <4>4, <1>3, <1>9, <1>10
      <4>6. QED BY <4>1, <4>3, <4>4, <4>5 DEF w
    <3>3. QED BY <3>1, <3>2
  <2>3. ASSUME NEW q \in Pos, owner[q] \in Worker, NEW k \in KeptKeys(log'[q].trace)
        PROVE  /\ k \in DOMAIN overlay'[owner[q]]
               /\ ~Finished(log'[q]) => Class[k] = "cache" \/ overlay'[owner[q]][k] = q
    <3>1. DOMAIN all \subseteq DOMAIN overlay'[w]
      BY <1>12, <1>14
    <3>2. DOMAIN overlay[owner[q]] \subseteq DOMAIN overlay'[owner[q]]
      BY <3>1, <2>3, <1>12 DEF all
    <3>3. CASE q # p
      <4>1. k \in DOMAIN overlay[owner[q]] /\ log'[q] = log[q]
            /\ (~Finished(log[q]) => Class[k] = "cache" \/ overlay[owner[q]][k] = q)
        BY <3>3, <2>3, <1>10 DEF OverlayInv
      <4>2. ~Finished(log[q]) => owner[q] # w
        BY <3>3, <1>15
      <4>3. QED BY <4>1, <4>2, <3>2, <2>3, <1>12
    <3>4. CASE q = p /\ k \in KeptKeys(lg.trace)
      <4>1. k \in DOMAIN all /\ (Class[k] = "cache" \/ all[k] = p)
        BY <3>4, <1>6, <1>5
      <4>2. all[k] = p => overlay'[w][k] = p
        BY <4>1, <1>12, <1>14
      <4>3. QED BY <4>1, <4>2, <3>1, <3>4 DEF w
    <3>5. CASE q = p /\ k \notin KeptKeys(lg.trace)
      <4>1. e.kept /\ k = k0
        BY <3>5, <2>3, <1>9, <1>10
      <4>2. QED BY <4>1, <3>5, <1>12, <1>14 DEF w
    <3>6. QED BY <3>3, <3>4, <3>5
  <2>4. QED BY <2>2, <2>3, <1>1, <1>2 DEF OverlayInv
<1>19. WorkerLogInv'
  <2>1. ASSUME NEW q \in Pos, NEW d \in log[q].deps
        PROVE  d \in 1..(q - 1) /\ owner[d] = owner[q] /\ owner[q] \in Worker
               /\ d # p /\ log'[d] = log[d]
    <3>1. d \in 1..(q - 1) /\ owner[d] = owner[q] /\ owner[q] \in Worker
      BY DEF WorkerLogInv
    <3>2. d \in Pos /\ d < q
      BY <3>1, EarlierPos
    <3>3. Finished(log[d])
      BY <3>1, <3>2 DEF DispatchInv
    <3>4. QED BY <3>1, <3>2, <3>3, <1>1, <1>10 DEF lg
  <2>2. ASSUME NEW q \in Pos, q # p
        PROVE  /\ WellFormed(log'[q], q, thin[q], snapshot)
               /\ HitsExplained(log[q], q)'
               /\ \A d \in log'[q].deps :
                    d \in 1..(q - 1) /\ owner[d] = owner[q] /\ owner[q] \in Worker
               /\ owner[q] \in Worker => /\ log'[q].loc \in GlobalFree
                                         /\ \A k \in KeptKeys(log'[q].trace) :
                                              Class[k] # "global"
    <3>1. log'[q] = log[q]
      BY <2>2, <1>10
    <3>2. HitsExplained(log[q], q)'
      BY <2>1, <3>1, <1>2 DEF WorkerLogInv, HitsExplained
    <3>3. QED BY <2>1, <3>1, <3>2 DEF WorkerLogInv, NoGlobals
  <2>3. ASSUME a0 \notin {Miss, p}, k0 \notin DOMAIN snapshot
        PROVE  /\ a0 \in new.deps /\ a0 \in 1..(p - 1) /\ a0 # p
               /\ owner[a0] = w /\ log'[a0] = log[a0]
               /\ k0 \in KeptKeys(log[a0].trace)
    <3>1. k0 \in DOMAIN ov /\ a0 = ov[k0]
      BY <1>11, <2>3
    <3>2. k0 \in DOMAIN all /\ a0 = all[k0] /\ Class[k0] = "cache"
      BY <3>1, <2>3, <1>5
    <3>3. a0 \in Pos /\ owner[a0] = w /\ k0 \in KeptKeys(log[a0].trace)
      BY <3>2, <1>1 DEF OverlayInv, all
    <3>4. a0 < p
      BY <3>3, <1>15, <2>3
    <3>5. a0 \in 1..(p - 1)
      BY <3>3, <3>4 DEF Pos
    <3>6. QED BY <3>2, <3>3, <3>4, <3>5, <2>3, <1>10, <1>13
  <2>4. ASSUME NEW i \in DOMAIN new.trace
        PROVE  LET a == new.trace[i].answer
                   k == KeyAt[new.trace[i].loc]
               IN  a \notin {Miss, p} =>
                     \/ k \in DOMAIN snapshot /\ a = snapshot[k]
                     \/ a \in new.deps /\ k \in KeptKeys(log'[a].trace)
    <3>1. CASE i \in DOMAIN lg.trace
      <4>1. new.trace[i] = lg.trace[i] /\ lg.deps \subseteq new.deps
        BY <3>1, <1>9, <1>13
      <4>2. HitsExplained(log[p], p)
        BY DEF WorkerLogInv
      <4>3. QED BY <3>1, <4>1, <4>2, <2>1 DEF HitsExplained, lg
    <3>2. CASE i = Len(lg.trace) + 1
      <4>1. new.trace[i].answer = a0 /\ KeyAt[new.trace[i].loc] = k0
        BY <3>2, <1>9, <1>7 DEF k0
      <4>2. QED BY <4>1, <2>3, <1>11
    <3>3. QED BY <3>1, <3>2, <1>9
  <2>5. ASSUME NEW d \in new.deps
        PROVE  d \in 1..(p - 1) /\ owner[d] = owner[p] /\ owner[p] \in Worker
    <3>1. CASE d \in log[p].deps
      BY <3>1, <2>1
    <3>2. CASE d \notin log[p].deps
      BY <3>2, <2>3, <2>5, <1>13, <1>1 DEF lg, w
    <3>3. QED BY <3>1, <3>2
  <2>6. HitsExplained(log[p], p)'
    BY <2>4, <1>10, <1>2 DEF HitsExplained
  <2>7. new.loc \in GlobalFree /\ \A k \in KeptKeys(new.trace) : Class[k] # "global"
    <3>1. lg.loc \in GlobalFree /\ \A k \in KeptKeys(lg.trace) : Class[k] # "global"
      BY <1>1 DEF WorkerLogInv, NoGlobals, lg, w
    <3>2. new.loc \in GlobalFree
      BY <3>1, <1>7, <1>13, GlobalFreeClosed
    <3>3. e.kept => Class[k0] # "global"
      BY <3>1, <1>7, GlobalFreeClosed DEF k0
    <3>4. QED BY <3>1, <3>2, <3>3, <1>9
  <2>8. ASSUME NEW q \in Pos
        PROVE  /\ WellFormed(log'[q], q, thin[q], snapshot)
               /\ HitsExplained(log[q], q)'
               /\ \A d \in log'[q].deps :
                    d \in 1..(q - 1) /\ owner[d] = owner[q] /\ owner[q] \in Worker
               /\ owner[q] \in Worker => /\ log'[q].loc \in GlobalFree
                                         /\ \A k \in KeptKeys(log'[q].trace) :
                                              Class[k] # "global"
    <3>1. CASE q = p
      BY <3>1, <2>5, <2>6, <2>7, <1>8, <1>10
    <3>2. CASE q # p
      BY <3>2, <2>2
    <3>3. QED BY <3>1, <3>2
  <2>9. QED BY <2>8, <1>1, <1>2 DEF WorkerLogInv, NoGlobals
<1>20. QED BY <1>1, <1>4, <1>16, <1>17, <1>18, <1>19, WalkUntouched

-----------------------------------------------------------------------------
(* The commit walk. *)

\* All insertions of a well formed log are published when its keys are new:
\* their buckets have room for all of them.
LEMMA AllPublishable ==
    ASSUME CapNotReached, rolling \in Caches, NEW lg \in Log, LogOK(lg),
           KeptKeys(lg.trace) \cap DOMAIN rolling = {}
    PROVE  {lg.inserts[i] : i \in Publishable(lg.inserts)} = KeptKeys(lg.trace)
<1> DEFINE ins == lg.inserts
           n   == Len(ins)
<1>1. ins \in Seq(Key) /\ n \in Nat /\ DOMAIN ins = 1..n /\ \A i \in 1..n : ins[i] \in Key
  BY DEF Log
<1>2. /\ \A j \in DOMAIN ins : ins[j] \in KeptKeys(lg.trace)
      /\ \A k \in KeptKeys(lg.trace) : \E j \in DOMAIN ins : ins[j] = k
      /\ \A i, j \in DOMAIN ins : ins[i] = ins[j] => i = j
  BY DEF LogOK
<1> HIDE DEF ins, n
<1>3. ASSUME NEW i \in DOMAIN ins
      PROVE  BucketLen(rolling, ins[i])
               + Cardinality({j \in 1..(i - 1) : Bucket[ins[j]] = Bucket[ins[i]]}) < Cap
  <2> DEFINE k == ins[i]
             J == {j \in 1..(i - 1) : Bucket[ins[j]] = Bucket[ins[i]]}
             X == DOMAIN rolling
             Y == {ins[j] : j \in J}
             B == Bucketmates(k)
             f == [j \in J |-> ins[j]]
  <2>1. /\ i \in Nat /\ J \subseteq DOMAIN ins /\ i \notin J
    BY <1>1
  <2>2. k \in Key /\ X \in SUBSET Key /\ Y \in SUBSET Key
    BY <2>1, <1>1, CachesElim
  <2>3. k \notin X /\ k \notin Y /\ X \cap Y = {}
    BY <2>1, <1>2
  <2>4. B \cap Y = Y
    <3>1. \A j \in J : ins[j] \in B
      BY <2>1, <1>1 DEF Bucketmates
    <3>2. QED BY <3>1
  <2>5. Cardinality(B \cap X) + Cardinality(B \cap Y) < Cap
    BY <2>2, <2>3, RoomForKey
  <2>6. IsFiniteSet(Y) /\ IsFiniteSet(B \cap X)
    <3>1. IsFiniteSet(Y)
      BY <2>2, FS_Subset, KeyAssumption
    <3>2. B \cap X \in SUBSET Key
      BY <2>2
    <3>3. IsFiniteSet(B \cap X)
      BY <3>2, FS_Subset, KeyAssumption
    <3>4. QED BY <3>1, <3>3
  <2>7. f \in Injection(J, Y)
    <3>1. f \in [J -> Y]
      OBVIOUS
    <3>2. \A x, y \in J : f[x] = f[y] => x = y
      BY <2>1, <1>2
    <3> HIDE DEF f, J, Y
    <3>3. QED BY <3>1, <3>2 DEF Injection, IsInjective
  <2>8. IsFiniteSet(J) /\ Cardinality(J) <= Cardinality(Y)
    <3> HIDE DEF f, J, Y
    <3>1. QED BY <2>6, <2>7, FS_Injection
  <2>9. Cardinality(J) \in Nat /\ Cardinality(Y) \in Nat /\ Cardinality(B \cap X) \in Nat
    BY <2>6, <2>8, FS_CardinalityType
  <2> HIDE DEF f, J, Y, X, B, k
  <2>10. Cardinality(B \cap X) + Cardinality(J) < Cap
    BY <2>4, <2>5, <2>8, <2>9, CapAssumption
  <2>11. QED BY <2>10 DEF BucketLen, B, X, J, k
<1>4. Publishable(ins) = DOMAIN ins
  BY <1>2, <1>3 DEF Publishable
<1>5. {ins[i] : i \in Publishable(ins)} = KeptKeys(lg.trace)
  BY <1>2, <1>4
<1>6. QED BY <1>5 DEF ins

\* The rolling state has nothing of the position at the frontier or later.
LEMMA RollingBelow ==
    ASSUME IInv, frontier \in Pos
    PROVE  /\ \A k \in DOMAIN rolling : rolling[k] \in Nat /\ rolling[k] < frontier
           /\ frontier \in Nat /\ frontier >= 1
           /\ DOMAIN Before(frontier) = DOMAIN rolling
           /\ Seen(frontier) \in Caches
           /\ \A k \in DOMAIN Seen(frontier) :
                k \in DOMAIN rolling /\ Seen(frontier)[k] = rolling[k]
           /\ frontier \in dirty => DOMAIN Seen(frontier) = DOMAIN rolling
           /\ frontier \notin dirty => DOMAIN Seen(frontier) =
                {k \in DOMAIN rolling : Class[k] = "global" => k \in DOMAIN snapshot}
<1>1. frontier \in Nat /\ frontier >= 1
  BY NAssumption DEF Pos
<1>2. ASSUME NEW k \in DOMAIN rolling PROVE rolling[k] \in Nat /\ rolling[k] < frontier
  <2>1. CASE k \in DOMAIN snapshot
    BY <2>1, <1>1 DEF IInv, RollingInv, BasePublisher
  <2>2. CASE k \notin DOMAIN snapshot
    BY <2>2, MissIsNoPublisher DEF IInv, RollingInv
  <2>3. QED BY <2>1, <2>2
<1>3. DOMAIN Before(frontier) = DOMAIN rolling
  BY <1>2 DEF Before
<1>4. DOMAIN Seen(frontier) = DOMAIN rolling \ (IF frontier \in dirty THEN {} ELSE AddedGlobals(frontier))
      /\ Seen(frontier) = [k \in DOMAIN Seen(frontier) |-> rolling[k]]
  BY <1>3 DEF Seen
<1>5. AddedGlobals(frontier) = {k \in DOMAIN rolling : Class[k] = "global" /\ k \notin DOMAIN snapshot}
  BY <1>3 DEF AddedGlobals
<1>6. Seen(frontier) \in Caches
  <2>1. DOMAIN rolling \in SUBSET Key /\ \A k \in DOMAIN rolling : rolling[k] \in Publisher
    BY CachesElim DEF IInv, TypeOK
  <2>2. DOMAIN Seen(frontier) \in SUBSET Key /\ DOMAIN Seen(frontier) \subseteq DOMAIN rolling
    BY <2>1, <1>4
  <2>3. Seen(frontier) \in [DOMAIN Seen(frontier) -> Publisher]
    BY <2>1, <2>2, <1>4
  <2>4. QED BY <2>2, <2>3 DEF Caches
<1>7. QED BY <1>1, <1>2, <1>3, <1>4, <1>5, <1>6

\* A position below the successor of another is below it or is it.
LEMMA BelowNext ==
    ASSUME NEW m \in Nat, Pos \subseteq Nat
    PROVE  \A p \in Pos : p < m + 1 <=> p < m \/ p = m
  OBVIOUS

\* Keeping an analysis preserves the invariant when it is what a serial
\* analysis observes and its insertions are new: this is what the checks of the
\* verdict, and a re-analysis on the rolling context, establish.
LEMMA KeepStep ==
    ASSUME CapNotReached, IInv, NEW lg \in Log,
           phase = "commit", phase' = phase, frontier \in Modules, LogOK(lg),
           KeptKeys(lg.trace) \cap DOMAIN rolling = {},
           IsSerialRun(lg.trace, frontier, Body(frontier), Seen(frontier)),
           frontier \in dirty \/ (lg.trace = log[frontier].trace /\ owner[frontier] \in Worker),
           ~final => \A k \in KeptKeys(lg.trace) : Class[k] # "global",
           Keep(lg), redo' = FALSE, dirty' = dirty, work' = work,
           UNCHANGED <<pass, workerVars>>
    PROVE  IInv'
<1> USE DEF IInv
<1> DEFINE new == KeptKeys(lg.trace)
<1>1. /\ UNCHANGED <<final, entry, thin, serialOnly, snapshot>>
      /\ UNCHANGED <<nextIndex, owner, overlay, log>>
      /\ Modules' = Modules /\ Modules \subseteq Pos /\ frontier \in Pos
  BY DEF pass, workerVars, Modules, IsModule
<1>2. /\ rolling' = [k \in DOMAIN rolling \cup new |->
                       IF k \in new THEN frontier ELSE rolling[k]]
      /\ published' = published \cup {Digest[k] : k \in {j \in new : Class[j] = "cache"}}
      /\ result' = [result EXCEPT ![frontier] = lg.trace]
      /\ frontier' = frontier + 1
  BY AllPublishable DEF Keep, TypeOK
<1>3. /\ rolling \in Caches /\ snapshot \in Caches
      /\ result \in [Pos -> Seq(Event)] /\ lg.trace \in Seq(Event)
      /\ new \subseteq Key /\ frontier \in Publisher /\ Pos \subseteq Nat
      /\ frontier \in Nat
  BY <1>1, MissIsNoPublisher DEF TypeOK, Log, KeptKeys, Publisher
<1>4. \A k \in DOMAIN rolling : k \notin new /\ rolling[k] \in Nat /\ rolling[k] < frontier
  BY <1>1, RollingBelow
<1>5. /\ DOMAIN rolling' = DOMAIN rolling \cup new
      /\ \A k \in new : rolling'[k] = frontier
      /\ \A k \in DOMAIN rolling : rolling'[k] = rolling[k]
  BY <1>2, <1>4
<1>6. /\ result'[frontier] = lg.trace
      /\ \A p \in Pos : p # frontier => result'[p] = result[p]
      /\ result' \in [Pos -> Seq(Event)]
  BY <1>1, <1>2, <1>3
<1>7. \A p \in Pos : p < frontier + 1 <=> p < frontier \/ p = frontier
  BY <1>3, BelowNext
<1> HIDE DEF new
<1>8. TypeOK'
  <2>1. DOMAIN rolling \subseteq Key /\ \A k \in DOMAIN rolling : rolling[k] \in Publisher
    BY <1>3, CachesElim
  <2>2. rolling' \in [DOMAIN rolling \cup new -> Publisher]
    BY <2>1, <1>2, <1>3
  <2>3. DOMAIN rolling \cup new \in SUBSET Key
    BY <2>1, <1>3
  <2>4. rolling' \in Caches
    BY <2>2, <2>3 DEF Caches
  <2>5. frontier' \in 1..(N + 1)
    BY <1>1, <1>2, NAssumption DEF Pos
  <2>6. QED BY <2>4, <2>5, <1>1, <1>6 DEF TypeOK
<1>9. PhaseInv' /\ RedoInv'
  BY <1>1 DEF PhaseInv, RedoInv
<1>10. RollingInv'
  <2>1. ASSUME NEW k \in DOMAIN snapshot
        PROVE  snapshot[k] = BasePublisher /\ k \in DOMAIN rolling' /\ rolling'[k] = BasePublisher
    BY <1>5 DEF RollingInv
  <2>2. ASSUME NEW k \in DOMAIN rolling' \ DOMAIN snapshot
        PROVE  /\ rolling'[k] \in Pos /\ rolling'[k] < frontier + 1
               /\ Class[k] = "cache" => Digest[k] \in published'
    <3>1. CASE k \in DOMAIN rolling
      <4>1. rolling[k] \in Pos /\ rolling[k] < frontier
            /\ (Class[k] = "cache" => Digest[k] \in published)
        BY <3>1, <2>2 DEF RollingInv
      <4>2. QED BY <4>1, <3>1, <1>2, <1>5, <1>7
    <3>2. CASE k \in new
      <4>1. rolling'[k] = frontier
        BY <3>2, <1>5
      <4>2. Class[k] = "cache" => Digest[k] \in published'
        BY <3>2, <1>2
      <4>3. QED BY <4>1, <4>2, <1>1, <1>7
    <3>3. QED BY <3>1, <3>2, <2>2, <1>5
  <2>3. QED BY <2>1, <2>2, <1>1, <1>2 DEF RollingInv
<1>11. ASSUME NEW p \in Pos, p < frontier + 1
       PROVE  {k \in DOMAIN rolling' : rolling'[k] = p} = KeptKeys(result'[p])
  <2>1. CASE p = frontier
    <3>1. {k \in DOMAIN rolling' : rolling'[k] = frontier} = new
      BY <1>3, <1>4, <1>5
    <3>2. QED BY <3>1, <2>1, <1>6 DEF new
  <2>2. CASE p < frontier
    <3>1. p # frontier
      BY <2>2, <1>3
    <3>2. {k \in DOMAIN rolling : rolling[k] = p} = KeptKeys(result[p])
      BY <2>2 DEF CommittedInv
    <3>3. {k \in DOMAIN rolling' : rolling'[k] = p} = {k \in DOMAIN rolling : rolling[k] = p}
      BY <3>1, <1>5
    <3>4. QED BY <3>1, <3>2, <3>3, <1>6
  <2>3. QED BY <2>1, <2>2, <1>7, <1>11
<1>12. CommittedInv'
  <2>1. ASSUME NEW p \in Modules, p < frontier + 1, p \notin dirty
        PROVE  result'[p] = log[p].trace /\ owner[p] \in Worker
    <3>1. CASE p = frontier
      BY <3>1, <2>1, <1>6
    <3>2. CASE p # frontier
      BY <3>2, <2>1, <1>1, <1>6, <1>7 DEF CommittedInv
    <3>3. QED BY <3>1, <3>2
  <2>2. ASSUME NEW p \in Pos, ~(p \in Modules /\ p < frontier + 1) PROVE result'[p] = <<>>
    <3>1. p # frontier /\ ~(p \in Modules /\ p < frontier)
      BY <2>2, <1>7
    <3>2. QED BY <3>1, <1>6 DEF CommittedInv
  <2>3. ASSUME NEW p \in dirty PROVE p < frontier + 1
    <3>1. p \in Pos /\ (p < frontier \/ p = frontier)
      BY DEF CommittedInv, TypeOK
    <3>2. QED BY <3>1, <1>7
  <2>4. QED BY <2>1, <2>2, <2>3, <1>1, <1>2, <1>11 DEF CommittedInv
<1>13. RunsInv'
  <2>1. ASSUME NEW p \in Pos, p < frontier + 1
        PROVE  Seen(p)' = Seen(p)
    <3>1. p \in Nat /\ p <= frontier
      BY <2>1, <1>3
    <3>2. {j \in DOMAIN rolling' : rolling'[j] < p} = {j \in DOMAIN rolling : rolling[j] < p}
      BY <3>1, <1>3, <1>5
    <3>3. Before(p)' = [k \in {j \in DOMAIN rolling' : rolling'[j] < p} |-> rolling'[k]]
      BY DEF Before
    <3>4. DOMAIN Before(p)' = DOMAIN Before(p) /\ DOMAIN Before(p) \subseteq DOMAIN rolling
      BY <3>2, <3>3 DEF Before
    <3>5. AddedGlobals(p)' = AddedGlobals(p)
      BY <3>4, <1>1 DEF AddedGlobals
    <3>6. Seen(p)' = [k \in DOMAIN Before(p) \ (IF p \in dirty THEN {} ELSE AddedGlobals(p))
                        |-> rolling'[k]]
      BY <3>4, <3>5 DEF Seen
    <3>7. QED BY <3>4, <3>6, <1>5 DEF Seen
  <2>2. ASSUME NEW p \in Modules, p < frontier + 1
        PROVE  IsSerialRun(result'[p], p, Body(p), Seen(p)')
    <3>1. CASE p = frontier
      <4>1. Seen(p)' = Seen(p)
        BY <2>1, <2>2, <1>1
      <4>2. Seen(p) = Seen(frontier) /\ result'[p] = lg.trace
        BY <3>1, <1>6
      <4>3. QED BY <4>1, <4>2, <3>1
    <3>2. CASE p < frontier
      <4>1. Seen(p)' = Seen(p) /\ result'[p] = result[p]
        <5>1. p \in Pos /\ p # frontier
          BY <3>2, <1>1, <1>3
        <5>2. QED BY <5>1, <2>1, <2>2, <1>6
      <4>2. IsSerialRun(result[p], p, Body(p), Seen(p))
        BY <3>2 DEF RunsInv
      <4>3. QED BY <4>1, <4>2
    <3>3. QED BY <3>1, <3>2, <2>2, <1>1, <1>7
  <2>3. \A p \in Modules : Body(p)' = Body(p)
    BY <1>1 DEF Body
  <2>4. QED BY <2>2, <2>3, <1>1, <1>2 DEF RunsInv
<1>14. PreliminaryInv'
  BY <1>1, <1>5 DEF PreliminaryInv, new
<1>15. QED BY <1>8, <1>9, <1>10, <1>12, <1>13, <1>14, WorkersUntouched

\* Accepting an attempt preserves the invariant: the checks of the verdict
\* make the attempt a serial run.
LEMMA CommitCleanStep ==
    ASSUME CapNotReached, IInv, CommitClean
    PROVE  IInv'
<1> USE DEF IInv
<1> DEFINE lg == log[frontier]
           s  == Seen(frontier)
<1>1. /\ phase = "commit" /\ frontier \in Pos /\ ~redo
      /\ owner[frontier] # NoWorker
      /\ CleanVerdict(lg) /\ Keep(lg)
      /\ UNCHANGED <<pass, workerVars>> /\ UNCHANGED <<phase, dirty, redo, work>>
  BY DEF CommitClean, AtFrontier
<1>2. owner[frontier] \in Worker /\ frontier \in Modules /\ lg \in Log /\ thin[frontier] \in Loc
      /\ snapshot \in Caches /\ rolling \in Caches
  BY <1>1 DEF TypeOK, DispatchInv
<1>3. /\ WellFormed(lg, frontier, thin[frontier], snapshot)
      /\ HitsExplained(lg, frontier)
      /\ \A q \in lg.deps : q \in 1..(frontier - 1) /\ owner[q] \in Worker
      /\ \A k \in KeptKeys(lg.trace) : Class[k] # "global"
      /\ Finished(lg)
  BY <1>1, <1>2 DEF WorkerLogInv, NoGlobals, PhaseInv
<1>4. /\ lg.misses \cap published = {} /\ lg.deps \cap dirty = {}
      /\ \A k \in KeptKeys(lg.trace) : Class[k] = "utility" => k \notin DOMAIN rolling
  BY <1>1 DEF CleanVerdict, UtilityConflict
<1>5. frontier \notin dirty
  BY <1>1, MissIsNoPublisher DEF CommittedInv
<1>6. /\ s \in Caches
      /\ \A k \in DOMAIN s : k \in DOMAIN rolling /\ s[k] = rolling[k]
      /\ DOMAIN s = {k \in DOMAIN rolling : Class[k] = "global" => k \in DOMAIN snapshot}
  BY <1>1, <1>5, RollingBelow
<1>7. lg.trace \in Seq(Event) /\ \A i \in DOMAIN lg.trace :
        lg.trace[i].loc \in Loc /\ KeyAt[lg.trace[i].loc] \in Key
        /\ Class[KeyAt[lg.trace[i].loc]] \in {"cache", "utility", "global"}
  <2>1. lg.trace \in Seq(Event)
    BY <1>2 DEF Log
  <2>2. \A i \in DOMAIN lg.trace : lg.trace[i] \in Event
    BY <2>1
  <2>3. QED BY <2>1, <2>2, ProgramAssumption, AnalysisAssumption DEF Event
<1>8. TraceOK(lg.trace, frontier, thin[frontier], snapshot) /\ LogOK(lg)
  BY <1>3 DEF WellFormed
<1> HIDE DEF lg, s
<1>9. ASSUME NEW i \in DOMAIN lg.trace, lg.trace[i].answer = Miss
      PROVE  KeyAt[lg.trace[i].loc] \notin DOMAIN s
  <2> DEFINE k == KeyAt[lg.trace[i].loc]
             l == lg.trace[i].loc
  <2>1. k \notin DOMAIN snapshot /\ Kind[l] # "done"
        /\ (lg.trace[i].kept <=> Kind[l] = "intern")
    BY <1>8, <1>9 DEF TraceOK
  <2>2. CASE Class[k] = "cache"
    <3>1. Digest[k] \in lg.misses
      BY <2>2, <1>8, <1>9 DEF LogOK
    <3>2. k \in DOMAIN rolling => Digest[k] \in published
      BY <2>1, <2>2 DEF RollingInv
    <3>3. QED BY <3>1, <3>2, <1>4, <1>6
  <2>3. CASE Class[k] = "utility"
    <3>1. Kind[l] = "intern"
      BY <2>1, <2>3, <1>7, UsesAssumption, ProgramAssumption
    <3>2. k \in KeptKeys(lg.trace)
      BY <3>1, <2>1, <1>7 DEF KeptKeys, Kept
    <3>3. QED BY <3>2, <2>3, <1>4, <1>6
  <2>4. CASE Class[k] = "global"
    BY <2>1, <2>4, <1>6
  <2>5. QED BY <2>2, <2>3, <2>4, <1>7
<1>10. ASSUME NEW i \in DOMAIN lg.trace, lg.trace[i].answer \notin {Miss, frontier}
       PROVE  LET a == lg.trace[i].answer
                  k == KeyAt[lg.trace[i].loc]
              IN  k \in DOMAIN s /\ s[k] = a
  <2> DEFINE a == lg.trace[i].answer
             k == KeyAt[lg.trace[i].loc]
  <2>1. CASE k \in DOMAIN snapshot /\ a = snapshot[k]
    <3>1. k \in DOMAIN rolling /\ rolling[k] = a
      BY <2>1 DEF RollingInv
    <3>2. QED BY <2>1, <3>1, <1>6
  <2>2. CASE a \in lg.deps /\ k \in KeptKeys(log[a].trace)
    <3>1. a \in Pos /\ a < frontier /\ a \notin dirty /\ owner[a] \in Worker
      BY <2>2, <1>1, <1>3, <1>4, EarlierPos
    <3>2. a \in Modules
      BY <3>1 DEF DispatchInv
    <3>3. result[a] = log[a].trace
      BY <3>1, <3>2 DEF CommittedInv
    <3>4. k \in {j \in DOMAIN rolling : rolling[j] = a}
      BY <3>1, <3>3, <2>2 DEF CommittedInv
    <3>5. Class[k] # "global"
      BY <3>1, <2>2 DEF WorkerLogInv, NoGlobals
    <3>6. QED BY <3>4, <3>5, <1>6
  <2>3. QED BY <2>1, <2>2, <1>3, <1>10 DEF HitsExplained
<1>11. IsSerialRun(lg.trace, frontier, thin[frontier], s)
  <2>1. MissesOutside(lg.trace, s) /\ HitsIn(lg.trace, frontier, s)
    BY <1>9, <1>10 DEF MissesOutside, HitsIn
  <2>2. QED BY <2>1, <1>1, <1>2, <1>3, <1>6, ValidLogIsSerialRun
<1>12. ASSUME NEW k \in KeptKeys(lg.trace) PROVE k \notin DOMAIN rolling
  <2>1. PICK i \in DOMAIN lg.trace : Kept(lg.trace, i, k)
    BY DEF KeptKeys
  <2>2. lg.trace[i].answer = Miss /\ KeyAt[lg.trace[i].loc] = k
    BY <2>1, <1>8 DEF Kept, TraceOK
  <2>3. k \notin DOMAIN s
    BY <2>2, <1>9
  <2>4. QED BY <2>3, <1>3, <1>6
<1>13. KeptKeys(lg.trace) \cap DOMAIN rolling = {}
  BY <1>12
<1>14. redo' = FALSE /\ phase' = phase /\ dirty' = dirty /\ work' = work
  BY <1>1 DEF TypeOK
<1>15. IsSerialRun(lg.trace, frontier, Body(frontier), Seen(frontier))
       /\ lg.trace = log[frontier].trace
  BY <1>5, <1>11 DEF s, lg, Body
<1>16. QED BY <1>1, <1>2, <1>3, <1>8, <1>13, <1>14, <1>15, KeepStep

\* Passing over a file that is not a module preserves the invariant.
LEMMA SkipFileStep ==
    ASSUME IInv, SkipFile
    PROVE  IInv'
<1> USE DEF IInv
<1>1. /\ phase = "commit" /\ frontier \in Pos /\ ~redo /\ frontier \notin Modules
      /\ frontier' = frontier + 1
      /\ UNCHANGED <<pass, workerVars>>
      /\ UNCHANGED <<phase, rolling, published, dirty, redo, work, result>>
  BY DEF SkipFile, AtFrontier, Modules
<1>2. /\ UNCHANGED <<final, entry, thin, serialOnly, snapshot>>
      /\ UNCHANGED <<nextIndex, owner, overlay, log>>
      /\ Modules' = Modules /\ Modules \subseteq Pos
  BY <1>1 DEF pass, workerVars, Modules, IsModule
<1>3. frontier \in Nat /\ Pos \subseteq Nat
      /\ \A p \in Pos : p < frontier + 1 <=> p < frontier \/ p = frontier
  BY <1>1, MissIsNoPublisher
<1>4. TypeOK'
  <2>1. frontier' \in 1..(N + 1)
    BY <1>1, NAssumption DEF Pos
  <2>2. QED BY <2>1, <1>1, <1>2 DEF TypeOK
<1>5. PhaseInv' /\ RedoInv'
  BY <1>1, <1>2 DEF PhaseInv, RedoInv
<1>6. RollingInv'
  BY <1>1, <1>2, <1>3 DEF RollingInv
<1>7. CommittedInv'
  <2>1. result[frontier] = <<>>
    BY <1>1 DEF CommittedInv
  <2>2. KeptKeys(<<>>) = {}
    BY DEF KeptKeys
  <2>3. {k \in DOMAIN rolling : rolling[k] = frontier} = {}
    BY <1>1, RollingBelow
  <2>4. \A p \in Pos : p < frontier + 1 =>
          {k \in DOMAIN rolling : rolling[k] = p} = KeptKeys(result[p])
    BY <2>1, <2>2, <2>3, <1>3 DEF CommittedInv
  <2>5. \A p \in dirty : p < frontier + 1
    BY <1>1, <1>3 DEF CommittedInv, TypeOK
  <2>6. \A p \in Modules : p < frontier + 1 => p < frontier
    BY <1>1, <1>2, <1>3
  <2>7. \A p \in Pos : ~(p \in Modules /\ p < frontier + 1) => result[p] = <<>>
    BY <1>3 DEF CommittedInv
  <2>8. \A p \in Modules : p < frontier + 1 /\ p \notin dirty =>
            result[p] = log[p].trace /\ owner[p] \in Worker
    BY <2>6 DEF CommittedInv
  <2>9. QED BY <2>4, <2>5, <2>7, <2>8, <1>1, <1>2 DEF CommittedInv
<1>8. RunsInv' /\ PreliminaryInv'
  <2>1. \A p \in Modules : p < frontier + 1 => p < frontier
    BY <1>1, <1>2, <1>3
  <2>2. \A p \in Modules : Seen(p)' = Seen(p) /\ Body(p)' = Body(p)
    BY <1>1, <1>2 DEF Seen, AddedGlobals, Before, Body
  <2>3. RunsInv'
    BY <2>1, <2>2, <1>1, <1>2 DEF RunsInv
  <2>4. PreliminaryInv'
    BY <1>1, <1>2 DEF PreliminaryInv
  <2>5. QED BY <2>3, <2>4
<1>9. QED BY <1>1, <1>4, <1>5, <1>6, <1>7, <1>8, WorkersUntouched

\* Starting a re-analysis preserves the invariant.
LEMMA StartReanalysisStep ==
    ASSUME IInv, StartReanalysis
    PROVE  IInv'
<1> USE DEF IInv
<1>1. /\ phase = "commit" /\ frontier \in Pos /\ ~redo /\ frontier \in Modules
      /\ dirty' = dirty \cup {frontier} /\ redo' = TRUE
      /\ work' = FreshLog(entry[frontier])
      /\ UNCHANGED <<pass, workerVars>>
      /\ UNCHANGED <<phase, rolling, published, frontier, result>>
  BY DEF StartReanalysis, AtFrontier, Modules
<1>2. /\ UNCHANGED <<final, entry, thin, serialOnly, snapshot>>
      /\ UNCHANGED <<nextIndex, owner, overlay, log>>
      /\ Modules' = Modules /\ Modules \subseteq Pos
  BY <1>1 DEF pass, workerVars, Modules, IsModule
<1>3. frontier \in Nat /\ Pos \subseteq Nat
  BY <1>1, MissIsNoPublisher
<1>4. /\ FreshLog(entry[frontier]) \in Log
      /\ WellFormed(FreshLog(entry[frontier]), frontier, entry[frontier], rolling)
      /\ FreshLog(entry[frontier]).trace = <<>>
      /\ FreshLog(entry[frontier]).loc = entry[frontier]
      /\ KeptKeys(FreshLog(entry[frontier]).trace) = {}
  BY <1>1, FreshLogOK DEF TypeOK
<1>5. TypeOK' /\ PhaseInv' /\ RollingInv'
  BY <1>1, <1>2, <1>4 DEF TypeOK, PhaseInv, RollingInv
<1>6. RedoInv'
  <2>1. WellFormed(work', frontier, entry[frontier], rolling) /\ HitsIn(work'.trace, frontier, rolling)
    BY <1>1, <1>4 DEF HitsIn
  <2>2. QED BY <2>1, <1>1, <1>2 DEF RedoInv
<1>7. CommittedInv'
  BY <1>1, <1>2, <1>3 DEF CommittedInv
<1>8. RunsInv' /\ PreliminaryInv'
  <2>1. \A p \in Modules : p < frontier => (p \in dirty' <=> p \in dirty)
    BY <1>1, <1>2, <1>3
  <2>2. \A p \in Modules : p < frontier => Seen(p)' = Seen(p) /\ Body(p)' = Body(p)
    BY <2>1, <1>1, <1>2 DEF Seen, AddedGlobals, Before, Body
  <2>3. RunsInv'
    BY <2>2, <1>1, <1>2 DEF RunsInv
  <2>4. ~final => entry[frontier] \in GlobalFree
    BY <1>1 DEF PassInv
  <2>5. PreliminaryInv'
    BY <2>4, <1>1, <1>2, <1>4 DEF PreliminaryInv
  <2>6. QED BY <2>3, <2>5
<1>9. QED BY <1>1, <1>5, <1>6, <1>7, <1>8, WorkersUntouched

\* The keys that a re-analysis has kept are not in the rolling state.
LEMMA WorkIsNew ==
    ASSUME IInv, redo
    PROVE  KeptKeys(work.trace) \cap DOMAIN rolling = {}
<1>1. TraceOK(work.trace, frontier, entry[frontier], rolling)
  BY DEF IInv, RedoInv, WellFormed
<1>2. QED BY <1>1 DEF KeptKeys, Kept, TraceOK

\* One operation of a re-analysis preserves the invariant.
LEMMA ReanalysisStepOK ==
    ASSUME CapNotReached, IInv, ReanalysisStep
    PROVE  IInv'
<1> USE DEF IInv
<1> DEFINE ov  == [k \in KeptKeys(work.trace) |-> frontier]
           new == Performed(rolling, ov, frontier, work)
           e   == NextEvent(rolling, ov, work)
           k0  == KeyAt[work.loc]
<1>1. /\ redo /\ ~Finished(work) /\ work' = new
      /\ UNCHANGED <<pass, workerVars>>
      /\ UNCHANGED <<phase, rolling, published, dirty, frontier, redo, result>>
  BY DEF ReanalysisStep, Reanalyze
<1>2. /\ UNCHANGED <<final, entry, thin, serialOnly, snapshot>>
      /\ UNCHANGED <<nextIndex, owner, overlay, log>>
      /\ Modules' = Modules /\ Modules \subseteq Pos
  BY <1>1 DEF pass, workerVars, Modules, IsModule
<1>3. /\ frontier \in Modules /\ frontier \in dirty /\ frontier \in Pos
      /\ WellFormed(work, frontier, entry[frontier], rolling)
      /\ HitsIn(work.trace, frontier, rolling)
      /\ rolling \in Caches /\ work \in Log /\ entry[frontier] \in Loc
  BY <1>1, <1>2 DEF RedoInv, TypeOK
<1>4. ov \in Caches /\ DOMAIN ov = KeptKeys(work.trace) /\ \A k \in DOMAIN ov : ov[k] = frontier
  <2>1. KeptKeys(work.trace) \in SUBSET Key /\ frontier \in Publisher
    BY <1>3 DEF KeptKeys, Publisher
  <2>2. ov \in [KeptKeys(work.trace) -> Publisher]
    BY <2>1
  <2>3. QED BY <2>1, <2>2 DEF Caches
<1>5. DOMAIN rolling \cap DOMAIN ov = {}
  BY <1>1, <1>4, WorkIsNew
<1>6. \A k \in DOMAIN rolling : rolling[k] # frontier
  BY <1>3, RollingBelow
<1>7. new \in Log /\ e \in Event /\ new.trace = Append(work.trace, e)
  BY <1>3, <1>4, <1>5, PerformedType
<1>8. WellFormed(new, frontier, entry[frontier], rolling)
  BY <1>1, <1>3, <1>4, <1>5, <1>6, PerformedWellFormed
<1>9. /\ DOMAIN work.trace = 1..Len(work.trace) /\ Len(work.trace) \in Nat
      /\ DOMAIN new.trace = 1..(Len(work.trace) + 1)
      /\ \A i \in 1..Len(work.trace) : new.trace[i] = work.trace[i]
      /\ new.trace[Len(work.trace) + 1] = e
  <2>1. work.trace \in Seq(Event)
    BY <1>3 DEF Log
  <2>2. QED BY <2>1, <1>7, KeptAppend
<1>10. /\ e.answer = IF k0 \in DOMAIN rolling THEN rolling[k0]
                     ELSE IF k0 \in DOMAIN ov THEN ov[k0] ELSE Miss
       /\ KeyAt[e.loc] = k0
  BY DEF NextEvent, AnswerOf
<1>11. e.answer \notin {Miss, frontier} => k0 \in DOMAIN rolling /\ rolling[k0] = e.answer
  BY <1>4, <1>10
<1> HIDE DEF ov, new, e, k0
<1>12. HitsIn(new.trace, frontier, rolling)
  <2>1. \A i \in DOMAIN new.trace : i \in DOMAIN work.trace \/ i = Len(work.trace) + 1
    BY <1>9
  <2>2. QED BY <2>1, <1>3, <1>9, <1>10, <1>11 DEF HitsIn
<1>13. TypeOK' /\ PhaseInv' /\ RollingInv'
  BY <1>1, <1>2, <1>7 DEF TypeOK, PhaseInv, RollingInv
<1>14. RedoInv'
  BY <1>1, <1>2, <1>3, <1>8, <1>12 DEF RedoInv
<1>15. CommittedInv'
  BY <1>1, <1>2 DEF CommittedInv
<1>16. RunsInv'
  <2>1. \A p \in Modules : Seen(p)' = Seen(p) /\ Body(p)' = Body(p)
    BY <1>1, <1>2 DEF Seen, AddedGlobals, Before, Body
  <2>2. QED BY <2>1, <1>1, <1>2 DEF RunsInv
<1>17. PreliminaryInv'
  <2>1. ASSUME ~final
        PROVE  /\ work'.loc \in GlobalFree
               /\ \A k \in KeptKeys(work'.trace) : Class[k] # "global"
    <3>1. work.loc \in GlobalFree /\ \A k \in KeptKeys(work.trace) : Class[k] # "global"
      BY <2>1, <1>1 DEF PreliminaryInv
    <3>2. e.answer \in Answer /\ new.loc = Goto[work.loc][e.answer]
      BY <1>7 DEF new, e, NextEvent, Performed, Event, k0
    <3>3. new.loc \in GlobalFree
      BY <3>1, <3>2, GlobalFreeClosed
    <3>4. e.kept => Class[k0] # "global"
      <4>1. e.kept => Kind[work.loc] = "intern"
        BY DEF e, NextEvent, Keeps
      <4>2. QED BY <4>1, <3>1, GlobalFreeClosed DEF k0
    <3>5. KeptKeys(new.trace) = KeptKeys(work.trace) \cup {k \in Key : e.kept /\ KeyAt[e.loc] = k}
      <4>1. work.trace \in Seq(Event)
        BY <1>3 DEF Log
      <4>2. QED BY <4>1, <1>7, KeptAppend
    <3>6. QED BY <3>1, <3>3, <3>4, <3>5, <1>1, <1>10
  <2>2. QED BY <2>1, <1>1, <1>2 DEF PreliminaryInv
<1>18. QED BY <1>1, <1>13, <1>14, <1>15, <1>16, <1>17, WorkersUntouched

\* Publishing a re-analysis preserves the invariant.
LEMMA ReanalysisDoneStep ==
    ASSUME CapNotReached, IInv, ReanalysisDone
    PROVE  IInv'
<1>1. /\ redo /\ Finished(work) /\ Keep(work) /\ redo' = FALSE
      /\ UNCHANGED <<pass, workerVars>> /\ phase' = phase /\ dirty' = dirty /\ work' = work
  BY DEF ReanalysisDone
<1>2. /\ frontier \in Modules /\ frontier \in dirty /\ frontier \in Pos
      /\ WellFormed(work, frontier, entry[frontier], rolling)
      /\ HitsIn(work.trace, frontier, rolling)
      /\ rolling \in Caches /\ work \in Log /\ entry[frontier] \in Loc
      /\ phase = "commit"
  BY <1>1 DEF IInv, RedoInv, TypeOK, Modules, PhaseInv
<1>3. LogOK(work) /\ TraceOK(work.trace, frontier, entry[frontier], rolling)
  BY <1>2 DEF WellFormed
<1>4. /\ Seen(frontier) \in Caches
      /\ DOMAIN Seen(frontier) = DOMAIN rolling
      /\ \A k \in DOMAIN rolling : Seen(frontier)[k] = rolling[k]
  BY <1>2, RollingBelow
<1>5. MissesOutside(work.trace, Seen(frontier)) /\ HitsIn(work.trace, frontier, Seen(frontier))
  BY <1>2, <1>3, <1>4 DEF MissesOutside, HitsIn, TraceOK
<1>6. IsSerialRun(work.trace, frontier, entry[frontier], Seen(frontier))
  BY <1>1, <1>2, <1>4, <1>5, ValidLogIsSerialRun
<1>7. KeptKeys(work.trace) \cap DOMAIN rolling = {}
  BY <1>1, WorkIsNew
<1>8. IsSerialRun(work.trace, frontier, Body(frontier), Seen(frontier))
  BY <1>2, <1>6 DEF Body
<1>9. ~final => \A k \in KeptKeys(work.trace) : Class[k] # "global"
  BY <1>1 DEF IInv, PreliminaryInv
<1>10. QED BY <1>1, <1>2, <1>3, <1>7, <1>8, <1>9, KeepStep

-----------------------------------------------------------------------------
\* Every step of the pass preserves the inductive invariant.
LEMMA NextIInv ==
    ASSUME CapNotReached, IInv, [Next]_vars
    PROVE  IInv'
<1>1. CASE UNCHANGED vars
  <2>1. UNCHANGED <<pass, workerVars>> /\ UNCHANGED <<phase, walkVars>>
    BY <1>1 DEF vars
  <2>2. /\ UNCHANGED <<final, entry, thin, serialOnly, snapshot>>
        /\ UNCHANGED <<nextIndex, owner, overlay, log>>
        /\ UNCHANGED <<rolling, published, dirty, frontier, redo, work, memo, result>>
        /\ phase' = phase
        /\ Modules' = Modules
    BY <2>1 DEF pass, workerVars, walkVars, Modules, IsModule
  <2>3. TypeOK' /\ PhaseInv' /\ RollingInv' /\ RedoInv'
    BY <2>2 DEF IInv, TypeOK, PhaseInv, RollingInv, RedoInv
  <2>4. CommittedInv'
    BY <2>2 DEF IInv, CommittedInv
  <2>5. \A p \in Modules : Seen(p)' = Seen(p) /\ Body(p)' = Body(p)
    BY <2>2 DEF Seen, AddedGlobals, Before, Body
  <2>6. RunsInv' /\ PreliminaryInv'
    BY <2>2, <2>5 DEF IInv, RunsInv, PreliminaryInv
  <2>7. QED BY <2>1, <2>3, <2>4, <2>6, WorkersUntouched DEF IInv
<1>2. CASE \E w \in Worker : Dispatch(w)
  BY <1>2, DispatchStep
<1>3. CASE \E p \in Pos : WorkerStep(p)
  BY <1>3, WorkerStepOK
<1>4. CASE Join
  BY <1>4, JoinStep
<1>5. CASE SkipFile \/ CommitClean
  BY <1>5, SkipFileStep, CommitCleanStep
<1>6. CASE StartReanalysis \/ ReanalysisStep \/ ReanalysisDone
  BY <1>6, StartReanalysisStep, ReanalysisStepOK, ReanalysisDoneStep
<1>7. CASE Terminated
  BY <1>7, <1>1 DEF Terminated
<1>8. QED
  BY <1>1, <1>2, <1>3, <1>4, <1>5, <1>6, <1>7 DEF Next, Walk

\* The inductive invariant holds in every behaviour.
LEMMA InductiveInvariant ==
    ASSUME CapNotReached
    PROVE  Spec => []IInv
<1>1. IInv /\ [Next]_vars => IInv'
  BY NextIInv
<1>2. QED BY <1>1, InitIInv, PTL DEF Spec

\* The parallel preliminary pass is the serial one
\* (collect_module_analyses_with_bindings_parallel): whatever the number of
\* modules and workers, the program and the digest function, every analysis that
\* the walk kept observed what a serial analysis of the module after all its
\* predecessors would have.  So did, in the final pass, every re-analysis and
\* every module with a declare global block.  And the pass published what the
\* kept analyses inserted.
THEOREM AnalysisSerialEquivalent ==
    ASSUME CapNotReached
    PROVE  Spec => []SerialEquivalence
<1>1. ASSUME IInv PROVE SerialEquivalence
  <2>1. ASSUME NEW p \in Modules, p < frontier, SameBody(p)
        PROVE  IsSerialRun(result[p], p, entry[p], Before(p))
    <3>1. p \in Pos /\ IsSerialRun(result[p], p, Body(p), Seen(p))
      BY <1>1, <2>1 DEF IInv, RunsInv, Modules
    <3>2. CASE p \in dirty
      <4>1. Body(p) = entry[p] /\ Seen(p) = Before(p)
        BY <3>2 DEF Body, Seen, Before
      <4>2. QED BY <3>1, <4>1
    <3>3. CASE p \notin dirty
      <4>1. p \notin serialOnly
        BY <3>3, <1>1, <2>1 DEF IInv, CommittedInv, DispatchInv, Modules
      <4>2. ~final
        BY <4>1, <3>3, <1>1, <2>1 DEF IInv, PassInv, SameBody
      <4>3. Body(p) = entry[p]
        BY <4>2, <3>1, <3>3, <1>1 DEF IInv, PassInv, Body
      <4>4. AddedGlobals(p) = {}
        BY <4>2, <1>1 DEF IInv, PreliminaryInv, AddedGlobals, Before
      <4>5. Seen(p) = Before(p)
        BY <4>4 DEF Seen, Before
      <4>6. QED BY <3>1, <4>3, <4>5
    <3>4. QED BY <3>2, <3>3
  <2>2. \A p \in Modules : p < frontier =>
          {k \in DOMAIN rolling : rolling[k] = p} = KeptKeys(result[p])
    BY <1>1 DEF IInv, CommittedInv, Modules
  <2>3. QED BY <2>1, <2>2 DEF SerialEquivalence
<1>2. QED BY <1>1, InductiveInvariant, PTL

\* push_utility_diagnostic_once emits once, across all workers: a utility
\* diagnostic is emitted by at most one module of the pass, and by none when it
\* was emitted before.
THEOREM UtilityEmittedOnce ==
    ASSUME CapNotReached
    PROVE  Spec => []EmittedOnce
<1>1. ASSUME IInv PROVE EmittedOnce
  <2>1. ASSUME NEW p \in Pos, NEW k \in Emitted(p), p < frontier
        PROVE  k \in DOMAIN rolling /\ rolling[k] = p
    BY <2>1, <1>1 DEF IInv, CommittedInv, Emitted
  <2>2. ASSUME NEW p \in Pos, NEW k \in Emitted(p), p < frontier
        PROVE  k \notin DOMAIN snapshot
    <3>1. p # BasePublisher
      BY NAssumption DEF Pos, BasePublisher
    <3>2. QED BY <3>1, <2>1, <2>2, <1>1 DEF IInv, RollingInv
  <2>3. QED BY <2>1, <2>2 DEF EmittedOnce
<1>2. QED BY <1>1, InductiveInvariant, PTL

-----------------------------------------------------------------------------
(* The memo of the rolling context. *)

\* Every step of the pass preserves the invariant about the memo.
LEMMA NextMemo ==
    ASSUME frontier \in Nat, MemoInv, [Next]_vars
    PROVE  frontier' \in Nat /\ MemoInv'
<1> DEFINE Last(p) == \A q \in Modules : q <= p
<1>1. /\ entry' = entry /\ Modules' = Modules
      /\ Modules \subseteq Nat
  <2>1. pass' = pass
    BY DEF Next, vars, Walk, Dispatch, WorkerStep, Join, SkipFile, CommitClean,
           StartReanalysis, ReanalysisStep, ReanalysisDone, Terminated
  <2>2. entry' = entry
    BY <2>1 DEF pass
  <2>3. QED BY <2>2, MissIsNoPublisher DEF Modules, IsModule
<1>2. \A p \in Modules : p < frontier + 1 <=> p < frontier \/ p = frontier
  BY <1>1
<1>3. \A p, q \in Modules : Last(p) /\ Last(q) => p = q
  BY <1>1
<1>4. CASE UNCHANGED <<frontier, redo, memo>>
  BY <1>1, <1>4 DEF MemoInv
<1>5. CASE SkipFile
  <2>1. /\ frontier' = frontier + 1 /\ redo' = redo /\ memo' = memo /\ ~redo
        /\ frontier \notin Modules
    BY <1>5 DEF SkipFile, AtFrontier, Modules
  <2>2. \A p \in Modules : p < frontier + 1 => p < frontier
    BY <2>1, <1>2
  <2>3. QED BY <2>1, <2>2, <1>1 DEF MemoInv
<1>6. CASE CommitClean
  <2>1. /\ frontier' = frontier + 1 /\ redo' = redo /\ ~redo
        /\ memo' = IF frontier = LastModule THEN frontier ELSE memo
    BY <1>6 DEF CommitClean, AtFrontier, Keep
  <2>2. ASSUME NEW p \in Modules, Last(p), p < frontier + 1
        PROVE  memo' = p
    <3>1. LastModule = p
      <4>1. LastModule \in Modules /\ Last(LastModule)
        BY <2>2 DEF LastModule
      <4>2. QED BY <4>1, <2>2, <1>3
    <3>2. CASE p = frontier
      BY <3>1, <3>2, <2>1
    <3>3. CASE p < frontier
      <4>1. p # frontier /\ memo = p
        BY <3>3, <2>2, <1>1 DEF MemoInv
      <4>2. QED BY <4>1, <3>1, <2>1
    <3>4. QED BY <3>2, <3>3, <2>2, <1>2
  <2>3. QED BY <2>1, <2>2, <1>1 DEF MemoInv
<1>7. CASE StartReanalysis
  <2>1. /\ frontier' = frontier /\ redo' = TRUE /\ memo' = frontier /\ frontier \in Modules
    BY <1>7 DEF StartReanalysis, AtFrontier, Modules
  <2>2. ASSUME NEW p \in Modules, Last(p), p < frontier \/ p = frontier
        PROVE  p = frontier
    <3>1. frontier <= p /\ p \in Nat
      BY <2>1, <2>2, <1>1
    <3>2. QED BY <3>1, <2>2
  <2>3. QED BY <2>1, <2>2, <1>1 DEF MemoInv
<1>8. CASE ReanalysisDone
  <2>1. frontier' = frontier + 1 /\ redo /\ redo' = FALSE /\ memo' = memo
    BY <1>8 DEF ReanalysisDone, Keep
  <2>2. QED BY <2>1, <1>1, <1>2 DEF MemoInv
<1>9. \/ UNCHANGED <<frontier, redo, memo>>
      \/ SkipFile \/ CommitClean \/ StartReanalysis \/ ReanalysisDone
  <2>1. CASE UNCHANGED vars
    BY <2>1 DEF vars, walkVars
  <2>2. CASE \E w \in Worker : Dispatch(w)
    BY <2>2 DEF Dispatch, walkVars
  <2>3. CASE \E p \in Pos : WorkerStep(p)
    BY <2>3 DEF WorkerStep, walkVars
  <2>4. CASE Join \/ ReanalysisStep \/ Terminated
    BY <2>4 DEF Join, ReanalysisStep, Terminated, vars, walkVars
  <2>5. QED BY <2>1, <2>2, <2>3, <2>4 DEF Next, Walk
<1>10. QED BY <1>4, <1>5, <1>6, <1>7, <1>8, <1>9

\* Although attempts are accepted without their memos, the rolling context ends
\* with the memo of the module that the serial pass analyzes last
\* (last_module_index), whatever was accepted and whatever was analyzed again.
THEOREM AlwaysMemoCarried ==
    Spec => []MemoCarried
<1>1. Init => frontier \in Nat /\ MemoInv
  <2>1. \A p \in Pos : ~(p < 1) /\ p \in Nat
    BY NAssumption DEF Pos
  <2>2. Modules \subseteq Pos
    BY DEF Modules
  <2>3. QED BY <2>1, <2>2 DEF Init, MemoInv
<1>2. (frontier \in Nat /\ MemoInv) /\ [Next]_vars => (frontier \in Nat /\ MemoInv)'
  BY NextMemo
<1>3. MemoInv => MemoCarried
  <2> SUFFICES ASSUME MemoInv, frontier = N + 1, Modules # {}
               PROVE  memo \in Modules /\ \A q \in Modules : q <= memo
    BY DEF MemoCarried
  <2>1. Modules \in SUBSET (1..N) /\ N \in Nat
    BY NAssumption DEF Modules, Pos
  <2>2. PICK p \in Modules : \A q \in Modules : q <= p
    BY <2>1, LastExists
  <2>3. p < frontier
    BY <2>1
  <2>4. QED BY <2>2, <2>3 DEF MemoInv
<1>4. QED BY <1>1, <1>2, <1>3, PTL DEF Spec

=============================================================================
