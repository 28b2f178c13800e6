------------------------ MODULE ParallelCheckProofs -------------------------
(***************************************************************************)
(* Proof that parallel checking is serial-equivalent for every number of   *)
(* files and workers, every program, every digest function and every       *)
(* schedule of replays, as long as no cache bucket fills up.  The code's   *)
(* schedule is one of those SpeculativeCheck admits, so all of it holds of *)
(* ScheduledCheck; what the schedule itself promises is proved last.       *)
(***************************************************************************)
EXTENDS ScheduledCheck, SpeculativeCheckInv, CheckProgramProofs

\* While the cap is out of reach, a bucket always has room for a key that is
\* in neither of the two views.
LEMMA RoomForKey ==
    ASSUME CapNotReached, NEW k \in Key,
           NEW X \in SUBSET Key, NEW Y \in SUBSET Key,
           k \notin X, k \notin Y
    PROVE  /\ Cardinality(Bucketmates(k) \cap X) + Cardinality(Bucketmates(k) \cap Y) < Cap
           /\ Cardinality(Bucketmates(k) \cap X) < Cap
<1> DEFINE B == Bucketmates(k)
<1>1. ASSUME NEW Z \in SUBSET Key, k \notin Z
      PROVE  Cardinality(B \cap Z) \in Nat /\ Cardinality(B \cap Z) < Cardinality(B)
  BY <1>1, BucketBelow
<1>2. Cardinality(B) \in Nat /\ 2 * Cardinality(B) <= Cap
  BY BucketBelow DEF CapNotReached
<1>3. Cap \in Nat
  BY CapAssumption
<1> HIDE DEF B
<1>4. Cardinality(B \cap X) + Cardinality(B \cap Y) < Cap /\ Cardinality(B \cap X) < Cap
  BY <1>1, <1>2, <1>3
<1>5. QED BY <1>4 DEF B

\* The overlay of a live-reading session.
LEMMA OwnOverlayType ==
    ASSUME NEW p \in Pos, NEW lg \in Log
    PROVE  /\ OwnOverlay(p, lg) \in Caches
           /\ DOMAIN OwnOverlay(p, lg) = KeptKeys(lg.trace)
           /\ \A k \in KeptKeys(lg.trace) : OwnOverlay(p, lg)[k] = p
<1>1. KeptKeys(lg.trace) \in SUBSET Key /\ p \in Publisher
  BY DEF KeptKeys, Publisher
<1>2. OwnOverlay(p, lg) \in [KeptKeys(lg.trace) -> Publisher]
  BY <1>1 DEF OwnOverlay
<1>3. QED BY <1>1, <1>2 DEF Caches, OwnOverlay

\* The event that the next operation of lg appends.
NextEvent(base, ov, lg) ==
    [loc |-> lg.loc, answer |-> AnswerOf(base, ov, KeyAt[lg.loc]),
     kept |-> Keeps(base, ov, lg.loc)]

\* One operation on any pair of views extends the log by one event of the
\* right type.
LEMMA PerformedLog ==
    ASSUME NEW p \in Pos, NEW lg \in Log, NEW base \in Caches, NEW ov \in Caches
    PROVE  /\ Performed(base, ov, p, lg) \in Log
           /\ NextEvent(base, ov, lg) \in Event
           /\ Performed(base, ov, p, lg).trace = Append(lg.trace, NextEvent(base, ov, lg))
<1> DEFINE k == KeyAt[lg.loc]
           a == AnswerOf(base, ov, k)
<1>1. lg.loc \in Loc /\ lg.trace \in Seq(Event) /\ lg.inserts \in Seq(Key)
      /\ lg.misses \subseteq {Digest[j] : j \in Key} /\ lg.deps \subseteq Publisher
  BY DEF Log
<1>2. k \in Key
  BY <1>1, ProgramAssumption
<1>3. a \in Answer /\ (a # Miss => a \in Publisher)
  BY CachesElim, <1>2 DEF AnswerOf, Answer
<1>4. Goto[lg.loc][a] \in Loc
  BY <1>1, <1>3, ProgramAssumption
<1>5. Keeps(base, ov, lg.loc) \in BOOLEAN
  BY DEF Keeps
<1>6. NextEvent(base, ov, lg) \in Event
  BY <1>1, <1>3, <1>5 DEF NextEvent, Event
<1>7. Performed(base, ov, p, lg) \in Log
  <2> DEFINE new == Performed(base, ov, p, lg)
  <2>1. new = [loc |-> Goto[lg.loc][a],
               trace |-> Append(lg.trace, NextEvent(base, ov, lg)),
               misses |-> IF a = Miss THEN lg.misses \cup {Digest[k]} ELSE lg.misses,
               deps |-> IF k \notin DOMAIN base /\ a \notin {Miss, p}
                        THEN lg.deps \cup {a} ELSE lg.deps,
               inserts |-> IF Keeps(base, ov, lg.loc) THEN Append(lg.inserts, k)
                           ELSE lg.inserts]
    BY DEF Performed, NextEvent
  <2>2. Append(lg.trace, NextEvent(base, ov, lg)) \in Seq(Event)
    BY <1>1, <1>6
  <2>3. Append(lg.inserts, k) \in Seq(Key)
    BY <1>1, <1>2
  <2>4. (IF a = Miss THEN lg.misses \cup {Digest[k]} ELSE lg.misses)
            \subseteq {Digest[j] : j \in Key}
    BY <1>1, <1>2
  <2>5. (IF k \notin DOMAIN base /\ a \notin {Miss, p} THEN lg.deps \cup {a} ELSE lg.deps)
            \subseteq Publisher
    BY <1>1, <1>3
  <2> HIDE DEF new, a, k
  <2>6. QED BY <2>1, <2>2, <2>3, <2>4, <2>5, <1>1, <1>4 DEF Log, new
<1>8. Performed(base, ov, p, lg).trace = Append(lg.trace, NextEvent(base, ov, lg))
  BY DEF Performed, NextEvent
<1>9. QED BY <1>6, <1>7, <1>8

\* A session misses only what is in neither view.
LEMMA MissedNowhere ==
    ASSUME NEW base \in Caches, NEW ov \in Caches, NEW k, AnswerOf(base, ov, k) = Miss
    PROVE  k \notin DOMAIN base /\ k \notin DOMAIN ov
BY CachesElim, MissIsNoPublisher DEF AnswerOf

\* While the cap is out of reach, an intern that misses is kept.
LEMMA PerformedType ==
    ASSUME CapNotReached, NEW p \in Pos, NEW lg \in Log,
           NEW base \in Caches, NEW ov \in Caches
    PROVE  /\ Performed(base, ov, p, lg) \in Log
           /\ NextEvent(base, ov, lg) \in Event
           /\ Performed(base, ov, p, lg).trace = Append(lg.trace, NextEvent(base, ov, lg))
           /\ Keeps(base, ov, lg.loc) <=>
                Kind[lg.loc] = "intern" /\ AnswerOf(base, ov, KeyAt[lg.loc]) = Miss
<1> DEFINE k == KeyAt[lg.loc]
           a == AnswerOf(base, ov, k)
<1>1. k \in Key
  BY ProgramAssumption DEF Log
<1>2. a = Miss => k \notin DOMAIN base /\ k \notin DOMAIN ov
  BY MissedNowhere
<1>3. DOMAIN base \in SUBSET Key /\ DOMAIN ov \in SUBSET Key
  BY CachesElim
<1>4. a = Miss => BucketLen(base, k) + BucketLen(ov, k) < Cap
  BY <1>1, <1>2, <1>3, RoomForKey DEF BucketLen
<1>5. Keeps(base, ov, lg.loc) <=> Kind[lg.loc] = "intern" /\ a = Miss
  BY <1>4 DEF Keeps
<1>6. QED BY <1>5, PerformedLog

\* One operation keeps a log well formed, provided the base view contains the
\* snapshot and none of p's entries, and the overlay tags p's own insertions,
\* all of them and nothing else, with p.
LEMMA PerformedWellFormed ==
    ASSUME CapNotReached, NEW p \in Pos, NEW lg \in Log, NEW l \in Loc, NEW s \in Caches,
           NEW base \in Caches, NEW ov \in Caches,
           WellFormed(lg, p, l, s), ~Finished(lg),
           DOMAIN s \subseteq DOMAIN base,
           \A k \in DOMAIN base : base[k] # p,
           \A k \in DOMAIN ov : ov[k] = p => k \in KeptKeys(lg.trace),
           KeptKeys(lg.trace) \subseteq DOMAIN ov
    PROVE  WellFormed(Performed(base, ov, p, lg), p, l, s)
<1> DEFINE t   == lg.trace
           n   == Len(t)
           e   == NextEvent(base, ov, lg)
           u   == Append(t, e)
           new == Performed(base, ov, p, lg)
           k   == KeyAt[lg.loc]
           a   == AnswerOf(base, ov, k)
<1>1. /\ new \in Log /\ e \in Event /\ new.trace = u
      /\ e.kept <=> Kind[e.loc] = "intern" /\ e.answer = Miss
      /\ e.loc = lg.loc /\ e.answer = a
      /\ Keeps(base, ov, lg.loc) = e.kept
  BY PerformedType DEF NextEvent
<1>2. /\ t \in Seq(Event) /\ u \in Seq(Event) /\ n \in Nat /\ Len(u) = n + 1
      /\ \A i \in 1..n : u[i] = t[i]
      /\ u[n + 1] = e
      /\ DOMAIN t = 1..n /\ DOMAIN u = 1..(n + 1)
      /\ KeptKeys(u) = KeptKeys(t) \cup {j \in Key : e.kept /\ KeyAt[e.loc] = j}
      /\ lg.loc \in Loc /\ k \in Key /\ lg.inserts \in Seq(Key)
  BY <1>1, KeptAppend, ProgramAssumption DEF Log
<1>3. /\ new.loc = Goto[lg.loc][a]
      /\ new.misses = IF a = Miss THEN lg.misses \cup {Digest[k]} ELSE lg.misses
      /\ new.inserts = IF e.kept THEN Append(lg.inserts, k) ELSE lg.inserts
  BY <1>1 DEF Performed
<1>4. /\ a = Miss => k \notin DOMAIN base /\ k \notin DOMAIN ov
      /\ a = p => k \in DOMAIN ov /\ ov[k] = p
      /\ p # Miss
  BY CachesElim, MissIsNoPublisher DEF AnswerOf, Publisher
<1>5. /\ lg.loc = LocAfter(t, n, l)
      /\ \A i \in DOMAIN t :
          /\ t[i].loc = LocAfter(t, i - 1, l)
          /\ Kind[t[i].loc] # "done"
          /\ t[i].kept <=> Kind[t[i].loc] = "intern" /\ t[i].answer = Miss
          /\ t[i].answer = Miss => /\ Digest[KeyAt[t[i].loc]] \in lg.misses
                                   /\ KeyAt[t[i].loc] \notin DOMAIN s
                                   /\ \A h \in 1..(i - 1) : ~Kept(t, h, KeyAt[t[i].loc])
          /\ t[i].answer = p => \E h \in 1..(i - 1) : Kept(t, h, KeyAt[t[i].loc])
      /\ \A j \in DOMAIN lg.inserts : lg.inserts[j] \in KeptKeys(t)
      /\ \A j \in KeptKeys(t) : \E i \in DOMAIN lg.inserts : lg.inserts[i] = j
      /\ \A i, j \in DOMAIN lg.inserts : lg.inserts[i] = lg.inserts[j] => i = j
  BY DEF WellFormed
<1>6. \A i \in 1..(n + 1) : LocAfter(u, i - 1, l) = LocAfter(t, i - 1, l)
  BY <1>2 DEF LocAfter
<1>7. \A h \in 1..n : \A j : Kept(u, h, j) <=> Kept(t, h, j)
  BY <1>2 DEF Kept
<1>8. k \in KeptKeys(t) <=> \E h \in 1..n : Kept(t, h, k)
  BY <1>2 DEF KeptKeys
<1>9. ~(Kind[lg.loc] = "done")
  BY DEF Finished
<1> HIDE DEF t, n, e, u, new, k, a
<1>10. new.loc = LocAfter(u, n + 1, l)
  BY <1>1, <1>2, <1>3 DEF LocAfter
<1>11. ASSUME NEW i \in 1..(n + 1)
       PROVE  /\ u[i].loc = LocAfter(u, i - 1, l)
              /\ Kind[u[i].loc] # "done"
              /\ u[i].kept <=> Kind[u[i].loc] = "intern" /\ u[i].answer = Miss
              /\ u[i].answer = Miss => /\ Digest[KeyAt[u[i].loc]] \in new.misses
                                       /\ KeyAt[u[i].loc] \notin DOMAIN s
                                       /\ \A h \in 1..(i - 1) : ~Kept(u, h, KeyAt[u[i].loc])
              /\ u[i].answer = p => \E h \in 1..(i - 1) : Kept(u, h, KeyAt[u[i].loc])
  <2>1. CASE i \in 1..n
    <3>1. \A h \in 1..(i - 1) : h \in 1..n
      BY <2>1, <1>2
    <3>2. u[i] = t[i] /\ i \in DOMAIN t /\ lg.misses \subseteq new.misses
      BY <2>1, <1>2, <1>3
    <3>3. LocAfter(u, i - 1, l) = LocAfter(t, i - 1, l)
      BY <1>6
    <3>4. QED BY <3>1, <3>2, <3>3, <1>5, <1>7
  <2>2. CASE i = n + 1
    <3>1. u[i] = e /\ i - 1 = n /\ KeyAt[e.loc] = k
      BY <2>2, <1>2, <1>1 DEF k
    <3>2. e.loc = LocAfter(u, n, l)
      BY <3>1, <1>1, <1>2, <1>5, <1>6
    <3>3. e.answer = Miss => /\ Digest[k] \in new.misses
                             /\ k \notin DOMAIN s
                             /\ \A h \in 1..n : ~Kept(u, h, k)
      BY <1>1, <1>3, <1>4, <1>7, <1>8 DEF t
    <3>4. e.answer = p => \E h \in 1..n : Kept(u, h, k)
      BY <1>1, <1>4, <1>7, <1>8 DEF t
    <3>5. QED BY <3>1, <3>2, <3>3, <3>4, <1>1, <1>9
  <2>3. QED BY <2>1, <2>2, <1>2
<1>12. /\ \A j \in DOMAIN new.inserts : new.inserts[j] \in KeptKeys(u)
       /\ \A j \in KeptKeys(u) : \E i \in DOMAIN new.inserts : new.inserts[i] = j
       /\ \A i, j \in DOMAIN new.inserts : new.inserts[i] = new.inserts[j] => i = j
  <2>1. CASE ~e.kept
    BY <2>1, <1>2, <1>3, <1>5
  <2>2. CASE e.kept
    <3>1. KeptKeys(u) = KeptKeys(t) \cup {k}
      BY <2>2, <1>1, <1>2 DEF k
    <3>2. k \notin KeptKeys(t)
      BY <2>2, <1>1, <1>4 DEF t
    <3>3. /\ new.inserts = Append(lg.inserts, k)
          /\ DOMAIN new.inserts = 1..(Len(lg.inserts) + 1)
          /\ DOMAIN lg.inserts = 1..Len(lg.inserts)
          /\ Len(lg.inserts) \in Nat
          /\ \A i \in DOMAIN lg.inserts : new.inserts[i] = lg.inserts[i]
          /\ new.inserts[Len(lg.inserts) + 1] = k
      BY <2>2, <1>2, <1>3
    <3>4. \A j \in DOMAIN new.inserts : j \in DOMAIN lg.inserts \/ j = Len(lg.inserts) + 1
      BY <3>3
    <3>5. \A j \in DOMAIN new.inserts : new.inserts[j] \in KeptKeys(u)
      BY <3>1, <3>3, <3>4, <1>5
    <3>6. \A j \in KeptKeys(u) : \E i \in DOMAIN new.inserts : new.inserts[i] = j
      BY <3>1, <3>3, <1>5
    <3>7. \A i, j \in DOMAIN new.inserts : new.inserts[i] = new.inserts[j] => i = j
      BY <3>2, <3>3, <3>4, <1>5
    <3>8. QED BY <3>5, <3>6, <3>7
  <2>3. QED BY <2>1, <2>2
<1>13. DOMAIN u = 1..(n + 1) /\ Len(u) = n + 1 /\ new.trace = u
  BY <1>1, <1>2
<1>14. WellFormed(new, p, l, s)
  BY <1>10, <1>11, <1>12, <1>13 DEF WellFormed
<1>15. QED BY <1>14 DEF new

\* The heart of the argument: a well formed, finished log is a serial run on c
\* when none of its misses is in c and all its hits are in c.
LEMMA ValidLogIsSerialRun ==
    ASSUME CapNotReached, NEW p \in Pos, NEW lg \in Log, NEW l \in Loc, NEW s \in Caches,
           NEW c \in Caches,
           WellFormed(lg, p, l, s), Finished(lg),
           MissesOutside(lg, c), HitsIn(lg, p, c)
    PROVE  IsSerialRun(lg.trace, p, l, c)
<1> DEFINE t == lg.trace
           mine(i) == {j \in Key : \E h \in 1..(i - 1) : Kept(t, h, j)}
<1>1. t \in Seq(Event) /\ DOMAIN t = 1..Len(t) /\ Len(t) \in Nat
  BY DEF Log
<1>2. Kind[LocAfter(t, Len(t), l)] = "done"
  BY DEF WellFormed, Finished
<1>3. ASSUME NEW i \in DOMAIN t
      PROVE  LET k == KeyAt[t[i].loc] IN
             /\ t[i].loc = LocAfter(t, i - 1, l)
             /\ Kind[t[i].loc] # "done"
             /\ t[i].answer = IF k \in DOMAIN c THEN c[k]
                              ELSE IF k \in mine(i) THEN p ELSE Miss
             /\ t[i].kept =
                  (/\ Kind[t[i].loc] = "intern"
                   /\ t[i].answer = Miss
                   /\ Cardinality(Bucketmates(k) \cap (DOMAIN c \cup mine(i))) < Cap)
  <2> DEFINE k == KeyAt[t[i].loc]
  <2>1. /\ t[i].loc = LocAfter(t, i - 1, l)
        /\ Kind[t[i].loc] # "done"
        /\ t[i].kept <=> Kind[t[i].loc] = "intern" /\ t[i].answer = Miss
        /\ t[i].answer = Miss => \A h \in 1..(i - 1) : ~Kept(t, h, k)
        /\ t[i].answer = p => \E h \in 1..(i - 1) : Kept(t, h, k)
    BY DEF WellFormed
  <2>2. t[i] \in Event /\ k \in Key /\ t[i].kept \in BOOLEAN /\ i \in Nat
    <3>1. t[i] \in Event /\ i \in Nat
      BY <1>1
    <3>2. t[i].loc \in Loc /\ t[i].kept \in BOOLEAN
      BY <3>1 DEF Event
    <3>3. QED BY <3>1, <3>2, ProgramAssumption
  <2>3. k \in mine(i) <=> \E h \in 1..(i - 1) : Kept(t, h, k)
    BY <2>2
  <2>4. t[i].answer = Miss => k \notin DOMAIN c
    BY DEF MissesOutside
  <2>5. t[i].answer \notin {Miss, p} => k \in DOMAIN c /\ c[k] = t[i].answer
    BY DEF HitsIn
  <2>6. ASSUME t[i].answer = p PROVE k \notin DOMAIN c
    <3>1. PICK h \in 1..(i - 1) : Kept(t, h, k)
      BY <2>1, <2>6
    <3>2. h \in DOMAIN t
      BY <1>1, <2>2
    <3>3. t[h].answer = Miss /\ KeyAt[t[h].loc] = k
      BY <3>1, <3>2 DEF Kept, WellFormed
    <3>4. QED BY <3>2, <3>3 DEF MissesOutside
  <2>7. t[i].answer = IF k \in DOMAIN c THEN c[k] ELSE IF k \in mine(i) THEN p ELSE Miss
    BY <2>1, <2>3, <2>4, <2>5, <2>6
  <2>8. t[i].answer = Miss =>
          Cardinality(Bucketmates(k) \cap (DOMAIN c \cup mine(i))) < Cap
    <3>1. DOMAIN c \cup mine(i) \in SUBSET Key
      BY CachesElim
    <3>2. t[i].answer = Miss => k \notin DOMAIN c \cup mine(i)
      BY <2>1, <2>3, <2>4
    <3>3. QED BY <3>1, <3>2, <2>2, RoomForKey
  <2>9. t[i].kept =
          (/\ Kind[t[i].loc] = "intern"
           /\ t[i].answer = Miss
           /\ Cardinality(Bucketmates(k) \cap (DOMAIN c \cup mine(i))) < Cap)
    BY <2>1, <2>2, <2>8
  <2>10. QED BY <2>1, <2>7, <2>9
<1>4. QED BY <1>2, <1>3 DEF IsSerialRun

\* While nothing of position p has been published, what was published before p
\* is all of the caches.
LEMMA BeforeIsCaches ==
    ASSUME TypeOK, NEW p \in Pos, \A k \in DOMAIN caches : caches[k] < p
    PROVE  Before(p) = caches
<1>1. caches \in Caches
  BY DEF TypeOK
<1>2. caches = [k \in DOMAIN caches |-> caches[k]]
  BY <1>1, CachesElim
<1>3. {j \in DOMAIN caches : caches[j] < p} = DOMAIN caches
  OBVIOUS
<1>4. QED BY <1>2, <1>3 DEF Before

-----------------------------------------------------------------------------
\* An empty log is a well formed log of its position and hits nothing.
LEMMA FreshLogOK ==
    ASSUME entry \in [Pos -> Loc], NEW p \in Pos, NEW s, NEW c
    PROVE  /\ FreshLog(p) \in Log
           /\ WellFormed(FreshLog(p), p, entry[p], s)
           /\ HitsIn(FreshLog(p), p, c)
           /\ MissesOutside(FreshLog(p), c)
           /\ KeptKeys(FreshLog(p).trace) = {}
<1>1. /\ FreshLog(p).trace = <<>> /\ FreshLog(p).inserts = <<>>
      /\ FreshLog(p).loc = entry[p] /\ FreshLog(p).misses = {} /\ FreshLog(p).deps = {}
  BY DEF FreshLog
<1>2. FreshLog(p) \in Log
  <2>1. <<>> \in Seq(Event) /\ <<>> \in Seq(Key)
    OBVIOUS
  <2>2. QED BY <2>1 DEF FreshLog, Log
<1>3. KeptKeys(<<>>) = {}
  BY DEF KeptKeys
<1>4. WellFormed(FreshLog(p), p, entry[p], s)
  BY <1>1, <1>3 DEF WellFormed, LocAfter
<1>5. HitsIn(FreshLog(p), p, c) /\ MissesOutside(FreshLog(p), c)
  BY <1>1 DEF HitsIn, MissesOutside
<1>6. QED BY <1>1, <1>2, <1>3, <1>4, <1>5

\* The initial states satisfy the inductive invariant.
LEMMA InitIInv == Init => IInv
<1> SUFFICES ASSUME Init PROVE IInv
  OBVIOUS
<1>1. entry \in [Pos -> Loc]
  BY EntriesAssumption DEF Init
<1>2. 1 \in Pos
  BY NAssumption DEF Pos
<1>3. snapshot \in Caches /\ \A k \in DOMAIN snapshot : snapshot[k] = BasePublisher
  <2>1. PICK D \in SUBSET Key : snapshot \in [D -> {BasePublisher}]
    BY DEF Init
  <2>2. QED BY <2>1 DEF Caches, Publisher
<1>4. \A p \in Pos :
        /\ FreshLog(p) \in Log
        /\ WellFormed(FreshLog(p), p, entry[p], snapshot)
        /\ HitsIn(FreshLog(p), p, caches)
        /\ FreshLog(p).trace = <<>>
        /\ FreshLog(p).deps = {}
        /\ KeptKeys(FreshLog(p).trace) = {}
  <2>1. \A p \in Pos : FreshLog(p).trace = <<>> /\ FreshLog(p).deps = {}
    BY DEF FreshLog
  <2>2. QED BY <1>1, <2>1, FreshLogOK
<1>5. TypeOK
  <2>1. [k \in {} |-> BasePublisher] \in Caches
    BY DEF Caches, Publisher
  <2>2. <<>> \in Seq(Event)
    OBVIOUS
  <2>3. QED BY <1>1, <1>2, <1>3, <1>4, <2>1, <2>2, NAssumption DEF Init, TypeOK
<1>6. DispatchInv
  BY WorkerAssumption, NAssumption DEF Init, DispatchInv, Pos
<1>7. OverlayInv
  BY WorkerAssumption DEF Init, OverlayInv
<1>8. WorkerLogInv
  BY <1>4 DEF Init, WorkerLogInv, HitsExplained
<1>9. PhaseInv
  BY DEF Init, PhaseInv
<1>10. CachesInv
  BY <1>3 DEF Init, CachesInv
<1>11. LiveLogInv
  BY <1>4 DEF Init, LiveLogInv
<1>12. ApplyInv /\ CommittedInv
  BY DEF Init, ApplyInv, CommittedInv, Applying, Pos
<1>13. SerialEquivalence
  BY DEF Init, SerialEquivalence, Pos
<1>14. QED BY <1>5, <1>6, <1>7, <1>8, <1>9, <1>10, <1>11, <1>12, <1>13 DEF IInv

-----------------------------------------------------------------------------
\* The parts of the invariant about the walk and the replays survive a step
\* that leaves the walk and the replays alone.
LEMMA WalkUntouched ==
    ASSUME IInv, UNCHANGED <<entry, snapshot, walkVars, replayVars>>
    PROVE  CachesInv' /\ LiveLogInv' /\ SerialEquivalence'
<1>1. UNCHANGED <<entry, snapshot, caches, published, dirty, frontier, coord, work,
                  cursor, result, submitted, replay>>
  BY DEF walkVars, replayVars
<1>2. CachesInv'
  BY <1>1 DEF IInv, CachesInv, Applying
<1>3. LiveLogInv'
  BY <1>1 DEF IInv, LiveLogInv
<1>4. SerialEquivalence'
  BY <1>1 DEF IInv, SerialEquivalence, Before, PublishedBy
<1>5. QED BY <1>2, <1>3, <1>4

\* The parts about the workers survive a step that leaves the workers alone.
LEMMA WorkersUntouched ==
    ASSUME IInv, UNCHANGED <<entry, snapshot, workerVars>>
    PROVE  DispatchInv' /\ OverlayInv' /\ WorkerLogInv'
<1>1. UNCHANGED <<entry, snapshot, nextIndex, owner, overlay, log>>
  BY DEF workerVars
<1>2. DispatchInv'
  BY <1>1 DEF IInv, DispatchInv, FreshLog
<1>3. OverlayInv'
  BY <1>1 DEF IInv, OverlayInv
<1>4. WorkerLogInv'
  BY <1>1 DEF IInv, WorkerLogInv
<1>5. QED BY <1>2, <1>3, <1>4

\* Handing out the next position preserves the invariant.
LEMMA DispatchStep ==
    ASSUME IInv, NEW w \in Worker, Dispatch(w)
    PROVE  IInv'
<1> USE DEF IInv
<1>1. /\ UNCHANGED <<entry, snapshot, overlay, log, phase>>
      /\ UNCHANGED <<walkVars, replayVars>>
      /\ phase = "check" /\ nextIndex \in Pos
      /\ owner' = [owner EXCEPT ![nextIndex] = w] /\ nextIndex' = nextIndex + 1
      /\ \A p \in Pos : owner[p] = w => Finished(log[p])
  BY DEF Dispatch, Busy
<1>2. UNCHANGED <<caches, published, dirty, frontier, coord, work, cursor, result,
                  submitted, replay>>
  BY <1>1 DEF walkVars, replayVars
<1>3. /\ owner \in [Pos -> Worker \cup {NoWorker}] /\ nextIndex \in Nat /\ Pos \subseteq Nat
      /\ log \in [Pos -> Log] /\ entry \in [Pos -> Loc]
  BY NAssumption DEF TypeOK, Pos
<1>4. owner'[nextIndex] = w /\ \A p \in Pos : p # nextIndex => owner'[p] = owner[p]
  BY <1>1, <1>3
<1>5. owner[nextIndex] = NoWorker
  BY <1>1, <1>3 DEF DispatchInv
<1>6. log[nextIndex] = FreshLog(nextIndex)
  BY <1>1, <1>5 DEF DispatchInv
<1>7. TypeOK'
  <2>1. owner' \in [Pos -> Worker \cup {NoWorker}]
    BY <1>1, <1>3
  <2>2. nextIndex' \in 1..(N + 1)
    BY <1>1, NAssumption DEF Pos
  <2>3. QED BY <1>1, <1>2, <2>1, <2>2 DEF TypeOK
<1>8. DispatchInv'
  <2>1. ASSUME NEW p \in Pos PROVE owner'[p] \in Worker <=> p < nextIndex + 1
    BY <1>3, <1>4, <1>5 DEF DispatchInv
  <2>2. ASSUME NEW p \in Pos, owner'[p] = NoWorker PROVE log[p] = FreshLog(p)
    BY <2>2, <1>4, WorkerAssumption DEF DispatchInv
  <2>3. ASSUME NEW p \in Pos, NEW q \in Pos, q < p, owner'[q] = owner'[p],
               owner'[p] \in Worker
        PROVE  Finished(log[q])
    <3>1. p < nextIndex + 1
      BY <2>1, <2>3
    <3>2. q # nextIndex /\ owner'[q] = owner[q]
      BY <3>1, <2>3, <1>3, <1>4
    <3>3. QED BY <3>2, <2>3, <1>1, <1>4 DEF DispatchInv
  <2>4. QED BY <2>1, <2>2, <2>3, <1>1 DEF DispatchInv, FreshLog
<1>9. OverlayInv'
  <2>1. KeptKeys(log[nextIndex].trace) = {}
    BY <1>1, <1>3, <1>6, FreshLogOK
  <2>2. ASSUME NEW v \in Worker, NEW k \in DOMAIN overlay[v]
        PROVE  /\ overlay[v][k] \in Pos /\ owner'[overlay[v][k]] = v
               /\ k \in KeptKeys(log[overlay[v][k]].trace)
    BY <1>4, <1>5, WorkerAssumption DEF OverlayInv
  <2>3. ASSUME NEW q \in Pos, owner'[q] \in Worker
        PROVE  KeptKeys(log[q].trace) \subseteq DOMAIN overlay[owner'[q]]
    BY <2>1, <2>3, <1>4 DEF OverlayInv
  <2>4. QED BY <2>2, <2>3, <1>1 DEF OverlayInv
<1>10. WorkerLogInv'
  <2>1. ASSUME NEW p \in Pos, NEW q \in log[p].deps
        PROVE  q \in 1..(p - 1) /\ owner'[q] = owner'[p] /\ Finished(log[q])
    <3>1. q \in 1..(p - 1) /\ owner[q] = owner[p] /\ Finished(log[q]) /\ q \in Pos
      BY EarlierPos DEF WorkerLogInv
    <3>2. owner[p] # NoWorker
      <4>1. FreshLog(p).deps = {}
        BY DEF FreshLog
      <4>2. QED BY <4>1 DEF DispatchInv
    <3>3. QED BY <3>1, <3>2, <1>4, <1>5
  <2>2. QED BY <2>1, <1>1 DEF WorkerLogInv
<1>11. PhaseInv'
  BY <1>1, <1>2 DEF PhaseInv
<1>12. ApplyInv' /\ CommittedInv'
  <2>1. coord = "top" /\ frontier = 1
    BY <1>1 DEF PhaseInv
  <2>2. QED BY <2>1, <1>1, <1>2 DEF ApplyInv, CommittedInv, Applying, Pos
<1>13. CachesInv' /\ LiveLogInv' /\ SerialEquivalence'
  BY <1>1, WalkUntouched
<1>14. QED BY <1>7, <1>8, <1>9, <1>10, <1>11, <1>12, <1>13

\* One cache operation of a worker preserves the invariant.
LEMMA WorkerStepOK ==
    ASSUME CapNotReached, IInv, NEW p \in Pos, WorkerStep(p)
    PROVE  IInv'
<1> USE DEF IInv
<1> DEFINE w   == owner[p]
           ov  == overlay[w]
           lg  == log[p]
           new == Performed(snapshot, ov, p, lg)
           k0  == KeyAt[lg.loc]
           a0  == AnswerOf(snapshot, ov, k0)
           e   == NextEvent(snapshot, ov, lg)
<1>1. /\ w \in Worker /\ ~Finished(lg)
      /\ log' = [log EXCEPT ![p] = new]
      /\ overlay' = [overlay EXCEPT ![w] = OverlayAfter(snapshot, ov, p, lg.loc)]
      /\ UNCHANGED <<entry, snapshot, nextIndex, owner, phase>>
      /\ UNCHANGED <<walkVars, replayVars>>
  BY DEF WorkerStep
<1>2. UNCHANGED <<caches, published, dirty, frontier, coord, work, cursor, result,
                  submitted, replay>>
  BY <1>1 DEF walkVars, replayVars
<1>3. /\ snapshot \in Caches /\ ov \in Caches /\ lg \in Log /\ entry[p] \in Loc
      /\ overlay \in [Worker -> Caches] /\ log \in [Pos -> Log]
      /\ p \in Publisher /\ k0 \in Key
  <2>1. snapshot \in Caches /\ ov \in Caches /\ lg \in Log /\ entry[p] \in Loc
        /\ overlay \in [Worker -> Caches] /\ log \in [Pos -> Log]
    BY <1>1 DEF TypeOK
  <2>2. lg.loc \in Loc
    BY <2>1 DEF Log
  <2>3. QED BY <2>1, <2>2, ProgramAssumption DEF Publisher
<1>4. phase = "check" /\ frontier = 1 /\ coord = "top" /\ submitted = {}
  BY <1>1 DEF PhaseInv, TypeOK
<1>5. /\ new \in Log /\ e \in Event /\ new.trace = Append(lg.trace, e)
      /\ e.kept <=> Kind[lg.loc] = "intern" /\ a0 = Miss
      /\ e.loc = lg.loc /\ e.answer = a0 /\ e.kept = Keeps(snapshot, ov, lg.loc)
  BY <1>3, PerformedType DEF NextEvent
<1>6. WellFormed(new, p, entry[p], snapshot)
  <2>1. WellFormed(lg, p, entry[p], snapshot)
    BY DEF WorkerLogInv
  <2>2. \A k \in DOMAIN snapshot : snapshot[k] # p
    BY MissIsNoPublisher DEF CachesInv, BasePublisher, Pos
  <2>3. \A k \in DOMAIN ov : ov[k] = p => k \in KeptKeys(lg.trace)
    BY <1>1 DEF OverlayInv
  <2>4. KeptKeys(lg.trace) \subseteq DOMAIN ov
    BY <1>1 DEF OverlayInv
  <2>5. QED BY <2>1, <2>2, <2>3, <2>4, <1>1, <1>3, PerformedWellFormed
<1>7. /\ lg.trace \in Seq(Event)
      /\ \A i \in 1..Len(lg.trace) : new.trace[i] = lg.trace[i]
      /\ new.trace[Len(lg.trace) + 1] = e
      /\ KeptKeys(new.trace) = KeptKeys(lg.trace) \cup {k \in Key : e.kept /\ k0 = k}
      /\ DOMAIN lg.trace = 1..Len(lg.trace)
      /\ DOMAIN new.trace = 1..(Len(lg.trace) + 1)
      /\ Len(lg.trace) \in Nat
  <2>1. lg.trace \in Seq(Event)
    BY <1>3 DEF Log
  <2>2. QED BY <2>1, <1>5, KeptAppend
<1>8. log'[p] = new /\ \A q \in Pos : q # p => log'[q] = log[q]
  BY <1>1, <1>3
<1>9. /\ a0 = Miss => k0 \notin DOMAIN ov /\ k0 \notin DOMAIN snapshot
      /\ a0 # Miss => \/ k0 \in DOMAIN snapshot /\ a0 = snapshot[k0]
                      \/ k0 \notin DOMAIN snapshot /\ k0 \in DOMAIN ov /\ a0 = ov[k0]
  BY <1>3, CachesElim, MissIsNoPublisher DEF AnswerOf
<1>10. overlay'[w] = IF e.kept THEN WithEntry(ov, k0, p) ELSE ov
  BY <1>1, <1>3, <1>5 DEF OverlayAfter
<1>11. new.deps = IF k0 \notin DOMAIN snapshot /\ a0 \notin {Miss, p}
                  THEN lg.deps \cup {a0} ELSE lg.deps
  BY DEF Performed
<1>12. \A v \in Worker : v # w => overlay'[v] = overlay[v]
  BY <1>1, <1>3
<1>22. /\ WithEntry(ov, k0, p) \in Caches
       /\ DOMAIN WithEntry(ov, k0, p) = DOMAIN ov \cup {k0}
       /\ WithEntry(ov, k0, p)[k0] = p
       /\ \A j \in DOMAIN ov : j # k0 => WithEntry(ov, k0, p)[j] = ov[j]
  BY <1>3, WithEntryType
<1>13. \A q \in Pos : q # p /\ owner[q] = w => q < p /\ Finished(log[q])
  BY <1>1, MissIsNoPublisher DEF DispatchInv
<1> HIDE DEF w, ov, lg, new, k0, a0, e
<1>14. TypeOK'
  <2>1. log' \in [Pos -> Log]
    BY <1>1, <1>3, <1>5
  <2>3. overlay' \in [Worker -> Caches]
    <3>1. OverlayAfter(snapshot, ov, p, lg.loc) \in Caches
      BY <1>3, <1>22 DEF OverlayAfter, k0
    <3>2. QED BY <3>1, <1>1, <1>3
  <2>4. QED BY <2>1, <2>3, <1>1, <1>2 DEF TypeOK
<1>15. DispatchInv'
  <2>1. ASSUME NEW q \in Pos, owner[q] = NoWorker PROVE log'[q] = FreshLog(q)
    BY <2>1, <1>1, <1>8, WorkerAssumption DEF DispatchInv, w
  <2>2. ASSUME NEW r \in Pos, NEW q \in Pos, q < r, owner[q] = owner[r], owner[r] \in Worker
        PROVE  Finished(log'[q])
    <3>1. Finished(log[q])
      BY <2>2 DEF DispatchInv
    <3>2. QED BY <3>1, <1>1, <1>8 DEF lg
  <2>3. QED BY <2>1, <2>2, <1>1 DEF DispatchInv, FreshLog
<1>16. OverlayInv'
  <2>1. KeptKeys(lg.trace) \subseteq KeptKeys(new.trace)
    BY <1>7
  <2>2. ASSUME NEW q \in Pos PROVE KeptKeys(log[q].trace) \subseteq KeptKeys(log'[q].trace)
    BY <2>1, <1>8 DEF lg
  <2>3. ASSUME NEW v \in Worker, NEW k \in DOMAIN overlay'[v]
        PROVE  /\ overlay'[v][k] \in Pos /\ owner[overlay'[v][k]] = v
               /\ k \in KeptKeys(log'[overlay'[v][k]].trace)
    <3>1. CASE k \in DOMAIN overlay[v] /\ overlay'[v][k] = overlay[v][k]
      BY <3>1, <2>2 DEF OverlayInv
    <3>2. CASE ~(k \in DOMAIN overlay[v] /\ overlay'[v][k] = overlay[v][k])
      <4>1. v = w /\ e.kept
        BY <3>2, <2>3, <1>10, <1>12 DEF ov
      <4>2. overlay'[v] = WithEntry(ov, k0, p)
        BY <4>1, <1>10
      <4>3. k0 \notin DOMAIN ov
        BY <4>1, <1>5, <1>9
      <4>4. k = k0 /\ overlay'[v][k] = p
        BY <4>1, <4>2, <4>3, <3>2, <1>22 DEF ov
      <4>5. QED BY <4>1, <4>4, <1>7, <1>8, <1>3 DEF w
    <3>3. QED BY <3>1, <3>2
  <2>4. ASSUME NEW q \in Pos, owner[q] \in Worker
        PROVE  KeptKeys(log'[q].trace) \subseteq DOMAIN overlay'[owner[q]]
    <3>1. DOMAIN ov \subseteq DOMAIN overlay'[w]
      BY <1>22, <1>10
    <3>2. DOMAIN overlay[owner[q]] \subseteq DOMAIN overlay'[owner[q]]
      BY <3>1, <2>4, <1>12 DEF ov
    <3>3. CASE q # p
      BY <3>3, <3>2, <2>4, <1>8 DEF OverlayInv
    <3>4. CASE q = p
      <4>1. KeptKeys(lg.trace) \subseteq DOMAIN overlay'[w]
        BY <3>4, <3>2, <2>4 DEF OverlayInv, lg, w
      <4>2. e.kept => k0 \in DOMAIN overlay'[w]
        BY <1>22, <1>10
      <4>3. QED BY <4>1, <4>2, <3>4, <1>7, <1>8 DEF w
    <3>5. QED BY <3>3, <3>4
  <2>5. QED BY <2>3, <2>4, <1>1 DEF OverlayInv
<1>17. WorkerLogInv'
  <2>1. ASSUME NEW q \in Pos, NEW d \in log[q].deps
        PROVE  d \in 1..(q - 1) /\ d \in Pos /\ owner[d] = owner[q] /\ Finished(log[d])
               /\ d # p /\ log'[d] = log[d]
    BY <1>1, <1>8, EarlierPos DEF WorkerLogInv, lg
  <2>2. ASSUME NEW q \in Pos, q # p
        PROVE  /\ WellFormed(log'[q], q, entry[q], snapshot)
               /\ HitsExplained(log'[q], q, snapshot, log')
               /\ \A d \in log'[q].deps :
                    d \in 1..(q - 1) /\ owner[d] = owner[q] /\ Finished(log'[d])
    <3>1. log'[q] = log[q]
      BY <2>2, <1>8
    <3>2. HitsExplained(log[q], q, snapshot, log')
      BY <2>1 DEF WorkerLogInv, HitsExplained
    <3>3. QED BY <2>1, <3>1, <3>2 DEF WorkerLogInv
  <2>3. a0 \notin {Miss, p} /\ k0 \notin DOMAIN snapshot =>
          /\ a0 \in new.deps /\ a0 \in 1..(p - 1) /\ a0 # p
          /\ owner[a0] = w /\ Finished(log[a0]) /\ log'[a0] = log[a0]
          /\ k0 \in KeptKeys(log[a0].trace)
    <3> SUFFICES ASSUME a0 \notin {Miss, p}, k0 \notin DOMAIN snapshot
                 PROVE  /\ a0 \in new.deps /\ a0 \in 1..(p - 1) /\ a0 # p
                        /\ owner[a0] = w /\ Finished(log[a0]) /\ log'[a0] = log[a0]
                        /\ k0 \in KeptKeys(log[a0].trace)
      OBVIOUS
    <3>1. k0 \in DOMAIN ov /\ a0 = ov[k0]
      BY <1>9
    <3>2. a0 \in Pos /\ owner[a0] = w /\ k0 \in KeptKeys(log[a0].trace)
      BY <3>1, <1>1 DEF OverlayInv, ov
    <3>3. a0 < p /\ Finished(log[a0])
      BY <3>2, <1>13
    <3>4. a0 \in 1..(p - 1)
      BY <3>2, <3>3 DEF Pos
    <3>5. QED BY <3>2, <3>3, <3>4, <1>8, <1>11
  <2>4. ASSUME NEW i \in DOMAIN new.trace
        PROVE  LET a == new.trace[i].answer
                   k == KeyAt[new.trace[i].loc]
               IN  a \notin {Miss, p} =>
                     \/ k \in DOMAIN snapshot /\ a = snapshot[k]
                     \/ a \in new.deps /\ k \in KeptKeys(log'[a].trace)
    <3>1. CASE i \in DOMAIN lg.trace
      <4>1. new.trace[i] = lg.trace[i] /\ lg.deps \subseteq new.deps
        BY <3>1, <1>7, <1>11
      <4>2. QED BY <3>1, <4>1, <2>1 DEF WorkerLogInv, HitsExplained, lg
    <3>2. CASE i = Len(lg.trace) + 1
      <4>1. new.trace[i].answer = a0 /\ KeyAt[new.trace[i].loc] = k0
        BY <3>2, <1>7, <1>5 DEF k0
      <4>2. QED BY <4>1, <2>3, <1>9
    <3>3. QED BY <3>1, <3>2, <1>7
  <2>5. ASSUME NEW d \in new.deps
        PROVE  d \in 1..(p - 1) /\ owner[d] = owner[p] /\ Finished(log'[d])
    <3>1. CASE d \in log[p].deps
      BY <3>1, <2>1
    <3>2. CASE d \notin log[p].deps
      BY <3>2, <2>3, <2>5, <1>11 DEF lg, w
    <3>3. QED BY <3>1, <3>2
  <2>6. HitsExplained(log'[p], p, snapshot, log')
    BY <2>4, <1>8 DEF HitsExplained
  <2>7. ASSUME NEW q \in Pos
        PROVE  /\ WellFormed(log'[q], q, entry[q], snapshot)
               /\ HitsExplained(log'[q], q, snapshot, log')
               /\ \A d \in log'[q].deps :
                    d \in 1..(q - 1) /\ owner[d] = owner[q] /\ Finished(log'[d])
    <3>1. CASE q = p
      BY <3>1, <2>5, <2>6, <1>6, <1>8
    <3>2. QED BY <3>1, <2>2
  <2>8. QED BY <2>7, <1>1 DEF WorkerLogInv
<1>18. PhaseInv'
  BY <1>1, <1>2, <1>4 DEF PhaseInv
<1>19. ApplyInv' /\ CommittedInv'
  BY <1>1, <1>2, <1>4 DEF ApplyInv, CommittedInv, Applying, Pos
<1>20. CachesInv' /\ LiveLogInv' /\ SerialEquivalence'
  BY <1>1, WalkUntouched
<1>21. QED BY <1>14, <1>15, <1>16, <1>17, <1>18, <1>19, <1>20

\* Joining the workers preserves the invariant: every position was handed out
\* and no worker is busy, so every log is finished.
LEMMA JoinStep ==
    ASSUME IInv, Join
    PROVE  IInv'
<1> USE DEF IInv
<1>1. /\ UNCHANGED <<entry, snapshot, workerVars>> /\ UNCHANGED <<walkVars, replayVars>>
      /\ phase = "check" /\ phase' = "commit" /\ nextIndex = N + 1
      /\ \A w \in Worker : \A p \in Pos : owner[p] = w => Finished(log[p])
  BY DEF Join, Busy
<1>2. UNCHANGED <<nextIndex, owner, overlay, log, caches, published, dirty, frontier,
                  coord, work, cursor, result, submitted, replay>>
  BY <1>1 DEF workerVars, walkVars, replayVars
<1>3. \A p \in Pos : Finished(log[p])
  <2>1. \A p \in Pos : p < nextIndex
    BY <1>1, NAssumption DEF Pos
  <2>2. QED BY <2>1, <1>1 DEF DispatchInv
<1>4. TypeOK' /\ PhaseInv'
  BY <1>1, <1>2, <1>3 DEF TypeOK, PhaseInv
<1>5. ApplyInv' /\ CommittedInv'
  BY <1>1, <1>2 DEF ApplyInv, CommittedInv, Applying, PhaseInv, Pos
<1>6. QED BY <1>1, <1>4, <1>5, WalkUntouched, WorkersUntouched

\* Submitting a replay preserves the invariant.
LEMMA SubmitStep ==
    ASSUME IInv, NEW p \in Pos, Submit(p)
    PROVE  IInv'
<1> USE DEF IInv
<1>1. /\ UNCHANGED <<entry, snapshot, workerVars>> /\ UNCHANGED <<phase, walkVars, replay>>
      /\ phase = "commit" /\ coord = "top" /\ p >= frontier
      /\ submitted' = submitted \cup {p}
  BY DEF Submit
<1>2. UNCHANGED <<nextIndex, owner, overlay, log, caches, published, dirty, frontier,
                  coord, work, cursor, result>>
  BY <1>1 DEF workerVars, walkVars
<1>3. TypeOK'
  BY <1>1, <1>2 DEF TypeOK
<1>4. PhaseInv' /\ CachesInv' /\ ApplyInv' /\ CommittedInv' /\ SerialEquivalence'
  <2>1. PhaseInv' /\ CachesInv' /\ ApplyInv'
    BY <1>1, <1>2 DEF PhaseInv, CachesInv, ApplyInv, Applying
  <2>2. CommittedInv'
    BY <1>1, <1>2 DEF CommittedInv
  <2>3. SerialEquivalence'
    BY <1>1, <1>2 DEF SerialEquivalence, Before, PublishedBy
  <2>4. QED BY <2>1, <2>2, <2>3
<1>5. LiveLogInv'
  <2>1. ~(p < frontier)
    BY <1>1, MissIsNoPublisher DEF TypeOK
  <2>2. QED BY <2>1, <1>1, <1>2 DEF LiveLogInv
<1>6. QED BY <1>1, <1>3, <1>4, <1>5, WorkersUntouched

\* The caches hold nothing of the position that is at, or after, the frontier
\* until its log is applied.
LEMMA CachesBelow ==
    ASSUME IInv, NEW p \in Pos, frontier <= p, p = frontier => ~Applying
    PROVE  \A k \in DOMAIN caches : caches[k] < p /\ caches[k] # p
<1>1. frontier \in Nat /\ p \in Nat /\ p >= 1
  BY NAssumption DEF IInv, TypeOK, Pos
<1>2. ASSUME NEW k \in DOMAIN caches PROVE caches[k] < p /\ caches[k] # p
  <2>1. CASE k \in DOMAIN snapshot
    BY <2>1, <1>1 DEF IInv, CachesInv, BasePublisher
  <2>2. CASE k \notin DOMAIN snapshot
    <3>1. caches[k] \in Nat /\ caches[k] <= frontier /\ (caches[k] = frontier => Applying)
      BY <2>2, MissIsNoPublisher DEF IInv, CachesInv
    <3>2. QED BY <3>1, <1>1
  <2>3. QED BY <2>1, <2>2
<1>3. QED BY <1>2

\* One operation of a live-reading session on the caches keeps its log well
\* formed with hits in the caches; new misses are not in the caches.
LEMMA LiveOperation ==
    ASSUME CapNotReached, IInv, NEW p \in Pos, NEW lg \in Log,
           WellFormed(lg, p, entry[p], snapshot), HitsIn(lg, p, caches), ~Finished(lg),
           \A k \in DOMAIN caches : caches[k] < p /\ caches[k] # p
    PROVE  /\ PerformedLive(p, lg) \in Log
           /\ WellFormed(PerformedLive(p, lg), p, entry[p], snapshot)
           /\ HitsIn(PerformedLive(p, lg), p, caches)
           /\ MissesOutside(lg, caches) => MissesOutside(PerformedLive(p, lg), caches)
<1> DEFINE ov  == OwnOverlay(p, lg)
           new == Performed(caches, ov, p, lg)
           e   == NextEvent(caches, ov, lg)
           k0  == KeyAt[lg.loc]
<1>1. /\ caches \in Caches /\ snapshot \in Caches /\ entry[p] \in Loc
      /\ DOMAIN snapshot \subseteq DOMAIN caches
  BY DEF IInv, TypeOK, CachesInv
<1>2. /\ ov \in Caches /\ DOMAIN ov = KeptKeys(lg.trace)
      /\ \A k \in DOMAIN ov : ov[k] = p
  BY OwnOverlayType
<1>3. new \in Log /\ e \in Event /\ new.trace = Append(lg.trace, e)
  BY <1>1, <1>2, PerformedType
<1>4. WellFormed(new, p, entry[p], snapshot)
  BY <1>1, <1>2, PerformedWellFormed
<1>5. /\ DOMAIN lg.trace = 1..Len(lg.trace) /\ Len(lg.trace) \in Nat
      /\ DOMAIN new.trace = 1..(Len(lg.trace) + 1)
      /\ \A i \in 1..Len(lg.trace) : new.trace[i] = lg.trace[i]
      /\ new.trace[Len(lg.trace) + 1] = e
  <2>1. lg.trace \in Seq(Event)
    BY DEF Log
  <2>2. QED BY <2>1, <1>3, KeptAppend
<1>6. /\ e.answer = IF k0 \in DOMAIN caches THEN caches[k0]
                    ELSE IF k0 \in DOMAIN ov THEN ov[k0] ELSE Miss
      /\ KeyAt[e.loc] = k0
  BY DEF NextEvent, AnswerOf
<1>7. e.answer \notin {Miss, p} => e.answer < p /\ k0 \in DOMAIN caches /\ caches[k0] = e.answer
  BY <1>2, <1>6
<1>8. e.answer = Miss => k0 \notin DOMAIN caches
  BY <1>1, <1>6, CachesElim, MissIsNoPublisher
<1> HIDE DEF ov, new, e, k0
<1>9. \A i \in DOMAIN new.trace : i \in DOMAIN lg.trace \/ i = Len(lg.trace) + 1
  BY <1>5
<1>10. HitsIn(new, p, caches)
  BY <1>5, <1>6, <1>7, <1>9 DEF HitsIn
<1>11. MissesOutside(lg, caches) => MissesOutside(new, caches)
  BY <1>5, <1>6, <1>8, <1>9 DEF MissesOutside
<1>12. QED BY <1>3, <1>4, <1>10, <1>11 DEF PerformedLive, new, ov

\* One operation of a replay preserves the invariant.
LEMMA ReplayStepOK ==
    ASSUME CapNotReached, IInv, NEW p \in Pos, ReplayStep(p)
    PROVE  IInv'
<1> USE DEF IInv
<1>1. /\ UNCHANGED <<entry, snapshot, workerVars>> /\ UNCHANGED <<phase, walkVars, submitted>>
      /\ p \in submitted /\ ~Finished(replay[p])
      /\ replay' = [replay EXCEPT ![p] = PerformedLive(p, replay[p])]
  BY DEF ReplayStep
<1>2. UNCHANGED <<nextIndex, owner, overlay, log, caches, published, dirty, frontier,
                  coord, work, cursor, result>>
  BY <1>1 DEF workerVars, walkVars
<1>3. replay \in [Pos -> Log] /\ frontier \in Nat /\ p \in Nat
  BY MissIsNoPublisher, NAssumption DEF TypeOK
<1>4. frontier <= p /\ (p = frontier => ~Applying)
  BY <1>1, <1>3 DEF LiveLogInv, Applying
<1>5. /\ PerformedLive(p, replay[p]) \in Log
      /\ WellFormed(PerformedLive(p, replay[p]), p, entry[p], snapshot)
      /\ HitsIn(PerformedLive(p, replay[p]), p, caches)
  <2>1. \A k \in DOMAIN caches : caches[k] < p /\ caches[k] # p
    BY <1>4, CachesBelow
  <2>2. QED BY <2>1, <1>1, <1>3, LiveOperation DEF LiveLogInv
<1>6. TypeOK'
  <2>1. replay' \in [Pos -> Log]
    BY <1>1, <1>3, <1>5
  <2>2. QED BY <2>1, <1>1, <1>2 DEF TypeOK
<1>7. LiveLogInv'
  <2>1. ASSUME NEW q \in Pos
        PROVE  /\ WellFormed(replay'[q], q, entry[q], snapshot)
               /\ HitsIn(replay'[q], q, caches)
               /\ q \in submitted /\ (q < frontier \/ (q = frontier /\ coord # "top"))
                    => Finished(replay'[q])
    <3>1. CASE q = p
      BY <3>1, <1>1, <1>3, <1>5 DEF LiveLogInv
    <3>2. CASE q # p
      BY <3>2, <1>1, <1>3 DEF LiveLogInv
    <3>3. QED BY <3>1, <3>2
  <2>2. QED BY <2>1, <1>1, <1>2 DEF LiveLogInv
<1>8. PhaseInv' /\ CachesInv' /\ ApplyInv' /\ CommittedInv' /\ SerialEquivalence'
  <2>1. PhaseInv' /\ CachesInv'
    BY <1>1, <1>2 DEF PhaseInv, CachesInv, Applying
  <2>2. ApplyInv'
    BY <1>1, <1>2 DEF ApplyInv, Applying, Before, PublishedBy
  <2>3. CommittedInv' /\ SerialEquivalence'
    BY <1>1, <1>2 DEF CommittedInv, SerialEquivalence, Before, PublishedBy
  <2>4. QED BY <2>1, <2>2, <2>3
<1>9. QED BY <1>1, <1>6, <1>7, <1>8, WorkersUntouched

-----------------------------------------------------------------------------
\* Starting to apply a log preserves the invariant when the log is finished,
\* its misses are not in the caches and its hits are: this is what the two
\* validation checks, and a recheck on the live caches, establish.
LEMMA ApplyStep ==
    ASSUME CapNotReached, IInv, NEW lg \in Log,
           NEW how \in {"apply_clean", "apply_replay", "apply_recheck"},
           frontier \in Pos, phase = "commit", coord \in {"top", "recheck"},
           frontier \in submitted => Finished(replay[frontier]),
           WellFormed(lg, frontier, entry[frontier], snapshot), Finished(lg),
           MissesOutside(lg, caches), HitsIn(lg, frontier, caches),
           Apply(lg, how),
           dirty \subseteq dirty', dirty' \subseteq dirty \cup {frontier},
           frontier \notin dirty' => lg.trace = log[frontier].trace,
           UNCHANGED <<entry, snapshot, workerVars>>,
           UNCHANGED <<phase, caches, published, frontier, replayVars>>
    PROVE  IInv'
<1> USE DEF IInv
<1>1. /\ coord' = how /\ work' = lg /\ cursor' = 1
      /\ result' = [result EXCEPT ![frontier] = lg.trace]
  BY DEF Apply
<1>2. UNCHANGED <<nextIndex, owner, overlay, log, submitted, replay>>
  BY DEF workerVars, replayVars
<1>3. /\ caches \in Caches /\ snapshot \in Caches /\ entry[frontier] \in Loc
      /\ result \in [Pos -> Seq(Event)] /\ lg.trace \in Seq(Event) /\ frontier \in Nat
      /\ dirty \subseteq Pos /\ lg.inserts \in Seq(Key)
  BY MissIsNoPublisher DEF TypeOK, Log
<1>4. Applying' /\ ~Applying
  BY <1>1 DEF Applying
<1>5. \A k \in DOMAIN caches : caches[k] < frontier /\ caches[k] # frontier
  BY <1>3, <1>4, CachesBelow
<1>6. Before(frontier) = caches
  BY <1>5, BeforeIsCaches
<1>7. IsSerialRun(lg.trace, frontier, entry[frontier], caches)
  BY <1>3, ValidLogIsSerialRun
<1>8. /\ result'[frontier] = lg.trace
      /\ \A p \in Pos : p # frontier => result'[p] = result[p]
  BY <1>1, <1>3
<1>9. TypeOK'
  <2>1. result' \in [Pos -> Seq(Event)] /\ dirty' \subseteq Pos
    BY <1>1, <1>3
  <2>2. cursor' \in Nat \ {0} /\ work' \in Log
    BY <1>1
  <2>3. coord' \in {"top", "recheck", "apply_clean", "apply_replay", "apply_recheck"}
    BY <1>1
  <2>4. QED BY <2>1, <2>2, <2>3, <1>2 DEF TypeOK
<1>10. PhaseInv' /\ CachesInv'
  <2>1. PhaseInv'
    BY <1>2 DEF PhaseInv
  <2>2. CachesInv'
    BY <1>4 DEF CachesInv
  <2>3. QED BY <2>1, <2>2
<1>11. LiveLogInv'
  <2>1. ASSUME NEW p \in Pos, p \in submitted, p < frontier \/ p = frontier
        PROVE  Finished(replay[p])
    BY <2>1 DEF LiveLogInv
  <2>2. QED BY <2>1, <1>1, <1>2 DEF LiveLogInv
<1>12. ApplyInv'
  <2>1. ASSUME NEW j \in DOMAIN lg.inserts
        PROVE  lg.inserts[j] \notin DOMAIN caches /\ ~(j < 1)
    <3>1. lg.inserts[j] \in KeptKeys(lg.trace) /\ j \in 1..Len(lg.inserts)
      BY <1>3 DEF WellFormed
    <3>2. PICK i \in DOMAIN lg.trace : Kept(lg.trace, i, lg.inserts[j])
      BY <3>1 DEF KeptKeys
    <3>3. lg.trace[i].answer = Miss /\ KeyAt[lg.trace[i].loc] = lg.inserts[j]
      BY <3>2 DEF Kept, WellFormed
    <3>4. QED BY <3>1, <3>2, <3>3 DEF MissesOutside
  <2>2. PublishedBy(frontier) = {}
    BY <1>5 DEF PublishedBy
  <2>3. PublishedBy(frontier)' = {} /\ Before(frontier)' = caches
    BY <2>2, <1>6 DEF PublishedBy, Before
  <2>4. 1 <= Len(lg.inserts) + 1
    BY <1>3
  <2>5. QED BY <2>1, <2>3, <2>4, <1>1, <1>2, <1>7, <1>8 DEF ApplyInv
<1>13. CommittedInv'
  <2>1. \A p \in Pos : p < frontier /\ p \notin dirty' => result'[p] = log[p].trace
    BY <1>3, <1>8, MissIsNoPublisher DEF CommittedInv
  <2>2. \A p \in dirty' : p <= frontier
    <3>1. \A p \in dirty : p <= frontier
      BY DEF CommittedInv
    <3>2. frontier <= frontier
      BY <1>3
    <3>3. QED BY <3>1, <3>2
  <2>3. coord' # "top" /\ coord' # "recheck"
    BY <1>1
  <2>4. QED BY <2>1, <2>2, <2>3, <1>2 DEF CommittedInv
<1>14. SerialEquivalence'
  <2>1. ASSUME NEW p \in Pos, p < frontier
        PROVE  result'[p] = result[p] /\ Before(p)' = Before(p)
               /\ PublishedBy(p)' = PublishedBy(p)
    BY <2>1, <1>3, <1>8, MissIsNoPublisher DEF Before, PublishedBy
  <2>2. QED BY <2>1 DEF SerialEquivalence
<1>15. QED BY <1>9, <1>10, <1>11, <1>12, <1>13, <1>14, WorkersUntouched

\* Publishing a worker's log that passed both checks preserves the invariant.
LEMMA CommitCleanStep ==
    ASSUME CapNotReached, IInv, CommitClean
    PROVE  IInv'
<1> DEFINE lg == log[frontier]
<1>1. /\ UNCHANGED <<entry, snapshot, workerVars>>
      /\ UNCHANGED <<phase, caches, published, frontier, replayVars>>
      /\ dirty' = dirty
      /\ phase = "commit" /\ coord = "top" /\ frontier \in Pos
      /\ frontier \in submitted => Finished(replay[frontier])
      /\ Apply(lg, "apply_clean")
      /\ lg.misses \cap published = {} /\ lg.deps \cap dirty = {}
  BY DEF CommitClean, AtFrontier, CleanVerdict, MissConflict, DependencyConflict
<1>2. /\ WellFormed(lg, frontier, entry[frontier], snapshot)
      /\ HitsExplained(lg, frontier, snapshot, log)
      /\ \A q \in lg.deps : q \in 1..(frontier - 1)
      /\ Finished(lg) /\ lg \in Log
  BY <1>1 DEF IInv, WorkerLogInv, PhaseInv, TypeOK
<1>3. MissesOutside(lg, caches)
  <2>1. ASSUME NEW i \in DOMAIN lg.trace, lg.trace[i].answer = Miss
        PROVE  KeyAt[lg.trace[i].loc] \notin DOMAIN caches
    <3> DEFINE k == KeyAt[lg.trace[i].loc]
    <3>1. Digest[k] \in lg.misses /\ k \notin DOMAIN snapshot
      BY <2>1, <1>2 DEF WellFormed
    <3>2. k \in DOMAIN caches => Digest[k] \in published
      BY <3>1 DEF IInv, CachesInv
    <3>3. QED BY <3>1, <3>2, <1>1
  <2>2. QED BY <2>1 DEF MissesOutside
<1>4. HitsIn(lg, frontier, caches)
  <2>1. ASSUME NEW i \in DOMAIN lg.trace, lg.trace[i].answer \notin {Miss, frontier}
        PROVE  LET a == lg.trace[i].answer
                   k == KeyAt[lg.trace[i].loc]
               IN  a < frontier /\ k \in DOMAIN caches /\ caches[k] = a
    <3> DEFINE a == lg.trace[i].answer
               k == KeyAt[lg.trace[i].loc]
    <3>1. CASE k \in DOMAIN snapshot /\ a = snapshot[k]
      BY <3>1, <1>1, NAssumption DEF IInv, CachesInv, Pos, BasePublisher
    <3>2. CASE a \in lg.deps /\ k \in KeptKeys(log[a].trace)
      <4>1. a \in Pos /\ a < frontier /\ a \notin dirty
        BY <3>2, <1>1, <1>2, EarlierPos
      <4>2. result[a] = log[a].trace
        BY <4>1 DEF IInv, CommittedInv
      <4>3. PublishedBy(a) = KeptKeys(result[a])
        BY <4>1 DEF IInv, SerialEquivalence
      <4>4. k \in PublishedBy(a)
        BY <3>2, <4>2, <4>3
      <4>5. QED BY <4>1, <4>4 DEF PublishedBy
    <3>3. QED BY <3>1, <3>2, <2>1, <1>2 DEF HitsExplained
  <2>2. QED BY <2>1 DEF HitsIn
<1> HIDE DEF lg
<1>5. lg.trace = log[frontier].trace
  BY DEF lg
<1>6. QED BY <1>1, <1>2, <1>3, <1>4, <1>5, ApplyStep

\* Publishing a replay's log that has no miss conflict preserves the
\* invariant: all its hits are final.
LEMMA CommitReplayStep ==
    ASSUME CapNotReached, IInv, CommitReplay
    PROVE  IInv'
<1> DEFINE lg == replay[frontier]
<1>1. /\ UNCHANGED <<entry, snapshot, workerVars>>
      /\ UNCHANGED <<phase, caches, published, frontier, replayVars>>
      /\ dirty' = dirty \cup {frontier}
      /\ phase = "commit" /\ coord = "top" /\ frontier \in Pos
      /\ Finished(lg)
      /\ Apply(lg, "apply_replay")
      /\ lg.misses \cap published = {}
  BY DEF CommitReplay, AtFrontier, ReplayValid, MissConflict
<1>2. /\ WellFormed(lg, frontier, entry[frontier], snapshot)
      /\ HitsIn(lg, frontier, caches) /\ lg \in Log
  BY <1>1 DEF IInv, LiveLogInv, TypeOK
<1>3. MissesOutside(lg, caches)
  <2>1. ASSUME NEW i \in DOMAIN lg.trace, lg.trace[i].answer = Miss
        PROVE  KeyAt[lg.trace[i].loc] \notin DOMAIN caches
    <3> DEFINE k == KeyAt[lg.trace[i].loc]
    <3>1. Digest[k] \in lg.misses /\ k \notin DOMAIN snapshot
      BY <2>1, <1>2 DEF WellFormed
    <3>2. k \in DOMAIN caches => Digest[k] \in published
      BY <3>1 DEF IInv, CachesInv
    <3>3. QED BY <3>1, <3>2, <1>1
  <2>2. QED BY <2>1 DEF MissesOutside
<1>4. Finished(replay[frontier])
  BY <1>1
<1> HIDE DEF lg
<1>5. QED BY <1>1, <1>2, <1>3, <1>4, ApplyStep

\* Publishing the log of an inline recheck preserves the invariant.
LEMMA RecheckDoneStep ==
    ASSUME CapNotReached, IInv, RecheckDone
    PROVE  IInv'
<1>1. /\ UNCHANGED <<entry, snapshot, workerVars>>
      /\ UNCHANGED <<phase, caches, published, frontier, replayVars>>
      /\ dirty' = dirty /\ coord = "recheck" /\ Finished(work)
      /\ Apply(work, "apply_recheck")
  BY DEF RecheckDone
<1>2. /\ WellFormed(work, frontier, entry[frontier], snapshot)
      /\ HitsIn(work, frontier, caches) /\ MissesOutside(work, caches)
      /\ frontier \in Pos /\ work \in Log
      /\ frontier \in submitted => Finished(replay[frontier])
  BY <1>1 DEF IInv, LiveLogInv, TypeOK
<1>3. phase = "commit"
  BY <1>1 DEF IInv, PhaseInv, TypeOK
<1>4. frontier \notin dirty' => work.trace = log[frontier].trace
  BY <1>1, <1>2 DEF IInv, CommittedInv
<1>5. QED BY <1>1, <1>2, <1>3, <1>4, ApplyStep

-----------------------------------------------------------------------------
\* Beginning an inline recheck preserves the invariant.
LEMMA StartRecheckStep ==
    ASSUME IInv, StartRecheck
    PROVE  IInv'
<1> USE DEF IInv
<1>1. /\ UNCHANGED <<entry, snapshot, workerVars>>
      /\ UNCHANGED <<phase, caches, published, frontier, cursor, result, replayVars>>
      /\ dirty' = dirty \cup {frontier} /\ coord' = "recheck"
      /\ work' = FreshLog(frontier)
      /\ phase = "commit" /\ coord = "top" /\ frontier \in Pos
      /\ frontier \in submitted => Finished(replay[frontier])
  BY DEF StartRecheck, AtFrontier
<1>2. UNCHANGED <<nextIndex, owner, overlay, log, submitted, replay>>
  BY <1>1 DEF workerVars, replayVars
<1>3. /\ FreshLog(frontier) \in Log
      /\ WellFormed(FreshLog(frontier), frontier, entry[frontier], snapshot)
      /\ HitsIn(FreshLog(frontier), frontier, caches)
      /\ MissesOutside(FreshLog(frontier), caches)
  BY <1>1, FreshLogOK DEF TypeOK
<1>4. frontier \in Nat /\ ~Applying /\ ~Applying'
  BY <1>1, MissIsNoPublisher DEF Applying
<1>5. TypeOK'
  BY <1>1, <1>2, <1>3 DEF TypeOK
<1>6. PhaseInv' /\ CachesInv' /\ ApplyInv'
  <2>1. PhaseInv' /\ ApplyInv'
    BY <1>1, <1>2, <1>4 DEF PhaseInv, ApplyInv
  <2>2. CachesInv'
    BY <1>1, <1>4 DEF CachesInv
  <2>3. QED BY <2>1, <2>2
<1>7. LiveLogInv'
  <2>1. ASSUME NEW p \in Pos, p \in submitted, p < frontier \/ p = frontier
        PROVE  Finished(replay[p])
    BY <2>1, <1>1 DEF LiveLogInv
  <2>2. QED BY <2>1, <1>1, <1>2, <1>3 DEF LiveLogInv
<1>8. CommittedInv'
  <2>1. \A p \in dirty' : p <= frontier
    <3>1. \A p \in dirty : p <= frontier
      BY DEF CommittedInv
    <3>2. frontier <= frontier
      BY <1>4
    <3>3. QED BY <3>1, <3>2, <1>1
  <2>2. QED BY <2>1, <1>1, <1>2 DEF CommittedInv
<1>9. SerialEquivalence'
  BY <1>1 DEF SerialEquivalence, Before, PublishedBy
<1>10. QED BY <1>1, <1>5, <1>6, <1>7, <1>8, <1>9, WorkersUntouched

\* One operation of the inline recheck preserves the invariant: the caches
\* stand still while the coordinator reads them.
LEMMA RecheckStepOK ==
    ASSUME CapNotReached, IInv, RecheckStep
    PROVE  IInv'
<1> USE DEF IInv
<1>1. /\ UNCHANGED <<entry, snapshot, workerVars>>
      /\ UNCHANGED <<phase, caches, published, dirty, frontier, coord, cursor,
                     result, replayVars>>
      /\ coord = "recheck" /\ ~Finished(work)
      /\ work' = PerformedLive(frontier, work)
  BY DEF RecheckStep
<1>2. UNCHANGED <<nextIndex, owner, overlay, log, submitted, replay>>
  BY <1>1 DEF workerVars, replayVars
<1>3. /\ WellFormed(work, frontier, entry[frontier], snapshot)
      /\ HitsIn(work, frontier, caches) /\ MissesOutside(work, caches)
      /\ frontier \in Pos /\ work \in Log /\ frontier \in Nat
  BY <1>1, MissIsNoPublisher DEF LiveLogInv, TypeOK
<1>4. ~Applying /\ ~Applying'
  BY <1>1 DEF Applying
<1>5. /\ work' \in Log
      /\ WellFormed(work', frontier, entry[frontier], snapshot)
      /\ HitsIn(work', frontier, caches) /\ MissesOutside(work', caches)
  <2>1. \A k \in DOMAIN caches : caches[k] < frontier /\ caches[k] # frontier
    BY <1>3, <1>4, CachesBelow
  <2>2. QED BY <2>1, <1>1, <1>3, LiveOperation
<1>6. TypeOK'
  BY <1>1, <1>2, <1>5 DEF TypeOK
<1>7. PhaseInv' /\ CachesInv' /\ ApplyInv'
  <2>1. PhaseInv' /\ ApplyInv'
    BY <1>1, <1>2, <1>4 DEF PhaseInv, ApplyInv
  <2>2. CachesInv'
    BY <1>1, <1>4 DEF CachesInv
  <2>3. QED BY <2>1, <2>2
<1>8. LiveLogInv'
  BY <1>1, <1>2, <1>3, <1>5 DEF LiveLogInv
<1>9. CommittedInv'
  BY <1>1, <1>2 DEF CommittedInv
<1>10. SerialEquivalence'
  BY <1>1 DEF SerialEquivalence, Before, PublishedBy
<1>11. QED BY <1>1, <1>6, <1>7, <1>8, <1>9, <1>10, WorkersUntouched

\* While the cap is out of reach every insertion of a validated log can be
\* published.
LEMMA InsertionsFit ==
    ASSUME CapNotReached, IInv, Applying, cursor \in DOMAIN work.inserts
    PROVE  CanPublish(work.inserts[cursor]) /\ work.inserts[cursor] \in Key
<1> DEFINE k == work.inserts[cursor]
<1>1. work.inserts \in Seq(Key) /\ caches \in Caches /\ cursor \in Nat
  BY DEF IInv, TypeOK, Log
<1>2. k \in Key
  BY <1>1
<1>3. k \notin DOMAIN caches
  BY <1>1 DEF IInv, ApplyInv
<1>4. BucketLen(caches, k) < Cap
  <2>1. DOMAIN caches \in SUBSET Key
    BY <1>1, CachesElim
  <2>2. QED BY <2>1, <1>2, <1>3, RoomForKey DEF BucketLen
<1>5. QED BY <1>2, <1>3, <1>4 DEF CanPublish

\* Publishing one insertion preserves the invariant: what was published
\* before stays, and nothing that a log hit changes.
LEMMA ApplyEntryStep ==
    ASSUME CapNotReached, IInv, ApplyEntry
    PROVE  IInv'
<1> USE DEF IInv
<1> DEFINE k == work.inserts[cursor]
<1>1. /\ UNCHANGED <<entry, snapshot, workerVars>>
      /\ UNCHANGED <<phase, dirty, frontier, coord, work, result, replayVars>>
      /\ Applying /\ cursor \in DOMAIN work.inserts /\ cursor' = cursor + 1
      /\ caches' = WithEntry(caches, k, frontier)
      /\ published' = published \cup {Digest[k]}
  BY DEF ApplyEntry
<1>2. UNCHANGED <<nextIndex, owner, overlay, log, submitted, replay>>
  BY <1>1 DEF workerVars, replayVars
<1>3. k \in Key /\ k \notin DOMAIN caches
  BY <1>1, InsertionsFit DEF CanPublish
<1>4. /\ caches \in Caches /\ frontier \in Pos /\ frontier \in Publisher /\ frontier \in Nat
      /\ work.inserts \in Seq(Key) /\ cursor \in Nat \ {0}
  BY <1>1, MissIsNoPublisher DEF ApplyInv, TypeOK, Log, Publisher
<1> HIDE DEF k
<1>5. /\ caches' \in Caches /\ DOMAIN caches' = DOMAIN caches \cup {k}
      /\ caches'[k] = frontier
      /\ \A j \in DOMAIN caches : caches'[j] = caches[j]
  <2> DEFINE c == WithEntry(caches, k, frontier)
  <2>1. /\ c \in Caches /\ DOMAIN c = DOMAIN caches \cup {k}
        /\ c[k] = frontier
        /\ \A j \in DOMAIN caches : j # k => c[j] = caches[j]
    BY <1>3, <1>4, WithEntryType
  <2> HIDE DEF c
  <2>2. \A j \in DOMAIN caches : c[j] = caches[j]
    BY <2>1, <1>3
  <2>3. caches' = c
    BY <1>1 DEF c
  <2>4. QED BY <2>1, <2>2, <2>3
<1>6. Applying' /\ coord # "recheck" /\ coord # "top"
  BY <1>1 DEF Applying
<1>7. ASSUME NEW p \in Pos, p <= frontier
      PROVE  Before(p)' = Before(p) /\ (p < frontier => PublishedBy(p)' = PublishedBy(p))
  <2>1. p \in Nat
    BY MissIsNoPublisher
  <2>2. {j \in DOMAIN caches' : caches'[j] < p} = {j \in DOMAIN caches : caches[j] < p}
    BY <2>1, <1>3, <1>4, <1>5, <1>7
  <2>3. \A j \in {i \in DOMAIN caches : caches[i] < p} : caches'[j] = caches[j]
    BY <1>5
  <2>4. Before(p)' = Before(p)
    BY <2>2, <2>3 DEF Before
  <2>5. p < frontier => PublishedBy(p)' = PublishedBy(p)
    BY <2>1, <1>3, <1>4, <1>5 DEF PublishedBy
  <2>6. QED BY <2>4, <2>5
<1>8. PublishedBy(frontier)' = PublishedBy(frontier) \cup {k}
  BY <1>1, <1>3, <1>5 DEF PublishedBy
<1>9. TypeOK'
  <2>1. published' \subseteq {Digest[j] : j \in Key}
    BY <1>1, <1>3 DEF TypeOK
  <2>2. cursor' \in Nat \ {0}
    BY <1>1, <1>4
  <2>3. QED BY <2>1, <2>2, <1>1, <1>2, <1>5 DEF TypeOK
<1>10. PhaseInv'
  BY <1>1, <1>2 DEF PhaseInv
<1>11. CachesInv'
  <2>1. ASSUME NEW j \in DOMAIN snapshot
        PROVE  snapshot[j] = BasePublisher /\ j \in DOMAIN caches' /\ caches'[j] = BasePublisher
    BY <1>5 DEF CachesInv
  <2>2. ASSUME NEW j \in DOMAIN caches' \ DOMAIN snapshot
        PROVE  caches'[j] \in Pos /\ caches'[j] <= frontier /\ Digest[j] \in published'
    <3>1. CASE j = k
      BY <3>1, <1>1, <1>4, <1>5
    <3>2. CASE j # k
      BY <3>2, <2>2, <1>1, <1>5 DEF CachesInv
    <3>3. QED BY <3>1, <3>2
  <2>3. QED BY <2>1, <2>2, <1>1, <1>6 DEF CachesInv
<1>12. LiveLogInv'
  <2>1. ASSUME NEW p \in Pos PROVE HitsIn(replay[p], p, caches')
    <3>1. HitsIn(replay[p], p, caches)
      BY DEF LiveLogInv
    <3>2. QED BY <3>1, <1>5 DEF HitsIn
  <2>2. QED BY <2>1, <1>1, <1>2, <1>6 DEF LiveLogInv
<1>13. ApplyInv'
  <2>1. /\ WellFormed(work, frontier, entry[frontier], snapshot)
        /\ result[frontier] = work.trace
        /\ IsSerialRun(work.trace, frontier, entry[frontier], Before(frontier))
        /\ \A j \in DOMAIN work.inserts :
            IF j < cursor
            THEN work.inserts[j] \in DOMAIN caches /\ caches[work.inserts[j]] = frontier
            ELSE work.inserts[j] \notin DOMAIN caches
        /\ \A i \in PublishedBy(frontier) :
            \E j \in DOMAIN work.inserts : j < cursor /\ work.inserts[j] = i
        /\ frontier \notin dirty => work.trace = log[frontier].trace
    BY <1>1 DEF ApplyInv
  <2>2. Before(frontier)' = Before(frontier)
    <3>1. Before(frontier)' = [j \in {i \in DOMAIN caches' : caches'[i] < frontier} |-> caches'[j]]
      BY <1>1 DEF Before
    <3>2. {j \in DOMAIN caches' : caches'[j] < frontier} = {j \in DOMAIN caches : caches[j] < frontier}
      BY <1>3, <1>4, <1>5
    <3>3. QED BY <3>1, <3>2, <1>5 DEF Before
  <2>3. DOMAIN work.inserts = 1..Len(work.inserts) /\ Len(work.inserts) \in Nat
    BY <1>4
  <2>4. cursor + 1 <= Len(work.inserts) + 1
    BY <1>1, <1>4, <2>3
  <2>5. ASSUME NEW j \in DOMAIN work.inserts
        PROVE  IF j < cursor + 1
               THEN work.inserts[j] \in DOMAIN caches' /\ caches'[work.inserts[j]] = frontier
               ELSE work.inserts[j] \notin DOMAIN caches'
    <3>1. j \in Nat
      BY <2>3
    <3>2. CASE j = cursor
      BY <3>2, <1>4, <1>5 DEF k
    <3>3. CASE j < cursor
      BY <3>1, <3>3, <2>1, <1>4, <1>5
    <3>4. CASE j > cursor
      <4>1. work.inserts[j] # k
        BY <3>4, <3>1, <2>1, <1>1, <1>4 DEF k, WellFormed
      <4>2. QED BY <4>1, <3>1, <3>4, <2>1, <1>4, <1>5
    <3>5. QED BY <3>1, <3>2, <3>3, <3>4, <1>4
  <2>6. ASSUME NEW i \in PublishedBy(frontier)'
        PROVE  \E j \in DOMAIN work.inserts : j < cursor + 1 /\ work.inserts[j] = i
    <3>1. CASE i = k
      <4>1. cursor < cursor + 1 /\ work.inserts[cursor] = i
        BY <3>1, <1>4 DEF k
      <4>2. QED BY <4>1, <1>1
    <3>2. CASE i # k
      <4>1. PICK j \in DOMAIN work.inserts : j < cursor /\ work.inserts[j] = i
        BY <3>2, <2>6, <2>1, <1>8
      <4>2. j < cursor + 1
        BY <4>1, <2>3, <1>4
      <4>3. QED BY <4>1, <4>2
    <3>3. QED BY <3>1, <3>2
  <2>7. QED BY <2>1, <2>2, <2>4, <2>5, <2>6, <1>1, <1>2, <1>4 DEF ApplyInv
<1>14. CommittedInv'
  BY <1>1, <1>2 DEF CommittedInv
<1>15. SerialEquivalence'
  <2>1. ASSUME NEW p \in Pos, p < frontier
        PROVE  Before(p)' = Before(p) /\ PublishedBy(p)' = PublishedBy(p)
    BY <2>1, <1>4, <1>7, MissIsNoPublisher
  <2>2. QED BY <2>1, <1>1 DEF SerialEquivalence
<1>16. QED BY <1>1, <1>9, <1>10, <1>11, <1>12, <1>13, <1>14, <1>15, WorkersUntouched

\* Moving the frontier preserves the invariant: the position that was applied
\* has published what it kept.
LEMMA AdvanceFrontierStep ==
    ASSUME IInv, AdvanceFrontier
    PROVE  IInv'
<1> USE DEF IInv
<1>1. /\ UNCHANGED <<entry, snapshot, workerVars>>
      /\ UNCHANGED <<phase, caches, published, dirty, work, cursor, result, replayVars>>
      /\ Applying /\ cursor = Len(work.inserts) + 1
      /\ coord' = "top" /\ frontier' = frontier + 1
  BY DEF AdvanceFrontier
<1>2. UNCHANGED <<nextIndex, owner, overlay, log, submitted, replay>>
  BY <1>1 DEF workerVars, replayVars
<1>3. /\ frontier \in Pos /\ frontier \in Nat /\ Pos \subseteq Nat
      /\ caches \in Caches /\ work.inserts \in Seq(Key)
  BY <1>1, MissIsNoPublisher DEF ApplyInv, TypeOK, Log
<1>4. ~Applying' /\ coord # "top"
  BY <1>1 DEF Applying
<1>5. \A p \in Pos : p < frontier + 1 <=> p < frontier \/ p = frontier
  BY <1>3
<1>6. PublishedBy(frontier) = KeptKeys(result[frontier])
  <2>1. /\ WellFormed(work, frontier, entry[frontier], snapshot)
        /\ result[frontier] = work.trace
        /\ \A j \in DOMAIN work.inserts : j < cursor =>
            work.inserts[j] \in DOMAIN caches /\ caches[work.inserts[j]] = frontier
        /\ \A i \in PublishedBy(frontier) :
            \E j \in DOMAIN work.inserts : work.inserts[j] = i
    BY <1>1 DEF ApplyInv
  <2>2. \A j \in DOMAIN work.inserts : j < cursor
    BY <1>1, <1>3
  <2>3. PublishedBy(frontier) \subseteq KeptKeys(work.trace)
    BY <2>1 DEF WellFormed
  <2>4. KeptKeys(work.trace) \subseteq PublishedBy(frontier)
    BY <2>1, <2>2 DEF WellFormed, PublishedBy
  <2>5. QED BY <2>1, <2>3, <2>4
<1>7. TypeOK'
  <2>1. frontier' \in 1..(N + 1)
    BY <1>1, <1>3, NAssumption DEF Pos
  <2>2. QED BY <2>1, <1>1, <1>2 DEF TypeOK
<1>8. PhaseInv' /\ ApplyInv'
  BY <1>1, <1>2, <1>4 DEF PhaseInv, ApplyInv, TypeOK
<1>9. CachesInv'
  <2>1. ASSUME NEW k \in DOMAIN caches \ DOMAIN snapshot
        PROVE  caches[k] \in Pos /\ caches[k] <= frontier + 1 /\ caches[k] # frontier + 1
               /\ Digest[k] \in published
    <3>1. caches[k] \in Pos /\ caches[k] <= frontier /\ Digest[k] \in published
      BY DEF CachesInv
    <3>2. caches[k] \in Nat
      BY <3>1, <1>3
    <3>3. QED BY <3>1, <3>2, <1>3
  <2>2. QED BY <2>1, <1>1 DEF CachesInv
<1>10. LiveLogInv'
  <2>1. ASSUME NEW p \in Pos, p \in submitted, p < frontier + 1
        PROVE  Finished(replay[p])
    BY <2>1, <1>4, <1>5 DEF LiveLogInv
  <2>2. QED BY <2>1, <1>1, <1>2 DEF LiveLogInv
<1>11. CommittedInv'
  <2>1. ASSUME NEW p \in Pos, p < frontier + 1, p \notin dirty
        PROVE  result[p] = log[p].trace
    BY <2>1, <1>1, <1>5 DEF CommittedInv, ApplyInv
  <2>2. ASSUME NEW p \in dirty
        PROVE  p <= frontier + 1 /\ p # frontier + 1
    <3>1. p <= frontier /\ p \in Nat
      BY <1>3 DEF CommittedInv, TypeOK
    <3>2. QED BY <3>1, <1>3
  <2>3. QED BY <2>1, <2>2, <1>1, <1>2 DEF CommittedInv
<1>12. SerialEquivalence'
  <2>1. ASSUME NEW p \in Pos, p < frontier + 1
        PROVE  /\ IsSerialRun(result[p], p, entry[p], Before(p))
               /\ PublishedBy(p) = KeptKeys(result[p])
    <3>1. CASE p < frontier
      BY <3>1 DEF SerialEquivalence
    <3>2. CASE p = frontier
      BY <3>2, <1>1, <1>6 DEF ApplyInv
    <3>3. QED BY <3>1, <3>2, <2>1, <1>5
  <2>2. \A p \in Pos : Before(p)' = Before(p) /\ PublishedBy(p)' = PublishedBy(p)
    BY <1>1 DEF Before, PublishedBy
  <2>3. QED BY <2>1, <2>2, <1>1 DEF SerialEquivalence
<1>13. QED BY <1>1, <1>7, <1>8, <1>9, <1>10, <1>11, <1>12, WorkersUntouched

-----------------------------------------------------------------------------
\* Every step of the system preserves the inductive invariant.
LEMMA NextIInv ==
    ASSUME CapNotReached, IInv, [Next]_vars
    PROVE  IInv'
<1>1. CASE UNCHANGED vars
  <2>1. /\ UNCHANGED <<entry, snapshot, workerVars>> /\ UNCHANGED <<walkVars, replayVars>>
        /\ phase' = phase
    BY <1>1 DEF vars
  <2>2. UNCHANGED <<nextIndex, owner, overlay, log, caches, published, dirty, frontier,
                    coord, work, cursor, result, submitted, replay>>
    BY <2>1 DEF workerVars, walkVars, replayVars
  <2>3. TypeOK' /\ PhaseInv'
    BY <2>1, <2>2 DEF IInv, TypeOK, PhaseInv
  <2>4. ApplyInv' /\ CommittedInv'
    BY <2>1, <2>2 DEF IInv, ApplyInv, CommittedInv, Applying, Before, PublishedBy
  <2>5. QED BY <2>1, <2>3, <2>4, WalkUntouched, WorkersUntouched DEF IInv
<1>2. CASE \E w \in Worker : Dispatch(w)
  BY <1>2, DispatchStep
<1>3. CASE \E p \in Pos : WorkerStep(p) \/ Submit(p) \/ ReplayStep(p)
  BY <1>3, WorkerStepOK, SubmitStep, ReplayStepOK
<1>4. CASE Join
  BY <1>4, JoinStep
<1>5. CASE CommitClean \/ CommitReplay
  BY <1>5, CommitCleanStep, CommitReplayStep
<1>6. CASE StartRecheck \/ RecheckStep \/ RecheckDone
  BY <1>6, StartRecheckStep, RecheckStepOK, RecheckDoneStep
<1>7. CASE ApplyEntry \/ AdvanceFrontier
  BY <1>7, ApplyEntryStep, AdvanceFrontierStep
<1>8. ~SkipEntry
  BY InsertionsFit DEF SkipEntry
<1>9. CASE Terminated
  BY <1>9, <1>1 DEF Terminated
<1>10. QED
  BY <1>1, <1>2, <1>3, <1>4, <1>5, <1>6, <1>7, <1>8, <1>9 DEF Next, Walk

\* The inductive invariant holds in every behaviour.
LEMMA InductiveInvariant ==
    ASSUME CapNotReached
    PROVE  Spec => []IInv
<1>1. IInv /\ [Next]_vars => IInv'
  BY NextIInv
<1>2. QED BY <1>1, InitIInv, PTL DEF Spec

-----------------------------------------------------------------------------
\* Parallel checking is serial-equivalent (speculative/mod.rs): whatever the
\* number of files and workers, the program, the digest function and the
\* choice of replays, every committed position observed what a serial check
\* would have and published what that check would have inserted.
THEOREM SerialEquivalent ==
    ASSUME CapNotReached
    PROVE  Spec => []SerialEquivalence
<1>1. IInv => SerialEquivalence
  BY DEF IInv
<1>2. QED BY <1>1, InductiveInvariant, PTL

\* apply_file_log publishes the whole of every log the walk hands to it.
THEOREM PublishesCompletely ==
    ASSUME CapNotReached
    PROVE  Spec => []PublicationComplete
<1>1. IInv => PublicationComplete
  BY InsertionsFit DEF PublicationComplete
<1>2. QED BY <1>1, InductiveInvariant, PTL

\* Whatever a background replay hit while the walk was writing the caches is
\* what a serial run sees (replay.rs).
THEOREM ReplayHitsFinal ==
    ASSUME CapNotReached
    PROVE  Spec => []ReplayHitsAreFinal
<1>1. IInv => ReplayHitsAreFinal
  BY DEF IInv, TypeOK, LiveLogInv, HitsIn, ReplayHitsAreFinal
<1>2. QED BY <1>1, InductiveInvariant, PTL

\* An overlay dependency of a file is an earlier file that the same worker has
\* finished (session.rs).
THEOREM DependenciesEarlier ==
    ASSUME CapNotReached
    PROVE  Spec => []DepsAreEarlier
<1>1. IInv => DepsAreEarlier
  BY DEF IInv, WorkerLogInv, DepsAreEarlier
<1>2. QED BY <1>1, InductiveInvariant, PTL

-----------------------------------------------------------------------------
(* What holds for every cap. *)

\* The coordinator is past the top of the frontier loop only at a position.
Typed == TypeOK /\ (coord # "top" => frontier \in Pos)

\* Starting to apply a log keeps the types.
LEMMA ApplyTyped ==
    ASSUME TypeOK, NEW lg \in Log, frontier \in Pos, NEW how, Apply(lg, how)
    PROVE  work' \in Log /\ cursor' \in Nat \ {0} /\ result' \in [Pos -> Seq(Event)]
                /\ coord' = how
<1>1. lg.trace \in Seq(Event)
  BY DEF Log
<1>2. QED BY <1>1 DEF Apply, TypeOK

LEMMA TypedStep ==
    ASSUME Typed, [Next]_vars
    PROVE  Typed'
<1> USE NAssumption DEF Typed
<1>1. /\ entry \in [Pos -> Loc] /\ snapshot \in Caches /\ nextIndex \in 1..(N + 1)
      /\ owner \in [Pos -> Worker \cup {NoWorker}] /\ overlay \in [Worker -> Caches]
      /\ log \in [Pos -> Log] /\ caches \in Caches /\ work \in Log
      /\ submitted \subseteq Pos /\ replay \in [Pos -> Log] /\ frontier \in 1..(N + 1)
  BY DEF TypeOK
<1>2. \A p \in Pos : FreshLog(p) \in Log
  BY <1>1 DEF FreshLog, Log
<1>3. \A p \in Pos, lg \in Log : PerformedLive(p, lg) \in Log
  BY <1>1, OwnOverlayType, PerformedLog DEF PerformedLive
<1>4. CASE \E w \in Worker : Dispatch(w)
  <2>1. PICK w \in Worker : Dispatch(w)
    BY <1>4
  <2>2. owner' \in [Pos -> Worker \cup {NoWorker}] /\ nextIndex' \in 1..(N + 1)
    BY <1>1, <2>1 DEF Dispatch, Pos
  <2>3. QED BY <2>1, <2>2 DEF Dispatch, walkVars, replayVars, TypeOK
<1>5. CASE \E p \in Pos : WorkerStep(p)
  <2>1. PICK p \in Pos : WorkerStep(p)
    BY <1>5
  <2> DEFINE w == owner[p]
             new == Performed(snapshot, overlay[w], p, log[p])
             ov == OverlayAfter(snapshot, overlay[w], p, log[p].loc)
  <2>2. w \in Worker /\ overlay[w] \in Caches /\ log[p] \in Log
    BY <1>1, <2>1 DEF WorkerStep
  <2>3. new \in Log
    BY <1>1, <2>2, PerformedLog
  <2>4. KeyAt[log[p].loc] \in Key /\ p \in Publisher
    BY <2>2, ProgramAssumption DEF Log, Publisher
  <2>5. ov \in Caches
    BY <2>2, <2>4, WithEntryType DEF OverlayAfter
  <2>6. log' = [log EXCEPT ![p] = new] /\ overlay' = [overlay EXCEPT ![w] = ov]
    BY <2>1 DEF WorkerStep
  <2> HIDE DEF new, ov, w
  <2>7. log' \in [Pos -> Log] /\ overlay' \in [Worker -> Caches]
    BY <1>1, <2>2, <2>3, <2>5, <2>6
  <2>8. QED BY <2>1, <2>7 DEF WorkerStep, walkVars, replayVars, TypeOK
<1>6. CASE \E p \in Pos : Submit(p)
  BY <1>1, <1>6 DEF Submit, workerVars, walkVars, TypeOK
<1>7. CASE \E p \in Pos : ReplayStep(p)
  <2>1. PICK p \in Pos : ReplayStep(p)
    BY <1>7
  <2>2. replay' = [replay EXCEPT ![p] = PerformedLive(p, replay[p])]
    BY <2>1 DEF ReplayStep
  <2>3. PerformedLive(p, replay[p]) \in Log
    BY <1>1, <1>3
  <2>4. replay' \in [Pos -> Log]
    BY <1>1, <2>2, <2>3
  <2>5. QED BY <2>1, <2>4 DEF ReplayStep, workerVars, walkVars, TypeOK
<1>8. CASE Join
  BY <1>8 DEF Join, workerVars, walkVars, replayVars, TypeOK
<1>9. CASE CommitClean
  <2>1. frontier \in Pos /\ Apply(log[frontier], "apply_clean")
    BY <1>9 DEF CommitClean, AtFrontier
  <2>2. /\ work' \in Log /\ cursor' \in Nat \ {0} /\ result' \in [Pos -> Seq(Event)]
        /\ coord' = "apply_clean"
    BY <1>1, <2>1, ApplyTyped
  <2>3. QED BY <1>9, <2>1, <2>2 DEF CommitClean, workerVars, replayVars, TypeOK
<1>10. CASE CommitReplay
  <2>1. frontier \in Pos /\ Apply(replay[frontier], "apply_replay")
    BY <1>10 DEF CommitReplay, AtFrontier
  <2>2. /\ work' \in Log /\ cursor' \in Nat \ {0} /\ result' \in [Pos -> Seq(Event)]
        /\ coord' = "apply_replay"
    BY <1>1, <2>1, ApplyTyped
  <2>3. QED BY <1>10, <2>1, <2>2 DEF CommitReplay, workerVars, replayVars, TypeOK
<1>11. CASE StartRecheck
  <2>1. frontier \in Pos /\ work' \in Log
    BY <1>2, <1>11 DEF StartRecheck, AtFrontier
  <2>2. QED BY <1>11, <2>1 DEF StartRecheck, workerVars, replayVars, TypeOK
<1>12. CASE RecheckStep
  <2>1. frontier \in Pos /\ work' \in Log
    BY <1>1, <1>3, <1>12 DEF RecheckStep
  <2>2. QED BY <1>12, <2>1 DEF RecheckStep, workerVars, replayVars, TypeOK
<1>13. CASE RecheckDone
  <2>1. frontier \in Pos /\ Apply(work, "apply_recheck")
    BY <1>13 DEF RecheckDone
  <2>2. /\ work' \in Log /\ cursor' \in Nat \ {0} /\ result' \in [Pos -> Seq(Event)]
        /\ coord' = "apply_recheck"
    BY <1>1, <2>1, ApplyTyped
  <2>3. QED BY <1>13, <2>1, <2>2 DEF RecheckDone, workerVars, replayVars, TypeOK
<1>14. CASE ApplyEntry
  <2> DEFINE k == work.inserts[cursor]
  <2>1. frontier \in Pos /\ frontier \in Publisher /\ k \in Key
    BY <1>1, <1>14 DEF ApplyEntry, Applying, Log, Publisher
  <2>2. caches' \in Caches
    BY <1>1, <1>14, <2>1, WithEntryType DEF ApplyEntry
  <2>3. published' \subseteq {Digest[j] : j \in Key} /\ cursor' \in Nat \ {0}
    BY <1>14, <2>1 DEF ApplyEntry, TypeOK
  <2>4. QED BY <1>14, <2>1, <2>2, <2>3 DEF ApplyEntry, workerVars, replayVars, TypeOK
<1>15. CASE SkipEntry
  BY <1>15 DEF SkipEntry, workerVars, replayVars, TypeOK
<1>16. CASE AdvanceFrontier
  <2>1. frontier \in Pos
    BY <1>16 DEF AdvanceFrontier, Applying
  <2>2. frontier' \in 1..(N + 1) /\ coord' = "top"
    BY <1>16, <2>1 DEF AdvanceFrontier, Pos
  <2>3. QED BY <1>16, <2>2 DEF AdvanceFrontier, workerVars, replayVars, TypeOK
<1>17. CASE Terminated \/ UNCHANGED vars
  BY <1>17 DEF Terminated, vars, workerVars, walkVars, replayVars, TypeOK
<1>18. QED
  BY <1>4, <1>5, <1>6, <1>7, <1>8, <1>9, <1>10, <1>11, <1>12, <1>13, <1>14, <1>15, <1>16, <1>17
     DEF Next, Walk

LEMMA InitTyped == Init => Typed
<1> SUFFICES ASSUME Init PROVE Typed
  OBVIOUS
<1>1. TypeOK /\ coord = "top"
  <2>1. IInv
    BY InitIInv
  <2>2. QED BY <2>1 DEF IInv, Init
<1>2. QED BY <1>1 DEF Typed

\* Every variable of the parallel checker keeps its type, whatever the cap.
THEOREM TypeCorrect ==
    Spec => []TypeOK
<1>1. Typed => TypeOK
  BY DEF Typed
<1>2. QED BY <1>1, InitTyped, TypedStep, PTL DEF Spec

\* The keys a log inserts before its j-th insertion.
InsertedBefore(lg, j) == {lg.inserts[h] : h \in 1..(j - 1)}

\* The j-th insertion of lg is new to the caches c and has room in its bucket
\* once the insertions before it are in too.
Fits(lg, j, c) ==
    LET k == lg.inserts[j] IN
    /\ k \notin DOMAIN c
    /\ k \notin InsertedBefore(lg, j)
    /\ Cardinality(Bucketmates(k) \cap (DOMAIN c \cup InsertedBefore(lg, j))) < Cap

\* A recheck read the caches its log is applied to: what is left of the log
\* fits into them.
RecheckInv ==
    /\ coord = "recheck" =>
        /\ KeptKeys(work.trace) = {work.inserts[j] : j \in DOMAIN work.inserts}
        /\ \A j \in DOMAIN work.inserts : Fits(work, j, caches)
    /\ coord = "apply_recheck" =>
        \A j \in DOMAIN work.inserts : j >= cursor => Fits(work, j, caches)

\* An operation of a recheck keeps its log fitting.
LEMMA RecheckFits ==
    ASSUME Typed, RecheckInv, RecheckStep
    PROVE  RecheckInv'
<1> DEFINE ov == OwnOverlay(frontier, work)
           k == KeyAt[work.loc]
           kept == Keeps(caches, ov, work.loc)
           n == Len(work.inserts)
           e == NextEvent(caches, ov, work)
<1>1. /\ caches \in Caches /\ work \in Log /\ frontier \in Pos /\ coord = "recheck"
      /\ coord' = coord /\ caches' = caches
      /\ work' = Performed(caches, ov, frontier, work)
  BY DEF RecheckStep, PerformedLive, Typed, TypeOK
<1>2. /\ work.inserts \in Seq(Key) /\ work.loc \in Loc /\ k \in Key
      /\ work.trace \in Seq(Event)
  BY <1>1, ProgramAssumption DEF Log
<1>3. /\ ov \in Caches /\ DOMAIN ov = KeptKeys(work.trace)
      /\ DOMAIN caches \subseteq Key
  BY <1>1, OwnOverlayType, CachesElim
<1>4. /\ KeptKeys(work.trace) = {work.inserts[j] : j \in DOMAIN work.inserts}
      /\ \A j \in DOMAIN work.inserts : Fits(work, j, caches)
  BY <1>1 DEF RecheckInv
<1>5. e \in Event /\ work'.trace = Append(work.trace, e)
      /\ e.loc = work.loc /\ e.kept = kept
  BY <1>1, <1>3, PerformedLog DEF NextEvent
<1>6. work'.inserts = IF kept THEN Append(work.inserts, k) ELSE work.inserts
  BY <1>1 DEF Performed
<1>7. KeptKeys(work'.trace) = KeptKeys(work.trace) \cup {j \in Key : kept /\ k = j}
  BY <1>2, <1>5, KeptAppend
<1>8. CASE ~kept
  <2>1. work'.inserts = work.inserts /\ KeptKeys(work'.trace) = KeptKeys(work.trace)
    BY <1>6, <1>7, <1>8
  <2>2. \A j : InsertedBefore(work', j) = InsertedBefore(work, j)
    BY <2>1 DEF InsertedBefore
  <2>3. \A j \in DOMAIN work'.inserts : Fits(work', j, caches)
    BY <1>4, <2>1, <2>2 DEF Fits
  <2>4. QED BY <1>1, <1>4, <2>1, <2>3 DEF RecheckInv
<1>9. CASE kept
  <2>1. k \notin DOMAIN caches /\ k \notin DOMAIN ov
    BY <1>1, <1>3, <1>9, MissedNowhere DEF Keeps
  <2>2. BucketLen(caches, k) + BucketLen(ov, k) < Cap
    BY <1>9 DEF Keeps
  <2> HIDE DEF kept, e
  <2>3. /\ n \in Nat /\ DOMAIN work.inserts = 1..n /\ DOMAIN work'.inserts = 1..(n + 1)
        /\ work'.inserts[n + 1] = k
        /\ \A j \in 1..n : work'.inserts[j] = work.inserts[j]
    BY <1>2, <1>6, <1>9
  <2> HIDE DEF n, k
  <2>4. InsertedBefore(work', n + 1) = DOMAIN ov
    BY <1>3, <1>4, <2>3 DEF InsertedBefore
  <2>5. \A j \in 1..n : InsertedBefore(work', j) = InsertedBefore(work, j)
    BY <2>3 DEF InsertedBefore
  <2>6. \A j \in 1..n : Fits(work', j, caches)
    BY <1>4, <2>3, <2>5 DEF Fits
  <2>7. Cardinality(Bucketmates(k) \cap (DOMAIN caches \cup DOMAIN ov)) < Cap
    <3> DEFINE A == Bucketmates(k) \cap DOMAIN caches
               B == Bucketmates(k) \cap DOMAIN ov
    <3>1. IsFiniteSet(A) /\ IsFiniteSet(B)
      BY FS_Subset, KeyAssumption DEF Bucketmates
    <3>2. /\ Cardinality(A) \in Nat /\ Cardinality(B) \in Nat /\ Cardinality(A \cap B) \in Nat
          /\ Cardinality(A \cup B) = Cardinality(A) + Cardinality(B) - Cardinality(A \cap B)
      BY <3>1, FS_Union, FS_Intersection, FS_CardinalityType
    <3>3. A \cup B = Bucketmates(k) \cap (DOMAIN caches \cup DOMAIN ov)
      OBVIOUS
    <3>4. Cardinality(A) + Cardinality(B) < Cap
      BY <2>2 DEF BucketLen
    <3> HIDE DEF A, B
    <3>5. Cardinality(A \cup B) < Cap
      BY <3>2, <3>4, CapAssumption
    <3>6. QED BY <3>3, <3>5
  <2>8. Fits(work', n + 1, caches)
    BY <2>1, <2>3, <2>4, <2>7 DEF Fits
  <2>9. \A j \in 1..(n + 1) : Fits(work', j, caches)
    BY <2>3, <2>6, <2>8
  <2>10. KeptKeys(work'.trace) = {work'.inserts[j] : j \in 1..(n + 1)}
    <3>1. KeptKeys(work'.trace) = {work.inserts[j] : j \in 1..n} \cup {k}
      BY <1>2, <1>4, <1>7, <1>9, <2>3
    <3>2. \A j \in 1..(n + 1) : j \in 1..n \/ j = n + 1
      BY <2>3
    <3>3. 1..n \subseteq 1..(n + 1) /\ n + 1 \in 1..(n + 1)
      BY <2>3
    <3>4. QED BY <2>3, <3>1, <3>2, <3>3
  <2>11. QED BY <1>1, <2>3, <2>9, <2>10 DEF RecheckInv
<1>10. QED BY <1>8, <1>9

LEMMA RecheckInvStep ==
    ASSUME Typed, RecheckInv, [Next]_vars
    PROVE  RecheckInv'
<1>1. CASE StartRecheck
  <2>1. coord' = "recheck" /\ work'.trace = <<>> /\ work'.inserts = <<>>
    BY <1>1 DEF StartRecheck, FreshLog
  <2>2. QED BY <2>1 DEF RecheckInv, KeptKeys, Kept
<1>2. CASE RecheckStep
  BY <1>2, RecheckFits
<1>3. CASE RecheckDone
  <2>1. coord = "recheck" /\ coord' = "apply_recheck" /\ work' = work /\ caches' = caches
    BY <1>3 DEF RecheckDone, Apply
  <2>2. QED BY <2>1 DEF RecheckInv, Fits, InsertedBefore
<1>4. CASE ApplyEntry
  <2>1. CASE coord = "apply_recheck"
    <3> DEFINE k == work.inserts[cursor]
    <3>1. /\ work' = work /\ coord' = coord /\ cursor' = cursor + 1
          /\ cursor \in DOMAIN work.inserts
          /\ caches' = WithEntry(caches, k, frontier)
      BY <1>4 DEF ApplyEntry
    <3>2. DOMAIN caches' = DOMAIN caches \cup {k}
      BY <3>1 DEF WithEntry
    <3>3. cursor \in Nat /\ cursor >= 1 /\ DOMAIN work.inserts \subseteq Nat
      BY DEF Typed, TypeOK, Log
    <3>4. ASSUME NEW j \in DOMAIN work.inserts, j >= cursor + 1
          PROVE  Fits(work, j, caches)'
      <4>1. Fits(work, j, caches) /\ cursor \in 1..(j - 1) /\ j \in Nat
        BY <2>1, <3>3, <3>4 DEF RecheckInv
      <4>2. k \in InsertedBefore(work, j)
        BY <4>1 DEF InsertedBefore
      <4>3. DOMAIN caches' \cup InsertedBefore(work, j) = DOMAIN caches \cup InsertedBefore(work, j)
        BY <3>2, <4>2
      <4>4. work.inserts[j] # k
        BY <4>1, <4>2 DEF Fits
      <4> HIDE DEF k
      <4>5. QED BY <3>1, <3>2, <4>1, <4>3, <4>4 DEF Fits, InsertedBefore
    <3>5. QED BY <2>1, <3>1, <3>4 DEF RecheckInv
  <2>2. CASE coord # "apply_recheck"
    BY <1>4, <2>2 DEF ApplyEntry, Applying, RecheckInv
  <2>3. QED BY <2>1, <2>2
<1>5. CASE SkipEntry
  <2>1. /\ work' = work /\ coord' = coord /\ caches' = caches /\ cursor' = cursor + 1
        /\ coord # "recheck"
    BY <1>5 DEF SkipEntry, Applying
  <2>2. cursor \in Nat /\ DOMAIN work.inserts \subseteq Nat
    BY DEF Typed, TypeOK, Log
  <2>3. \A j : Fits(work', j, caches') <=> Fits(work, j, caches)
    BY <2>1
  <2>4. QED BY <2>1, <2>2, <2>3 DEF RecheckInv
<1>6. CASE CommitClean \/ CommitReplay \/ AdvanceFrontier
  <2>1. coord' \notin {"recheck", "apply_recheck"}
    BY <1>6 DEF CommitClean, CommitReplay, AdvanceFrontier, Apply
  <2>2. QED BY <2>1 DEF RecheckInv
<1>7. CASE ~Walk
  <2>1. work' = work /\ coord' = coord /\ caches' = caches /\ cursor' = cursor
    BY <1>7 DEF Next, Dispatch, WorkerStep, Submit, ReplayStep, Join, Terminated, vars, walkVars
  <2>2. \A j : Fits(work', j, caches') <=> Fits(work, j, caches)
    BY <2>1
  <2>3. QED BY <2>1, <2>2 DEF RecheckInv
<1>8. QED BY <1>1, <1>2, <1>3, <1>4, <1>5, <1>6, <1>7 DEF Walk

\* The log of an inline recheck publishes completely, whatever the cap and the
\* digests: apply_file_log finds every insertion absent and its bucket with
\* room, because nothing but the coordinator writes the caches it read.
THEOREM RechecksPublishCompletely ==
    Spec => []RecheckComplete
<1>1. Init => RecheckInv
  BY DEF Init, RecheckInv
<1>2. Typed /\ RecheckInv => RecheckComplete
  <2> SUFFICES ASSUME Typed, RecheckInv, coord = "apply_recheck",
                      cursor \in DOMAIN work.inserts
               PROVE  CanPublish(work.inserts[cursor])
    BY DEF RecheckComplete
  <2> DEFINE k == work.inserts[cursor]
             X == Bucketmates(k) \cap DOMAIN caches
             Y == Bucketmates(k) \cap (DOMAIN caches \cup InsertedBefore(work, cursor))
  <2>1. cursor \in Nat
    BY DEF Typed, TypeOK
  <2>2. Fits(work, cursor, caches)
    BY <2>1 DEF RecheckInv
  <2>3. IsFiniteSet(Y) /\ X \subseteq Y
    BY FS_Subset, KeyAssumption DEF Bucketmates
  <2>4. Cardinality(X) <= Cardinality(Y) /\ Cardinality(X) \in Nat /\ Cardinality(Y) \in Nat
    BY <2>3, FS_Subset, FS_CardinalityType
  <2>5. Cardinality(Y) < Cap /\ k \notin DOMAIN caches
    BY <2>2 DEF Fits
  <2>6. Cardinality(X) < Cap
    BY <2>4, <2>5, CapAssumption
  <2>7. QED BY <2>5, <2>6 DEF CanPublish, BucketLen
<1>3. Spec => []Typed
  BY InitTyped, TypedStep, PTL DEF Spec
<1>4. QED BY <1>1, <1>2, <1>3, RecheckInvStep, PTL DEF Spec

-----------------------------------------------------------------------------
\* What the serial specification sees as its results.
CommittedResult == [p \in Pos |-> IF p < frontier THEN result[p] ELSE <<>>]

\* The serial specification is about the same files, caches and automaton.
LEMMA SerialOperators ==
    /\ Serial!Pos = Pos /\ Serial!BasePublisher = BasePublisher
    /\ Serial!Caches = Caches
    /\ \A t, p, l, c : Serial!IsSerialRun(t, p, l, c) <=> IsSerialRun(t, p, l, c)
    /\ \A c, t, p : Serial!AfterRun(c, t, p) = AfterRun(c, t, p)
<1>1. Serial!Pos = Pos /\ Serial!BasePublisher = BasePublisher
  BY DEF Serial!Pos, Pos, Serial!BasePublisher, BasePublisher
<1>2. Serial!Caches = Caches
  BY <1>1 DEF Serial!Caches, Caches, Serial!Publisher, Publisher
<1>3. \A t, j, k : Serial!Kept(t, j, k) <=> Kept(t, j, k)
  BY DEF Serial!Kept, Kept
<1>4. \A t, p, l, c : Serial!IsSerialRun(t, p, l, c) <=> IsSerialRun(t, p, l, c)
  BY DEF Serial!IsSerialRun, IsSerialRun, Serial!LocAfter, LocAfter, Serial!Kept, Kept,
         Serial!Bucketmates, Bucketmates, Serial!Cardinality, Cardinality
<1>5. \A t : Serial!KeptKeys(t) = KeptKeys(t)
  BY <1>3 DEF Serial!KeptKeys, KeptKeys
<1>6. \A c, t, p : Serial!AfterRun(c, t, p) = AfterRun(c, t, p)
  BY <1>5 DEF Serial!AfterRun, AfterRun
<1>7. QED BY <1>1, <1>2, <1>4, <1>6

\* The initial states are initial states of the serial loop.
LEMMA InitImplements ==
    ASSUME Init PROVE Serial!Init
<1>1. snapshot \in Caches /\ \A k \in DOMAIN snapshot : snapshot[k] = BasePublisher
  <2>1. PICK D \in SUBSET Key : snapshot \in [D -> {BasePublisher}]
    BY DEF Init
  <2>2. QED BY <2>1 DEF Caches, Publisher
<1>2. frontier = 1 /\ caches = snapshot /\ entry \in Entries /\ 1 \in Pos
  BY NAssumption DEF Init, Pos
<1>3. Before(frontier) = caches
  <2>1. \A k \in DOMAIN caches : caches[k] < frontier
    BY <1>1, <1>2 DEF BasePublisher
  <2>2. TypeOK
    BY InitIInv DEF IInv
  <2>3. QED BY <2>1, <2>2, <1>2, BeforeIsCaches
<1>4. CommittedResult = [p \in Pos |-> <<>>]
  BY <1>2, MissIsNoPublisher DEF CommittedResult, Pos
<1>5. QED
  BY <1>1, <1>2, <1>3, <1>4, SerialOperators DEF Serial!Init, CommittedResult

\* A step that does not move the frontier is invisible to the serial loop.
LEMMA InvisibleStep ==
    ASSUME CapNotReached, IInv, entry' = entry, frontier' = frontier,
           \/ caches' = caches
           \/ /\ frontier \in Pos
              /\ \E k \in Key \ DOMAIN caches : caches' = WithEntry(caches, k, frontier),
           \A p \in Pos : p < frontier => result'[p] = result[p]
    PROVE  UNCHANGED Serial!vars
<1>1. caches \in Caches /\ frontier \in Nat
  BY NAssumption DEF IInv, TypeOK
<1>2. CommittedResult' = CommittedResult
  BY DEF CommittedResult
<1>3. Before(frontier)' = Before(frontier)
  <2>1. CASE caches' = caches
    BY <2>1 DEF Before
  <2>2. ASSUME frontier \in Pos, NEW k \in Key \ DOMAIN caches,
               caches' = WithEntry(caches, k, frontier)
        PROVE  Before(frontier)' = Before(frontier)
    <3>1. /\ DOMAIN caches' = DOMAIN caches \cup {k}
          /\ caches'[k] = frontier
          /\ \A j \in DOMAIN caches : caches'[j] = caches[j]
      <4> DEFINE c == WithEntry(caches, k, frontier)
      <4>1. frontier \in Publisher
        BY <2>2 DEF Publisher
      <4>2. DOMAIN c = DOMAIN caches \cup {k} /\ c[k] = frontier
        BY <4>1, <2>2, <1>1, WithEntryType
      <4>3. \A j \in DOMAIN caches : j # k => c[j] = caches[j]
        BY <4>1, <2>2, <1>1, WithEntryType
      <4>4. caches' = c
        BY <2>2
      <4> HIDE DEF c
      <4>5. QED BY <4>2, <4>3, <4>4, <2>2
    <3>2. {j \in DOMAIN caches' : caches'[j] < frontier}
            = {j \in DOMAIN caches : caches[j] < frontier}
      BY <3>1, <2>2, <1>1
    <3>3. Before(frontier)' =
            [j \in {i \in DOMAIN caches' : caches'[i] < frontier} |-> caches'[j]]
      BY DEF Before
    <3>4. QED BY <3>1, <3>2, <3>3 DEF Before
  <2>3. QED BY <2>1, <2>2
<1>4. QED BY <1>2, <1>3 DEF Serial!vars, CommittedResult

\* An advance of the frontier is one iteration of the serial loop.
LEMMA AdvanceImplements ==
    ASSUME IInv, AdvanceFrontier
    PROVE  Serial!CheckFile
<1> DEFINE c == Before(frontier)
           t == result[frontier]
<1>1. /\ entry' = entry /\ frontier' = frontier + 1 /\ caches' = caches /\ result' = result
      /\ Applying
  BY DEF AdvanceFrontier
<1>2. /\ frontier \in Pos /\ frontier \in Nat
      /\ IsSerialRun(t, frontier, entry[frontier], c)
      /\ caches \in Caches /\ result \in [Pos -> Seq(Event)]
  BY <1>1, MissIsNoPublisher DEF IInv, TypeOK, ApplyInv
<1>3. PublishedBy(frontier) = KeptKeys(t)
  <2>1. IInv'
    BY AdvanceFrontierStep
  <2>2. frontier < frontier'
    BY <1>1, <1>2
  <2>3. PublishedBy(frontier) = {k \in DOMAIN caches' : caches'[k] = frontier}
    BY <1>1 DEF PublishedBy
  <2>4. \A p \in Pos : p < frontier' =>
          {k \in DOMAIN caches' : caches'[k] = p} = KeptKeys(result'[p])
    BY <2>1 DEF IInv, SerialEquivalence, PublishedBy
  <2>5. QED BY <2>2, <2>3, <2>4, <1>1, <1>2
<1>4. \A k \in DOMAIN caches : caches[k] \in Nat /\ caches[k] <= frontier
  <2>1. ASSUME NEW k \in DOMAIN caches PROVE caches[k] \in Nat /\ caches[k] <= frontier
    <3>1. CASE k \in DOMAIN snapshot
      BY <3>1, <1>2 DEF IInv, CachesInv, BasePublisher
    <3>2. CASE k \notin DOMAIN snapshot
      BY <3>2, MissIsNoPublisher DEF IInv, CachesInv
    <3>3. QED BY <3>1, <3>2
  <2>2. QED BY <2>1
<1>5. Before(frontier)' = caches
  <2>1. Before(frontier)' =
          [k \in {j \in DOMAIN caches : caches[j] < frontier + 1} |-> caches[k]]
    BY <1>1 DEF Before
  <2>2. \A j \in DOMAIN caches : caches[j] < frontier + 1
    BY <1>2, <1>4
  <2>3. QED BY <2>1, <2>2, <1>2, CachesElim
<1>6. caches = AfterRun(c, t, frontier)
  <2>1. DOMAIN c = {j \in DOMAIN caches : caches[j] < frontier}
        /\ \A k \in DOMAIN c : c[k] = caches[k]
    BY DEF Before
  <2>2. KeptKeys(t) = {k \in DOMAIN caches : caches[k] = frontier}
    BY <1>3 DEF PublishedBy
  <2>3. DOMAIN caches = DOMAIN c \cup KeptKeys(t)
    <3>1. \A k \in DOMAIN caches : caches[k] < frontier \/ caches[k] = frontier
      BY <1>2, <1>4
    <3>2. QED BY <3>1, <2>1, <2>2
  <2>4. \A k \in DOMAIN caches : caches[k] = IF k \in DOMAIN c THEN c[k] ELSE frontier
    BY <2>1, <2>2, <2>3
  <2>5. caches = [k \in DOMAIN caches |-> caches[k]]
    BY <1>2, CachesElim
  <2> HIDE DEF c, t
  <2>6. QED BY <2>3, <2>4, <2>5 DEF AfterRun
<1>7. CommittedResult'[frontier] = t
  BY <1>1, <1>2 DEF CommittedResult
<1>8. CommittedResult' = [CommittedResult EXCEPT ![frontier] = t]
  <2>1. \A p \in Pos : p < frontier + 1 <=> p < frontier \/ p = frontier
    BY <1>2, MissIsNoPublisher
  <2>2. CommittedResult' =
          [p \in Pos |-> IF p < frontier + 1 THEN result[p] ELSE <<>>]
    BY <1>1 DEF CommittedResult
  <2>3. QED BY <2>1, <2>2, <1>2 DEF CommittedResult
<1>9. /\ frontier \in Serial!Pos
      /\ Serial!IsSerialRun(t, frontier, entry[frontier], c)
      /\ Before(frontier)' = Serial!AfterRun(c, t, frontier)
  BY <1>2, <1>5, <1>6, SerialOperators
<1> HIDE DEF c, t
<1>10. QED
  BY <1>1, <1>7, <1>8, <1>9 DEF Serial!CheckFile, CommittedResult, c

\* Every step of the parallel checker is an iteration of the serial loop or
\* invisible to it.
LEMMA NextImplements ==
    ASSUME CapNotReached, IInv, [Next]_vars
    PROVE  [Serial!CheckFile]_(Serial!vars)
<1>1. CASE AdvanceFrontier
  BY <1>1, AdvanceImplements
<1>2. CASE ApplyEntry
  <2>1. /\ entry' = entry /\ frontier' = frontier /\ result' = result /\ Applying
        /\ caches' = WithEntry(caches, work.inserts[cursor], frontier)
        /\ cursor \in DOMAIN work.inserts
    BY <1>2 DEF ApplyEntry
  <2>2. work.inserts[cursor] \in Key \ DOMAIN caches /\ frontier \in Pos
    BY <2>1, InsertionsFit DEF CanPublish, IInv, ApplyInv
  <2>3. QED BY <2>1, <2>2, InvisibleStep
<1>3. CASE CommitClean \/ CommitReplay \/ RecheckDone
  <2>1. /\ entry' = entry /\ frontier' = frontier /\ caches' = caches
        /\ \E s : result' = [result EXCEPT ![frontier] = s]
    BY <1>3 DEF CommitClean, CommitReplay, RecheckDone, Apply
  <2>2. \A p \in Pos : p < frontier => result'[p] = result[p]
    BY <2>1, NAssumption DEF IInv, TypeOK, Pos
  <2>3. QED BY <2>1, <2>2, InvisibleStep
<1>4. ASSUME UNCHANGED <<entry, walkVars>> \/ StartRecheck \/ RecheckStep
      PROVE  UNCHANGED Serial!vars
  <2>1. entry' = entry /\ frontier' = frontier /\ caches' = caches /\ result' = result
    BY <1>4 DEF StartRecheck, RecheckStep, walkVars
  <2>2. QED BY <2>1, InvisibleStep
<1>5. ~SkipEntry
  BY InsertionsFit DEF SkipEntry
<1>6. \/ AdvanceFrontier \/ ApplyEntry \/ CommitClean \/ CommitReplay \/ RecheckDone
      \/ UNCHANGED <<entry, walkVars>> \/ StartRecheck \/ RecheckStep
  <2>1. CASE \E w \in Worker : Dispatch(w)
    BY <2>1 DEF Dispatch
  <2>2. CASE \E p \in Pos : WorkerStep(p) \/ Submit(p) \/ ReplayStep(p)
    BY <2>2 DEF WorkerStep, Submit, ReplayStep
  <2>3. CASE Join \/ Terminated \/ UNCHANGED vars
    BY <2>3 DEF Join, Terminated, vars
  <2>4. QED BY <2>1, <2>2, <2>3, <1>5 DEF Next, Walk
<1>7. QED BY <1>1, <1>2, <1>3, <1>4, <1>6

\* The parallel path implements check_program_files_serial.
THEOREM ParallelImplementsSerial ==
    ASSUME CapNotReached
    PROVE  Spec => ImplementsSerial
<1>1. Init => Serial!Init
  BY InitImplements
<1>2. IInv /\ [Next]_vars => [Serial!CheckFile]_(Serial!vars)
  BY NextImplements
<1>3. QED BY <1>1, <1>2, InductiveInvariant, PTL DEF Spec, ImplementsSerial, Serial!Spec

-----------------------------------------------------------------------------
(* The schedule. *)

\* compute_submit_schedule never schedules a position after its turn.
LEMMA ScheduleBounds ==
    /\ ChosenSchedule \in [Pos -> 1..(N + 1)]
    /\ \A p \in Pos : ChosenSchedule[p] # Never => ChosenSchedule[p] <= p
<1>1. ASSUME NEW p \in Pos PROVE AfterLast(DepsOf(p)) \in 1..p
  <2> DEFINE D == DepsOf(p)
  <2>1. D \in SUBSET (1..(p - 1)) /\ p - 1 \in Nat /\ p \in Nat
    BY NAssumption DEF DepsOf, Pos
  <2> HIDE DEF D
  <2>2. CASE D = {}
    BY <2>1, <2>2 DEF AfterLast, D
  <2>3. CASE D # {}
    <3> DEFINE m == CHOOSE q \in D : \A r \in D : r <= q
    <3>1. \E q \in D : \A r \in D : r <= q
      BY <2>1, <2>3, LastExists
    <3>2. m \in D
      BY <3>1
    <3>3. AfterLast(D) = m + 1
      BY <2>3 DEF AfterLast
    <3> HIDE DEF m
    <3>4. QED BY <2>1, <3>2, <3>3 DEF D
  <2>4. QED BY <2>2, <2>3
<1>2. \A p \in Pos : p \in 1..N /\ p \in Nat
  BY NAssumption DEF Pos
<1>3. CASE Mode = "off"
  BY <1>2, <1>3, NAssumption DEF ChosenSchedule, Never
<1>4. CASE Mode = "eager"
  <2>1. ChosenSchedule = [p \in Pos |-> IF p \in Predicted THEN 1 ELSE Never]
    BY <1>4 DEF ChosenSchedule
  <2>2. QED BY <2>1, <1>2, NAssumption DEF Never
<1>5. CASE Mode = "deps"
  <2>1. ChosenSchedule = SubmitSchedule
    BY <1>5 DEF ChosenSchedule
  <2>2. QED BY <2>1, <1>1, <1>2, NAssumption DEF SubmitSchedule, Never
<1>6. QED BY <1>3, <1>4, <1>5, ModeAssumption

\* Every step of the scheduled checker is one of the unscheduled one.
LEMMA ScheduledStep ==
    ASSUME [ScheduledNext]_scheduledVars
    PROVE  [Next]_vars
<1>1. CASE ScheduledNext
  BY <1>1 DEF ScheduledNext, SubmitDue, ScheduledJoin, ScheduledWalk, Next
<1>2. CASE UNCHANGED scheduledVars
  BY <1>2 DEF scheduledVars
<1>3. QED BY <1>1, <1>2

\* check_program_files_parallel with its own schedule is an instance of the
\* checker that submits whatever it likes.
THEOREM ScheduleIsOnlyAHint ==
    ScheduledSpec => Spec
<1>1. ScheduledInit => Init
  BY DEF ScheduledInit
<1>2. [ScheduledNext]_scheduledVars => [Next]_vars
  BY ScheduledStep
<1>3. QED BY <1>1, <1>2, PTL DEF ScheduledSpec, Spec

\* Hence the scheduled checker implements check_program_files_serial too.
THEOREM ScheduledImplementsSerial ==
    ASSUME CapNotReached
    PROVE  ScheduledSpec => ImplementsSerial
  BY ScheduleIsOnlyAHint, ParallelImplementsSerial, PTL

-----------------------------------------------------------------------------
\* The schedule is within bounds, and every bucket the frontier has left
\* behind has been submitted.
ScheduleInv ==
    /\ submitAt \in [Pos -> 1..(N + 1)]
    /\ \A p \in Pos : submitAt[p] # Never => submitAt[p] <= p
    /\ \A p \in Pos : submitAt[p] < frontier => p \in submitted

\* The walk does not begin before the workers have joined.
WalkAfterJoin == phase = "check" => frontier = 1 /\ coord = "top"

LEMMA WalkAfterJoinStep ==
    ASSUME WalkAfterJoin, [Next]_vars
    PROVE  WalkAfterJoin'
<1>1. CASE Walk
  <2>1. phase # "check" /\ phase' = phase
    BY <1>1 DEF Walk, CommitClean, CommitReplay, StartRecheck, RecheckStep, RecheckDone,
           ApplyEntry, SkipEntry, AdvanceFrontier, AtFrontier, Applying, WalkAfterJoin
  <2>2. QED BY <2>1 DEF WalkAfterJoin
<1>2. CASE ~Walk
  <2>1. frontier' = frontier /\ coord' = coord /\ (phase' = phase \/ phase' = "commit")
    BY <1>2 DEF Next, Dispatch, WorkerStep, Submit, ReplayStep, Join, Terminated, vars, walkVars
  <2>2. QED BY <2>1 DEF WalkAfterJoin
<1>3. QED BY <1>1, <1>2

LEMMA ScheduleInvStep ==
    ASSUME Typed, WalkAfterJoin, ScheduleInv, [ScheduledNext]_scheduledVars
    PROVE  ScheduleInv'
<1>1. frontier \in 1..(N + 1) /\ N \in Nat
  BY NAssumption DEF Typed, TypeOK
<1>2. CASE ScheduledJoin
  <2>1. frontier = 1 /\ frontier' = frontier /\ submitAt' = ChosenSchedule
    BY <1>2 DEF ScheduledJoin, Join, WalkAfterJoin, walkVars
  <2>2. QED BY <2>1, ScheduleBounds DEF ScheduleInv, Never
<1>3. CASE ScheduledWalk /\ AdvanceFrontier
  <2>1. /\ frontier' = frontier + 1 /\ submitted' = submitted /\ submitAt' = submitAt
        /\ \A p \in Pos : submitAt[p] = frontier => p \in submitted
    BY <1>3 DEF ScheduledWalk, AdvanceFrontier, replayVars
  <2>2. QED BY <2>1, <1>1 DEF ScheduleInv, Never
<1>4. CASE /\ frontier' = frontier
           /\ submitAt' = submitAt
           /\ submitted \subseteq submitted'
  BY <1>4 DEF ScheduleInv, Never
<1>5. ASSUME ~ScheduledJoin, ~(ScheduledWalk /\ AdvanceFrontier)
      PROVE  frontier' = frontier /\ submitAt' = submitAt /\ submitted \subseteq submitted'
  <2>1. CASE \E w \in Worker : Dispatch(w) /\ UNCHANGED submitAt
    BY <2>1 DEF Dispatch, walkVars, replayVars
  <2>2. CASE \E p \in Pos : (WorkerStep(p) \/ ReplayStep(p)) /\ UNCHANGED submitAt
    BY <2>2 DEF WorkerStep, ReplayStep, walkVars, replayVars
  <2>3. CASE \E p \in Pos : SubmitDue(p)
    BY <2>3 DEF SubmitDue, Submit, walkVars
  <2>4. CASE ScheduledWalk /\ ~AdvanceFrontier
    BY <2>4 DEF ScheduledWalk, Walk, CommitClean, CommitReplay, StartRecheck, RecheckStep,
                RecheckDone, ApplyEntry, SkipEntry, replayVars
  <2>5. CASE (Terminated /\ UNCHANGED submitAt) \/ UNCHANGED scheduledVars
    BY <2>5 DEF Terminated, scheduledVars, vars, walkVars, replayVars
  <2>6. QED BY <1>5, <2>1, <2>2, <2>3, <2>4, <2>5 DEF ScheduledNext
<1>6. QED BY <1>2, <1>3, <1>4, <1>5

\* run_frontier_pipeline submits every scheduled replay before its position's
\* turn, in every mode and whatever the cap.
THEOREM ScheduledReplaysInTime ==
    ScheduledSpec => []ScheduledInTime
<1>1. ScheduledInit => Typed /\ WalkAfterJoin /\ ScheduleInv
  BY InitTyped, NAssumption DEF ScheduledInit, Init, WalkAfterJoin, ScheduleInv, Never
<1>2. Typed /\ ScheduleInv => ScheduledInTime
  <2> SUFFICES ASSUME Typed, ScheduleInv, NEW p \in Pos, p < frontier, submitAt[p] # Never
               PROVE  p \in submitted /\ submitAt[p] <= p
    BY DEF ScheduledInTime
  <2>1. submitAt[p] \in Nat /\ p \in Nat /\ frontier \in Nat
    BY NAssumption DEF ScheduleInv, Typed, TypeOK, Pos
  <2>2. QED BY <2>1 DEF ScheduleInv
<1>3. Typed /\ WalkAfterJoin /\ ScheduleInv /\ [ScheduledNext]_scheduledVars
        => Typed' /\ WalkAfterJoin' /\ ScheduleInv'
  BY ScheduledStep, TypedStep, WalkAfterJoinStep, ScheduleInvStep
<1>4. QED BY <1>1, <1>2, <1>3, PTL DEF ScheduledSpec

-----------------------------------------------------------------------------
(* What predict_conflicts and compute_submit_schedule promise. *)

\* The loop's result is closed under its rule.
LEMMA PredictedClosed ==
    \A q \in Pos : ConflictsGiven(Predicted, q) => q \in Predicted
<1> SUFFICES ASSUME NEW q \in Pos, ConflictsGiven(Predicted, q),
                    NEW P \in SUBSET Pos,
                    \A r \in Pos : ConflictsGiven(P, r) => r \in P
             PROVE  q \in P
  BY DEF Predicted
<1>1. Predicted \subseteq P
  BY DEF Predicted
<1>2. ConflictsGiven(P, q)
  BY <1>1 DEF ConflictsGiven
<1>3. QED BY <1>2

\* A position with no predicted position before it is predicted for what it
\* missed alone: without it the loop's result would still be closed.
LEMMA FirstPrediction ==
    ASSUME NEW p \in Pos, NoneEarlier(p)
    PROVE  p \in Predicted <=> log[p].misses \cap EarlierInserts(p) # {}
<1>1. ASSUME log[p].misses \cap EarlierInserts(p) # {} PROVE p \in Predicted
  BY <1>1, PredictedClosed DEF ConflictsGiven
<1>2. ASSUME log[p].misses \cap EarlierInserts(p) = {} PROVE p \notin Predicted
  <2> DEFINE P == Predicted \ {p}
  <2>1. P \in SUBSET Pos
    BY DEF Predicted
  <2>2. ASSUME NEW q \in Pos, ConflictsGiven(P, q) PROVE q \in P
    <3>1. ConflictsGiven(Predicted, q)
      BY <2>2 DEF ConflictsGiven
    <3>2. q \in Predicted
      BY <3>1, PredictedClosed
    <3>3. q # p
      BY <1>2, <2>2 DEF ConflictsGiven, NoneEarlier
    <3>4. QED BY <3>2, <3>3
  <2>3. p \notin P
    OBVIOUS
  <2> HIDE DEF P
  <2>4. QED BY <2>1, <2>2, <2>3 DEF Predicted
<1>3. QED BY <1>1, <1>2

\* Once the workers have joined their logs are final.
LEMMA LogsFinal ==
    ASSUME IInv, phase = "commit", [Next]_vars
    PROVE  log' = log /\ phase' = phase
<1>1. \A p \in Pos : Finished(log[p])
  BY DEF IInv, PhaseInv
<1>2. CASE \E w \in Worker : Dispatch(w)
  BY <1>2 DEF Dispatch
<1>3. CASE \E p \in Pos : WorkerStep(p) \/ Submit(p) \/ ReplayStep(p)
  BY <1>1, <1>3 DEF WorkerStep, Submit, ReplayStep, workerVars
<1>4. CASE Join
  BY <1>4 DEF Join
<1>5. CASE Walk
  BY <1>5 DEF Walk, CommitClean, CommitReplay, StartRecheck, RecheckStep, RecheckDone,
              ApplyEntry, SkipEntry, AdvanceFrontier, workerVars
<1>6. CASE Terminated \/ UNCHANGED vars
  BY <1>6 DEF Terminated, vars, workerVars
<1>7. QED BY <1>2, <1>3, <1>4, <1>5, <1>6 DEF Next

\* The walk has published nothing but the digests of what it put into the
\* caches.
DigestInv == published \subseteq {Digest[k] : k \in DOMAIN caches \ DOMAIN snapshot}

\* Up to the first predicted position, a position whose verdict has been given
\* is dirty exactly when it was predicted.
VerdictInv ==
    \A p \in Pos : /\ p < frontier \/ (p = frontier /\ coord # "top")
                   /\ NoneEarlier(p)
                   => (p \in Predicted <=> p \in dirty)

\* The schedule is the one computed at the join, and a submitted
\* replay's bucket has been reached.
BucketInv ==
    /\ phase = "check" => submitAt = [p \in Pos |-> Never]
    /\ phase = "commit" => submitAt = ChosenSchedule
    /\ \A p \in submitted : submitAt[p] <= frontier
    /\ \A p \in Pos : p \notin submitted => replay[p] = FreshLog(p)

LEMMA DigestInvStep ==
    ASSUME IInv, DigestInv, [Next]_vars
    PROVE  DigestInv'
<1>1. CASE ApplyEntry
  <2> DEFINE k == work.inserts[cursor]
  <2>1. /\ k \notin DOMAIN caches /\ published' = published \cup {Digest[k]}
        /\ DOMAIN caches' = DOMAIN caches \cup {k} /\ snapshot' = snapshot
    BY <1>1 DEF ApplyEntry, CanPublish, WithEntry
  <2>2. k \notin DOMAIN snapshot
    BY <2>1 DEF IInv, CachesInv
  <2> HIDE DEF k
  <2>3. QED BY <2>1, <2>2 DEF DigestInv
<1>2. ASSUME ~ApplyEntry
      PROVE  published' = published /\ caches' = caches /\ snapshot' = snapshot
  <2>1. CASE \E w \in Worker : Dispatch(w)
    BY <2>1 DEF Dispatch, walkVars
  <2>2. CASE \E p \in Pos : WorkerStep(p) \/ Submit(p) \/ ReplayStep(p)
    BY <2>2 DEF WorkerStep, Submit, ReplayStep, walkVars
  <2>3. CASE Join
    BY <2>3 DEF Join, walkVars
  <2>4. CASE Walk
    BY <1>2, <2>4 DEF Walk, CommitClean, CommitReplay, StartRecheck, RecheckStep,
                      RecheckDone, SkipEntry, AdvanceFrontier
  <2>5. CASE Terminated \/ UNCHANGED vars
    BY <2>5 DEF Terminated, vars, walkVars
  <2>6. QED BY <2>1, <2>2, <2>3, <2>4, <2>5 DEF Next
<1>3. QED BY <1>1, <1>2 DEF DigestInv

\* An earlier position that is committed and not dirty has put exactly the
\* insertions of its worker's log into the caches.
LEMMA CleanPublishes ==
    ASSUME IInv, NEW q \in Pos, q < frontier, q \notin dirty
    PROVE  InsertedBy(q) = {Digest[k] : k \in PublishedBy(q)}
<1>1. PublishedBy(q) = KeptKeys(log[q].trace)
  BY DEF IInv, SerialEquivalence, CommittedInv
<1>2. /\ \A j \in DOMAIN log[q].inserts : log[q].inserts[j] \in KeptKeys(log[q].trace)
      /\ \A k \in KeptKeys(log[q].trace) : \E j \in DOMAIN log[q].inserts : log[q].inserts[j] = k
  BY DEF IInv, WorkerLogInv, WellFormed
<1>3. QED BY <1>1, <1>2 DEF InsertedBy

\* When no earlier position is dirty, what has been published at the top of
\* the frontier loop is what the earlier logs insert.
LEMMA PublishedIsEarlier ==
    ASSUME IInv, DigestInv, NEW p \in Pos, p = frontier, coord = "top",
           \A q \in 1..(p - 1) : q \notin dirty
    PROVE  published = EarlierInserts(p)
<1>1. ASSUME NEW q \in 1..(p - 1)
      PROVE  /\ q \in Pos /\ q < frontier
             /\ InsertedBy(q) = {Digest[k] : k \in PublishedBy(q)}
  <2>1. q \in Pos /\ q < frontier
    BY NAssumption DEF Pos
  <2>2. QED BY <2>1, CleanPublishes
<1>2. ASSUME NEW d \in published PROVE d \in EarlierInserts(p)
  <2>1. PICK k \in DOMAIN caches \ DOMAIN snapshot : d = Digest[k]
    BY DEF DigestInv
  <2>2. caches[k] \in Pos /\ caches[k] <= frontier /\ caches[k] # frontier
    BY DEF IInv, CachesInv, Applying
  <2>3. caches[k] \in 1..(p - 1)
    BY <2>2, NAssumption DEF Pos
  <2>4. k \in PublishedBy(caches[k])
    BY DEF PublishedBy
  <2>5. QED BY <1>1, <2>1, <2>3, <2>4 DEF EarlierInserts
<1>3. ASSUME NEW d \in EarlierInserts(p) PROVE d \in published
  <2>1. PICK q \in 1..(p - 1) : d \in InsertedBy(q)
    BY DEF EarlierInserts
  <2>2. PICK k \in PublishedBy(q) : d = Digest[k]
    BY <1>1, <2>1
  <2>3. k \in DOMAIN caches /\ caches[k] = q /\ q # BasePublisher
    BY <2>2 DEF PublishedBy, BasePublisher
  <2>4. k \notin DOMAIN snapshot
    BY <2>3 DEF IInv, CachesInv
  <2>5. QED BY <2>2, <2>3, <2>4 DEF IInv, CachesInv
<1>4. QED BY <1>2, <1>3

\* The verdict on the frontier's position is the prediction, when no earlier
\* position is predicted.
LEMMA VerdictIsPrediction ==
    ASSUME IInv, DigestInv, VerdictInv, NEW p \in Pos, p = frontier, coord = "top",
           NoneEarlier(p)
    PROVE  p \in Predicted <=> ~CleanVerdict(log[p])
<1>1. ASSUME NEW q \in 1..(p - 1) PROVE q \notin dirty
  <2>1. q \in Pos /\ q < frontier /\ 1..(q - 1) \subseteq 1..(p - 1)
    BY NAssumption DEF Pos
  <2>2. NoneEarlier(q) /\ q \notin Predicted
    BY <2>1 DEF NoneEarlier
  <2>3. QED BY <2>1, <2>2 DEF VerdictInv
<1>2. published = EarlierInserts(p)
  BY <1>1, PublishedIsEarlier
<1>3. dirty = {}
  <2> SUFFICES ASSUME NEW q \in dirty PROVE FALSE
    OBVIOUS
  <2>1. q \in Pos /\ q <= frontier /\ q # frontier
    BY DEF IInv, TypeOK, CommittedInv
  <2>2. q \in 1..(p - 1)
    BY <2>1, NAssumption DEF Pos
  <2>3. QED BY <1>1, <2>2
<1>4. CleanVerdict(log[p]) <=> log[p].misses \cap EarlierInserts(p) = {}
  BY <1>2, <1>3 DEF CleanVerdict, MissConflict, DependencyConflict
<1>5. QED BY <1>4, FirstPrediction

\* Who is predicted depends only on the workers' logs.
LEMMA PredictedFinal ==
    ASSUME log' = log
    PROVE  /\ Predicted' = Predicted
           /\ \A p \in Pos : NoneEarlier(p)' <=> NoneEarlier(p)
           /\ \A p \in Pos : EarlierInserts(p)' = EarlierInserts(p)
           /\ ChosenSchedule' = ChosenSchedule
<1>1. \A q : InsertedBy(q)' = InsertedBy(q)
  BY DEF InsertedBy
<1>2. \A q : EarlierInserts(q)' = EarlierInserts(q)
  BY <1>1 DEF EarlierInserts
<1>3. \A P, q : ConflictsGiven(P, q)' <=> ConflictsGiven(P, q)
  BY <1>2 DEF ConflictsGiven
<1>4. Predicted' = Predicted
  BY <1>3 DEF Predicted
<1>5. \A q, d : FirstWriter(q, d)' <=> FirstWriter(q, d)
  BY <1>1, <1>2 DEF FirstWriter
<1>6. \A p : DepsOf(p)' = DepsOf(p)
  BY <1>5 DEF DepsOf
<1>7. SubmitSchedule' = SubmitSchedule
  BY <1>4, <1>6 DEF SubmitSchedule
<1>8. ChosenSchedule' = ChosenSchedule
  BY <1>4, <1>7 DEF ChosenSchedule, Never
<1>9. QED BY <1>2, <1>4, <1>8 DEF NoneEarlier

LEMMA VerdictInvStep ==
    ASSUME IInv, DigestInv, VerdictInv, [Next]_vars
    PROVE  VerdictInv'
<1> USE NAssumption
<1>1. frontier \in Nat /\ dirty \subseteq Pos
  BY DEF IInv, TypeOK
<1>2. CASE phase = "check"
  <2>1. frontier = 1 /\ coord = "top"
    BY <1>2 DEF IInv, PhaseInv
  <2>2. frontier' = frontier /\ coord' = coord
    <3>1. ~Walk
      BY <1>2, <2>1 DEF Walk, CommitClean, CommitReplay, StartRecheck, RecheckStep,
           RecheckDone, ApplyEntry, SkipEntry, AdvanceFrontier, AtFrontier, Applying
    <3>2. QED BY <3>1 DEF Next, Dispatch, WorkerStep, Submit, ReplayStep, Join,
                 Terminated, vars, walkVars
  <2>3. QED BY <2>1, <2>2 DEF VerdictInv, Pos
<1>3. CASE phase = "commit"
  <2>1. log' = log
    BY <1>3, LogsFinal
  <2>2. /\ Predicted' = Predicted
        /\ \A p \in Pos : NoneEarlier(p)' <=> NoneEarlier(p)
    BY <2>1, PredictedFinal
  <2>3. CASE CommitClean
    <3>1. frontier \in Pos /\ coord = "top" /\ CleanVerdict(log[frontier])
      BY <2>3 DEF CommitClean, AtFrontier
    <3>2. frontier' = frontier /\ dirty' = dirty
      BY <2>3 DEF CommitClean
    <3>3. frontier \notin dirty
      BY <3>1 DEF IInv, CommittedInv
    <3>4. NoneEarlier(frontier) => frontier \notin Predicted
      BY <3>1, VerdictIsPrediction
    <3>5. QED BY <1>1, <2>2, <3>1, <3>2, <3>3, <3>4 DEF VerdictInv
  <2>4. CASE CommitReplay \/ StartRecheck
    <3>1. frontier \in Pos /\ coord = "top" /\ ~CleanVerdict(log[frontier])
      BY <2>4 DEF CommitReplay, StartRecheck, AtFrontier
    <3>2. frontier' = frontier /\ dirty' = dirty \cup {frontier}
      BY <2>4 DEF CommitReplay, StartRecheck
    <3>3. NoneEarlier(frontier) => frontier \in Predicted
      BY <3>1, VerdictIsPrediction
    <3>4. QED BY <1>1, <2>2, <3>1, <3>2, <3>3 DEF VerdictInv
  <2>5. CASE AdvanceFrontier
    <3>1. frontier' = frontier + 1 /\ dirty' = dirty /\ coord # "top" /\ coord' = "top"
      BY <2>5 DEF AdvanceFrontier, Applying
    <3>2. QED BY <1>1, <2>2, <3>1 DEF VerdictInv, Pos
  <2>6. CASE RecheckStep \/ RecheckDone \/ ApplyEntry \/ SkipEntry
    <3>1. frontier' = frontier /\ dirty' = dirty /\ coord # "top"
      BY <2>6 DEF RecheckStep, RecheckDone, ApplyEntry, SkipEntry, Applying
    <3>2. QED BY <1>1, <2>2, <3>1 DEF VerdictInv, Pos
  <2>7. CASE ~Walk
    <3>1. frontier' = frontier /\ dirty' = dirty /\ coord' = coord
      BY <2>7 DEF Next, Dispatch, WorkerStep, Submit, ReplayStep, Join,
                  Terminated, vars, walkVars
    <3>2. QED BY <2>2, <3>1 DEF VerdictInv
  <2>8. QED BY <2>3, <2>4, <2>5, <2>6, <2>7 DEF Walk
<1>4. QED BY <1>2, <1>3 DEF IInv, TypeOK

\* predict_conflicts neither over- nor under-predicts up to and including the
\* first predicted position: there the prediction from the workers' logs is
\* commit_file_log's verdict, for every schedule of the replays.
THEOREM AlwaysPredictionExact ==
    ASSUME CapNotReached
    PROVE  ScheduledSpec => []PredictionExact
<1>1. Init => DigestInv /\ VerdictInv
  BY NAssumption DEF Init, DigestInv, VerdictInv, Pos
<1>2. VerdictInv => PredictionExact
  BY DEF VerdictInv, PredictionExact
<1>3. IInv /\ DigestInv /\ VerdictInv /\ [Next]_vars => DigestInv' /\ VerdictInv'
  BY DigestInvStep, VerdictInvStep
<1>4. Spec => []IInv
  BY InductiveInvariant
<1>5. Spec => []PredictionExact
  BY <1>1, <1>2, <1>3, <1>4, PTL DEF Spec
<1>6. QED BY <1>5, ScheduleIsOnlyAHint, PTL

LEMMA BucketInvStep ==
    ASSUME IInv, BucketInv, [ScheduledNext]_scheduledVars
    PROVE  BucketInv'
<1> USE NAssumption
<1>1. /\ frontier \in Nat /\ submitted \subseteq Pos /\ phase \in {"check", "commit"}
      /\ phase = "check" => submitted = {}
      /\ replay \in [Pos -> Log]
  BY DEF IInv, TypeOK, PhaseInv
<1>2. [Next]_vars
  BY ScheduledStep
<1>3. CASE phase = "check"
  <2>1. \A p \in Pos : replay[p] = FreshLog(p)
    BY <1>1, <1>3 DEF BucketInv
  <2>2. submitted' = {} /\ replay' = replay /\ entry' = entry
    <3>1. ~Walk
      BY <1>3 DEF Walk, CommitClean, CommitReplay, StartRecheck, RecheckStep,
           RecheckDone, ApplyEntry, SkipEntry, AdvanceFrontier, AtFrontier, Applying,
           IInv, PhaseInv
    <3>2. QED BY <1>1, <1>2, <1>3, <3>1 DEF Next, Dispatch, WorkerStep, Submit, ReplayStep,
                 Join, Terminated, vars, replayVars
  <2>3. CASE ScheduledJoin
    <3>1. log' = log /\ submitAt' = ChosenSchedule /\ phase' = "commit"
      BY <2>3 DEF ScheduledJoin, Join, workerVars
    <3>2. submitAt' = ChosenSchedule'
      BY <3>1, PredictedFinal
    <3>3. QED BY <2>1, <2>2, <3>1, <3>2 DEF BucketInv, FreshLog
  <2>4. CASE ~ScheduledJoin
    <3>1. submitAt' = submitAt /\ phase' = phase
      BY <1>3, <2>4 DEF ScheduledNext, scheduledVars, vars, Dispatch, WorkerStep, ReplayStep,
           SubmitDue, Submit, ScheduledWalk, Walk, CommitClean, CommitReplay, StartRecheck,
           RecheckStep, RecheckDone, ApplyEntry, SkipEntry, AdvanceFrontier, Terminated
    <3>2. QED BY <1>3, <2>1, <2>2, <3>1 DEF BucketInv, FreshLog, Never
  <2>5. QED BY <2>3, <2>4
<1>4. CASE phase = "commit"
  <2>1. log' = log /\ phase' = phase
    BY <1>2, <1>4, LogsFinal
  <2>2. ChosenSchedule' = ChosenSchedule
    BY <2>1, PredictedFinal
  <2>3. submitAt' = submitAt
    BY <1>4 DEF ScheduledNext, scheduledVars, SubmitDue, ScheduledJoin, Join, ScheduledWalk
  <2>4. entry' = entry
    BY <1>2 DEF Next, vars, Dispatch, WorkerStep, Submit, ReplayStep, Join, Walk, CommitClean,
         CommitReplay, StartRecheck, RecheckStep, RecheckDone, ApplyEntry, SkipEntry,
         AdvanceFrontier, Terminated
  <2>5. frontier <= frontier' /\ frontier' \in Nat
    BY <1>1, <1>2 DEF Next, vars, walkVars, Dispatch, WorkerStep, Submit, ReplayStep, Join, Walk,
         CommitClean, CommitReplay, StartRecheck, RecheckStep, RecheckDone, ApplyEntry,
         SkipEntry, AdvanceFrontier, Terminated
  <2>6. \A p \in submitted' : submitAt'[p] <= frontier'
    <3>1. \A p \in submitted' : submitAt[p] <= frontier
      <4>1. CASE \E p \in Pos : SubmitDue(p)
        BY <1>1, <4>1 DEF SubmitDue, Submit, BucketInv
      <4>2. CASE ~(\E p \in Pos : SubmitDue(p))
        <5>1. submitted' = submitted
          BY <4>2 DEF ScheduledNext, scheduledVars, vars, replayVars, Dispatch, WorkerStep,
             ReplayStep, ScheduledJoin, Join, ScheduledWalk, Walk, CommitClean,
             CommitReplay, StartRecheck, RecheckStep, RecheckDone, ApplyEntry, SkipEntry,
             AdvanceFrontier, Terminated
        <5>2. QED BY <5>1 DEF BucketInv
      <4>3. QED BY <4>1, <4>2
    <3>2. ChosenSchedule \in [Pos -> 1..(N + 1)] /\ submitAt = ChosenSchedule
      BY <1>4, ScheduleBounds DEF BucketInv
    <3>3. submitted' \subseteq Pos
      BY <1>1, <1>2 DEF Next, vars, replayVars, Dispatch, WorkerStep, Submit, ReplayStep, Join,
         Walk, CommitClean, CommitReplay, StartRecheck, RecheckStep, RecheckDone, ApplyEntry,
         SkipEntry, AdvanceFrontier, Terminated
    <3>4. QED BY <1>1, <2>3, <2>5, <3>1, <3>2, <3>3
  <2>7. ASSUME NEW p \in Pos, p \notin submitted'
        PROVE  replay'[p] = FreshLog(p)'
    <3>1. p \notin submitted /\ replay'[p] = replay[p]
      BY <1>1, <1>2, <2>7 DEF Next, vars, replayVars, Dispatch, WorkerStep, Submit, ReplayStep,
         Join, Walk, CommitClean, CommitReplay, StartRecheck, RecheckStep, RecheckDone,
         ApplyEntry, SkipEntry, AdvanceFrontier, Terminated
    <3>2. QED BY <2>4, <3>1 DEF BucketInv, FreshLog
  <2>8. QED BY <1>4, <2>1, <2>2, <2>3, <2>6, <2>7 DEF BucketInv
<1>5. QED BY <1>1, <1>3, <1>4

\* A replay is submitted after the commits it depends on.
LEMMA DependenciesCommitted ==
    ASSUME IInv, BucketInv, Mode = "deps", NEW p \in submitted, NEW q \in DepsOf(p)
    PROVE  q \in Pos /\ q < frontier
<1> USE NAssumption
<1>1. p \in Pos /\ phase = "commit" /\ frontier \in 1..(N + 1)
  BY DEF IInv, TypeOK, PhaseInv
<1>2. submitAt[p] <= frontier
  BY DEF BucketInv
<1>3. submitAt[p] = SubmitSchedule[p]
  BY <1>1 DEF BucketInv, ChosenSchedule
<1> DEFINE D == DepsOf(p)
<1>4. D \in SUBSET (1..(p - 1)) /\ p - 1 \in Nat /\ p \in 1..N
  BY <1>1 DEF DepsOf, Pos
<1>5. q \in D
  OBVIOUS
<1>6. submitAt[p] = Never \/ submitAt[p] = AfterLast(D)
  BY <1>1, <1>3 DEF SubmitSchedule
<1> HIDE DEF D
<1>7. q \in 1..(p - 1)
  BY <1>4, <1>5
<1>8. CASE submitAt[p] = Never
  BY <1>1, <1>2, <1>4, <1>7, <1>8 DEF Never, Pos
<1>9. CASE submitAt[p] = AfterLast(D)
  <2> DEFINE m == CHOOSE r \in D : \A t \in D : t <= r
  <2>1. \E r \in D : \A t \in D : t <= r
    BY <1>4, <1>5, LastExists
  <2>2. m \in D /\ \A t \in D : t <= m
    BY <2>1
  <2>3. AfterLast(D) = m + 1
    BY <1>5 DEF AfterLast
  <2> HIDE DEF m
  <2>4. q <= m /\ m \in 1..(p - 1)
    BY <1>4, <1>5, <2>2
  <2>5. QED BY <1>1, <1>2, <1>4, <1>7, <1>9, <2>3, <2>4 DEF Pos
<1>10. QED BY <1>6, <1>8, <1>9

\* What earlier logs insert has a first writer.
LEMMA FirstWriterExists ==
    ASSUME NEW p \in Pos, NEW d \in EarlierInserts(p)
    PROVE  \E q \in 1..(p - 1) : FirstWriter(q, d)
<1> DEFINE W == {q \in 1..(p - 1) : d \in InsertedBy(q)}
<1>1. p \in Nat
  BY NAssumption DEF Pos
<1>2. W \subseteq Nat /\ W # {}
  BY <1>1 DEF EarlierInserts
<1> DEFINE R == OpToRel(<, Nat)
<1>3. IsWellFoundedOn(R, Nat)
  BY NatLessThanWellFounded
<1> HIDE DEF W, R
<1>4. PICK q \in W : \A r \in W : ~(<<r, q>> \in R)
  BY <1>2, <1>3, WFMin
<1>5. \A r \in W : ~(r < q)
  BY <1>2, <1>4 DEF R, OpToRel
<1>6. q \in 1..(p - 1) /\ d \in InsertedBy(q)
  BY DEF W
<1>7. ASSUME NEW r \in 1..(q - 1) PROVE d \notin InsertedBy(r)
  <2>1. r < q /\ r \in 1..(p - 1)
    BY <1>1, <1>6
  <2>2. QED BY <1>5, <2>1 DEF W
<1>8. d \notin EarlierInserts(q)
  BY <1>7 DEF EarlierInserts
<1>9. QED BY <1>6, <1>8 DEF FirstWriter

LEMMA SeesDependenciesStep ==
    ASSUME IInv, VerdictInv, BucketInv, ReplaySeesDependencies,
           Mode = "deps", \A j, k \in Key : Digest[j] = Digest[k] => j = k,
           [ScheduledNext]_scheduledVars
    PROVE  ReplaySeesDependencies'
<1> USE NAssumption
<1>1. [Next]_vars
  BY ScheduledStep
<1>2. CASE phase = "check"
  <2>1. submitted' = {}
    <3>1. ~Walk
      BY <1>2 DEF Walk, CommitClean, CommitReplay, StartRecheck, RecheckStep,
           RecheckDone, ApplyEntry, SkipEntry, AdvanceFrontier, AtFrontier, Applying,
           IInv, PhaseInv
    <3>2. QED BY <1>1, <1>2, <3>1 DEF Next, Dispatch, WorkerStep, Submit, ReplayStep,
                 Join, Terminated, vars, replayVars, IInv, PhaseInv
  <2>2. QED BY <2>1 DEF ReplaySeesDependencies
<1>3. CASE phase = "commit"
  <2>1. log' = log
    BY <1>1, <1>3, LogsFinal
  <2>2. \A p \in Pos : /\ NoneEarlier(p)' <=> NoneEarlier(p)
                       /\ EarlierInserts(p)' = EarlierInserts(p)
    BY <2>1, PredictedFinal
  <2>3. submitted \subseteq Pos /\ replay \in [Pos -> Log]
    BY DEF IInv, TypeOK
  <2>4. CASE \E p \in Pos : Submit(p)
    <3>1. PICK p \in Pos : Submit(p)
      BY <2>4
    <3>2. submitted' = submitted \cup {p} /\ replay' = replay /\ replay[p].misses = {}
      <4>1. p \notin submitted /\ submitted' = submitted \cup {p} /\ replay' = replay
        BY <3>1 DEF Submit
      <4>2. replay[p] = FreshLog(p)
        BY <4>1 DEF BucketInv
      <4>3. FreshLog(p).misses = {}
        BY DEF FreshLog
      <4>4. QED BY <4>1, <4>2, <4>3
    <3>3. QED BY <2>1, <2>2, <2>3, <3>2 DEF ReplaySeesDependencies
  <2>5. CASE \E p \in Pos : ReplayStep(p)
    <3>1. PICK p \in Pos : ReplayStep(p)
      BY <2>5
    <3> DEFINE l == replay[p].loc
               k == KeyAt[l]
    <3>2. p \in submitted /\ submitted' = submitted /\ l \in Loc /\ k \in Key
      BY <2>3, <3>1, ProgramAssumption DEF ReplayStep, Log
    <3>3. \A q \in Pos : q # p => replay'[q] = replay[q]
      BY <2>3, <3>1 DEF ReplayStep
    <3>4. replay'[p] = Performed(caches, OwnOverlay(p, replay[p]), p, replay[p])
      BY <2>3, <3>1 DEF ReplayStep, PerformedLive
    <3>5. \/ replay'[p].misses = replay[p].misses
          \/ /\ replay'[p].misses = replay[p].misses \cup {Digest[k]}
             /\ k \notin DOMAIN caches
      <4>1. replay'[p].misses =
              IF AnswerOf(caches, OwnOverlay(p, replay[p]), k) = Miss
              THEN replay[p].misses \cup {Digest[k]} ELSE replay[p].misses
        BY <3>4 DEF Performed
      <4>2. CASE k \in DOMAIN caches
        <5>1. caches[k] \in Publisher
          BY <4>2, CachesElim DEF IInv, TypeOK
        <5>2. AnswerOf(caches, OwnOverlay(p, replay[p]), k) # Miss
          BY <4>2, <5>1, MissIsNoPublisher DEF AnswerOf
        <5>3. QED BY <4>1, <5>2
      <4>3. QED BY <4>1, <4>2
    <3> HIDE DEF k, l
    <3>6. ASSUME NoneEarlier(p), k \notin DOMAIN caches,
                 Digest[k] \in log[p].misses, Digest[k] \in EarlierInserts(p)
          PROVE  FALSE
      <4>1. PICK q \in 1..(p - 1) : FirstWriter(q, Digest[k])
        BY <3>6, FirstWriterExists
      <4>2. q \in DepsOf(p)
        BY <3>6, <4>1 DEF DepsOf
      <4>3. q \in Pos /\ q < frontier
        BY <3>2, <4>2, DependenciesCommitted
      <4>4. NoneEarlier(q) /\ q \notin Predicted
        <5>1. p \in Nat /\ q \in Nat /\ 1..(q - 1) \subseteq 1..(p - 1)
          BY DEF Pos
        <5>2. QED BY <3>6, <5>1 DEF NoneEarlier
      <4>5. q \notin dirty
        BY <4>3, <4>4 DEF VerdictInv
      <4>6. PICK j \in PublishedBy(q) : Digest[k] = Digest[j]
        BY <4>1, <4>3, <4>5, CleanPublishes DEF FirstWriter
      <4>7. j \in DOMAIN caches /\ j \in Key
        BY CachesElim DEF PublishedBy, IInv, TypeOK
      <4>8. QED BY <3>2, <3>6, <4>6, <4>7
    <3>7. NoneEarlier(p) => log[p].misses \cap replay'[p].misses \cap EarlierInserts(p) = {}
      BY <3>2, <3>5, <3>6 DEF ReplaySeesDependencies
    <3>8. QED BY <2>1, <2>2, <2>3, <3>2, <3>3, <3>7 DEF ReplaySeesDependencies
  <2>6. CASE ~(\E p \in Pos : Submit(p)) /\ ~(\E p \in Pos : ReplayStep(p))
    <3>1. submitted' = submitted /\ replay' = replay
      BY <1>1, <2>6 DEF Next, vars, replayVars, Dispatch, WorkerStep, Join,
         Walk, CommitClean, CommitReplay, StartRecheck, RecheckStep, RecheckDone,
         ApplyEntry, SkipEntry, AdvanceFrontier, Terminated
    <3>2. QED BY <2>1, <2>2, <2>3, <3>1 DEF ReplaySeesDependencies
  <2>7. QED BY <2>4, <2>5, <2>6
<1>4. QED BY <1>2, <1>3 DEF IInv, TypeOK

\* compute_submit_schedule launches the replay of the first conflict late
\* enough: it never misses again what its worker's log says an earlier
\* position publishes.  Digests must not collide, since a replay may well miss
\* a key whose digest another published key shares.
THEOREM AlwaysReplaySeesDependencies ==
    ASSUME CapNotReached, Mode = "deps",
           \A j, k \in Key : Digest[j] = Digest[k] => j = k
    PROVE  ScheduledSpec => []ReplaySeesDependencies
<1>1. ScheduledInit => DigestInv /\ VerdictInv /\ BucketInv /\ ReplaySeesDependencies
  BY NAssumption DEF ScheduledInit, Init, DigestInv, VerdictInv, BucketInv,
                     ReplaySeesDependencies, Pos, FreshLog
<1>2. IInv /\ DigestInv /\ VerdictInv /\ BucketInv /\ ReplaySeesDependencies
      /\ [ScheduledNext]_scheduledVars
        => DigestInv' /\ VerdictInv' /\ BucketInv' /\ ReplaySeesDependencies'
  BY ScheduledStep, DigestInvStep, VerdictInvStep, BucketInvStep, SeesDependenciesStep
<1>3. ScheduledSpec => []IInv
  BY ScheduleIsOnlyAHint, InductiveInvariant, PTL
<1>4. QED BY <1>1, <1>2, <1>3, PTL DEF ScheduledSpec
=============================================================================
