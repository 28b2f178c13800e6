------------------------ MODULE ReplayPipelineProofs ------------------------
(***************************************************************************)
(* The invariants of the frontier pipeline, for every number of positions  *)
(* and threads, every schedule that the code can compute, every set of     *)
(* reservations and every bound on deferrals.                              *)
(***************************************************************************)
EXTENDS ReplayPipeline, SequenceTheorems, FiniteSetTheorems, TLAPS

(* Sequences: which elements they have, and how often. *)

Once(s, e) == \A i, j \in DOMAIN s : s[i] = e /\ s[j] = e => i = j

\* The same for the first components of a sequence of pairs.
HasFirst(s, p) == \E i \in DOMAIN s : s[i][1] = p

OnceFirst(s, p) == \A i, j \in DOMAIN s : s[i][1] = p /\ s[j][1] = p => i = j

LEMMA EmptyElements ==
    \A x : /\ ~InSeq(<<>>, x) /\ Once(<<>>, x)
           /\ ~HasFirst(<<>>, x) /\ OnceFirst(<<>>, x)
BY DEF InSeq, Once, HasFirst, OnceFirst

LEMMA AppendElements ==
    ASSUME NEW S, NEW s \in Seq(S), NEW e \in S
    PROVE  /\ Append(s, e) \in Seq(S)
           /\ Append(s, e) # <<>>
           /\ \A x : InSeq(Append(s, e), x) <=> InSeq(s, x) \/ x = e
           /\ \A x : Once(s, x) /\ (x = e => ~InSeq(s, x)) => Once(Append(s, e), x)
           /\ \A x : HasFirst(Append(s, e), x) <=> HasFirst(s, x) \/ x = e[1]
           /\ \A x : OnceFirst(s, x) /\ (x = e[1] => ~HasFirst(s, x))
                         => OnceFirst(Append(s, e), x)
<1> DEFINE a == Append(s, e)
           n == Len(s)
<1>1. /\ a \in Seq(S) /\ a # <<>> /\ n \in Nat
      /\ DOMAIN a = 1..(n + 1) /\ DOMAIN s = 1..n
      /\ \A i \in 1..n : a[i] = s[i]
      /\ a[n + 1] = e
  BY AppendProperties, LenProperties
<1> HIDE DEF a, n
<1>2. \A i \in 1..(n + 1) : i \in 1..n \/ i = n + 1
  BY <1>1
<1>3. \A i \in 1..n : i \in 1..(n + 1)
  BY <1>1
<1>4. n + 1 \in 1..(n + 1)
  BY <1>1
<1>5. \A x : InSeq(a, x) <=> InSeq(s, x) \/ x = e
  BY <1>1, <1>2, <1>3, <1>4 DEF InSeq
<1>6. \A x : Once(s, x) /\ (x = e => ~InSeq(s, x)) => Once(a, x)
  BY <1>1, <1>2, <1>3, <1>4 DEF InSeq, Once
<1>7. \A x : HasFirst(a, x) <=> HasFirst(s, x) \/ x = e[1]
  BY <1>1, <1>2, <1>3, <1>4 DEF HasFirst
<1>8. \A x : OnceFirst(s, x) /\ (x = e[1] => ~HasFirst(s, x)) => OnceFirst(a, x)
  BY <1>1, <1>2, <1>3, <1>4 DEF HasFirst, OnceFirst
<1> QED
  BY <1>1, <1>5, <1>6, <1>7, <1>8 DEF a

LEMMA TailElements ==
    ASSUME NEW S, NEW s \in Seq(S), s # <<>>
    PROVE  /\ Head(s) \in S /\ Tail(s) \in Seq(S)
           /\ \A x : InSeq(s, x) <=> InSeq(Tail(s), x) \/ x = Head(s)
           /\ \A x : Once(s, x) => /\ Once(Tail(s), x)
                                   /\ x = Head(s) => ~InSeq(Tail(s), x)
           /\ \A x : HasFirst(s, x) <=> HasFirst(Tail(s), x) \/ x = Head(s)[1]
           /\ \A x : OnceFirst(s, x) => /\ OnceFirst(Tail(s), x)
                                        /\ x = Head(s)[1] => ~HasFirst(Tail(s), x)
<1> DEFINE u == Tail(s)
           n == Len(s)
<1>1. /\ Head(s) \in S /\ u \in Seq(S) /\ n \in Nat \ {0}
      /\ DOMAIN u = 1..(n - 1) /\ DOMAIN s = 1..n
      /\ \A i \in 1..(n - 1) : u[i] = s[i + 1]
      /\ Head(s) = s[1]
  BY HeadTailProperties, LenProperties, EmptySeq
<1> HIDE DEF u, n
<1>2. \A i \in 1..n : i = 1 \/ (i - 1 \in 1..(n - 1) /\ u[i - 1] = s[i])
  BY <1>1
<1>3. \A i \in 1..(n - 1) : i + 1 \in 1..n /\ u[i] = s[i + 1]
  BY <1>1
<1>4. 1 \in 1..n
  BY <1>1
<1>5. \A i, j \in 1..(n - 1) : i + 1 # 1 /\ (i + 1 = j + 1 => i = j)
  BY <1>1
<1>6. \A x : InSeq(s, x) <=> InSeq(u, x) \/ x = Head(s)
  BY <1>1, <1>2, <1>3, <1>4 DEF InSeq
<1>7. ASSUME NEW x, Once(s, x) PROVE Once(u, x) /\ (x = Head(s) => ~InSeq(u, x))
  BY <1>1, <1>3, <1>4, <1>5, <1>7 DEF InSeq, Once
<1>8. ASSUME NEW x PROVE HasFirst(s, x) <=> HasFirst(u, x) \/ x = Head(s)[1]
  <2>1. HasFirst(u, x) => HasFirst(s, x)
    BY <1>1, <1>3 DEF HasFirst
  <2>2. x = Head(s)[1] => HasFirst(s, x)
    BY <1>1, <1>4 DEF HasFirst
  <2>3. HasFirst(s, x) => HasFirst(u, x) \/ x = Head(s)[1]
    BY <1>1, <1>2 DEF HasFirst
  <2> QED BY <2>1, <2>2, <2>3
<1>9. ASSUME NEW x, OnceFirst(s, x)
      PROVE  OnceFirst(u, x) /\ (x = Head(s)[1] => ~HasFirst(u, x))
  <2>1. ASSUME NEW i \in 1..(n - 1), NEW j \in 1..(n - 1), u[i][1] = x, u[j][1] = x
        PROVE  i = j
    <3>1. i + 1 \in DOMAIN s /\ j + 1 \in DOMAIN s /\ s[i + 1][1] = x /\ s[j + 1][1] = x
      BY <1>1, <1>3, <2>1
    <3>2. i + 1 = j + 1
      BY <3>1, <1>9 DEF OnceFirst
    <3> QED BY <3>2, <1>5
  <2>2. x = Head(s)[1] => ~HasFirst(u, x)
    BY <1>1, <1>3, <1>4, <1>5, <1>9 DEF HasFirst, OnceFirst
  <2>3. OnceFirst(u, x)
    BY <2>1, <1>1 DEF OnceFirst
  <2> QED BY <2>2, <2>3
<1>10. u = Tail(s)
  BY DEF u
<1>11. \A x : Once(s, x) => Once(u, x) /\ (x = Head(s) => ~InSeq(u, x))
  BY <1>7
<1>12. \A x : HasFirst(s, x) <=> HasFirst(u, x) \/ x = Head(s)[1]
  BY <1>8
<1>13. \A x : OnceFirst(s, x) => OnceFirst(u, x) /\ (x = Head(s)[1] => ~HasFirst(u, x))
  BY <1>9
<1> QED
  BY <1>1, <1>6, <1>10, <1>11, <1>12, <1>13
-----------------------------------------------------------------------------
(* Types, and where each phase of the walk can be. *)

TableOK == table \in [Pos -> [Key -> {"None", "Pending", "Ready"}]]

PoolOK ==
    /\ queue \in Seq(Pos)
    /\ DOMAIN results \subseteq Pos
    /\ \A p \in DOMAIN results : results[p] \in 0..N
    /\ newlyDeferred \in Seq(Pos \X Pos)
    /\ notify \in {"none", "one", "all"}

CoordOK ==
    /\ submitAt \in Schedules
    /\ pc \in {"begin", "wake", "route", "take", "waiting", "commit", "stop", "join", "done"}
    /\ frontier \in 1..(N + 1)
    /\ frontier = N + 1 <=> pc \in {"stop", "join", "done"}
    /\ submitted \in [Pos -> BOOLEAN]
    /\ deferCount \in [Pos -> Nat]
    /\ parked \in [Pos -> Seq(Pos)]
    /\ todo \in Seq(Pos)
    /\ todo # <<>> => pc = "wake"
    /\ drained \in Seq(Pos \X Pos)
    /\ drained # <<>> => pc = "route"
    /\ retrying \in BOOLEAN
    /\ retrying => pc \in {"take", "waiting", "commit"}

ThreadOK ==
    /\ thread \in [Thread -> [pc : {"poll", "waiting", "run", "announce", "exited"},
                              pos : 0..N, blocked : 0..N]]
    /\ \A t \in Thread : thread[t].pc = "run" => thread[t].pos \in Pos

TypeOK == TableOK /\ PoolOK /\ CoordOK /\ ThreadOK

-----------------------------------------------------------------------------
(* When threads exit and what is still to be notified. *)

StopInv ==
    /\ shutdown \in BOOLEAN
    /\ shutdown <=> pc \in {"join", "done"}
    /\ pc \in {"commit", "stop"} => notify = "none"
    /\ shutdown => notify # "one"
    /\ \A t \in Thread : thread[t].pc = "exited" => shutdown /\ queue = <<>>

\* Where an attempt at a position, or the duty to make one, can be.
Runs(t, p) == thread[t].pc = "run" /\ thread[t].pos = p

Running(p) == \E t \in Thread : Runs(t, p)

Parked(p) == \E q \in Pos : InSeq(parked[q], p)

\* At most one attempt, or duty to make one, for a position ahead of the
\* frontier.
SingleToken(p) ==
    /\ Once(todo, p) /\ Once(queue, p)
    /\ \A t, u \in Thread : Runs(t, p) /\ Runs(u, p) => t = u
    /\ OnceFirst(newlyDeferred, p) /\ OnceFirst(drained, p)
    /\ \A q \in Pos : Once(parked[q], p)
    /\ \A q, r \in Pos : InSeq(parked[q], p) /\ InSeq(parked[r], p) => q = r

Exclusive(p) ==
    /\ InSeq(todo, p) => /\ ~InSeq(queue, p) /\ ~Running(p) /\ ~HasFirst(newlyDeferred, p)
                         /\ ~HasFirst(drained, p) /\ ~Parked(p)
    /\ InSeq(queue, p) => /\ ~Running(p) /\ ~HasFirst(newlyDeferred, p)
                          /\ ~HasFirst(drained, p) /\ ~Parked(p)
    /\ Running(p) => ~HasFirst(newlyDeferred, p) /\ ~HasFirst(drained, p) /\ ~Parked(p)
    /\ HasFirst(newlyDeferred, p) => ~HasFirst(drained, p) /\ ~Parked(p)
    /\ HasFirst(drained, p) => ~Parked(p)

NoToken(p) ==
    /\ ~InSeq(todo, p) /\ ~InSeq(queue, p) /\ ~Running(p)
    /\ ~HasFirst(newlyDeferred, p) /\ ~HasFirst(drained, p) /\ ~Parked(p)

TokenInv ==
    \A p \in Pos : p > frontier =>
        SingleToken(p) /\ Exclusive(p) /\ (~submitted[p] => NoToken(p))

-----------------------------------------------------------------------------
(* A position that has not been requeued: its first attempt, which ends    *)
(* before the walk passes it.                                              *)

NoAttempt(p) == ~InSeq(queue, p) /\ ~Running(p)

\* No attempt at p has been made.
Untried(p) == \/ p = frontier /\ pc = "commit"
              \/ p >= frontier /\ ~submitted[p] /\ ~(p = frontier /\ retrying)

FirstAttempt(p) ==
    /\ Once(queue, p)
    /\ \A t, u \in Thread : Runs(t, p) /\ Runs(u, p) => t = u
    /\ InSeq(queue, p) => ~Running(p)
    /\ p \in DOMAIN results => NoAttempt(p)
    /\ p < frontier => NoAttempt(p)
    /\ Untried(p) => NoAttempt(p) /\ p \notin DOMAIN results

FirstInv ==
    \A p \in Pos :
        /\ InSeq(todo, p) \/ Parked(p) => deferCount[p] > 0
        /\ submitted[p] => p \in Active
        /\ deferCount[p] = 0 => FirstAttempt(p)

CountInv ==
    /\ pending = Cardinality(PendingIn(table))
    /\ pc = "done" => PendingIn(table) = {}

-----------------------------------------------------------------------------
(* Type correctness. *)

LEMMA TypeInit == Init => TypeOK
<1> SUFFICES ASSUME Init PROVE TypeOK
  OBVIOUS
<1> USE PositionsAssumption, SchedulesAssumption DEF Init, Pos
<1>1. TableOK
  <2> PICK r \in Reservations : table = Reserved(r)
    OBVIOUS
  <2> QED BY DEF TableOK, Reserved
<1>2. PoolOK
  BY DEF PoolOK
<1>3. CoordOK
  <2>1. /\ frontier \in 1..(N + 1) /\ frontier # N + 1
        /\ submitAt \in Schedules /\ pc = "begin" /\ retrying = FALSE
    OBVIOUS
  <2>2. todo \in Seq(Pos) /\ drained \in Seq(Pos \X Pos) /\ todo = <<>> /\ drained = <<>>
    OBVIOUS
  <2>3. /\ submitted \in [Pos -> BOOLEAN] /\ deferCount \in [Pos -> Nat]
        /\ parked \in [Pos -> Seq(Pos)]
    OBVIOUS
  <2> QED BY <2>1, <2>2, <2>3 DEF CoordOK
<1>4. ThreadOK
  BY DEF ThreadOK
<1> QED BY <1>1, <1>2, <1>3, <1>4 DEF TypeOK

LEMMA FinalizeType ==
    ASSUME TableOK, NEW k, Finalize(k)
    PROVE  TableOK'
BY DEF TableOK, Finalize, Finalized

LEMMA EnqueueType ==
    ASSUME PoolOK, NEW p \in Pos, Enqueue(p)
    PROVE  PoolOK'
BY AppendElements DEF PoolOK, Enqueue

LEMMA FrontierMoves ==
    ASSUME CoordOK, pc \in {"begin", "wake", "route", "take", "waiting", "commit"}
    PROVE  /\ frontier \in Pos /\ frontier + 1 \in 1..(N + 1)
           /\ frontier + 1 = N + 1 <=> frontier = N
<1>1. frontier \in 1..(N + 1) /\ frontier # N + 1 /\ N \in Nat
  BY PositionsAssumption DEF CoordOK
<1> QED BY <1>1 DEF Pos

LEMMA TypeStep == TypeOK /\ [Next]_vars => TypeOK'
<1> SUFFICES ASSUME TypeOK, [Next]_vars PROVE TypeOK'
  OBVIOUS
<1> USE PositionsAssumption, SchedulesAssumption DEF Pos
<1> USE DEF TypeOK, tableVars, poolVars, coordVars
<1>1. ASSUME NEW t \in Thread, NextTask(t) PROVE TypeOK'
  <2>1. Head(queue) \in Pos /\ Tail(queue) \in Seq(Pos)
    BY <1>1, TailElements DEF PoolOK, NextTask
  <2>2. TableOK' /\ CoordOK'
    BY <1>1 DEF TableOK, CoordOK, NextTask
  <2>3. PoolOK'
    BY <1>1, <2>1 DEF PoolOK, NextTask
  <2>4. ThreadOK'
    BY <1>1, <2>1 DEF ThreadOK, NextTask
  <2> QED BY <2>2, <2>3, <2>4
<1>2. ASSUME NEW t \in Thread, NoTask(t) PROVE TypeOK'
  <2>1. TableOK' /\ CoordOK' /\ PoolOK'
    BY <1>2 DEF TableOK, CoordOK, PoolOK, NoTask
  <2>2. ThreadOK'
    BY <1>2 DEF ThreadOK, NoTask
  <2> QED BY <2>1, <2>2
<1>3. ASSUME NEW t \in Thread, NEW x \in Key, Lookup(t, x) PROVE TypeOK'
  <2>1. TableOK' /\ CoordOK' /\ PoolOK'
    BY <1>3 DEF TableOK, CoordOK, PoolOK, Lookup
  <2>2. ThreadOK'
    BY <1>3 DEF ThreadOK, Lookup
  <2> QED BY <2>1, <2>2
<1>4. ASSUME NEW t \in Thread, Deliver(t) PROVE TypeOK'
  <2>1. TableOK' /\ CoordOK'
    BY <1>4 DEF TableOK, CoordOK, Deliver
  <2>2. ThreadOK'
    BY <1>4 DEF ThreadOK, Deliver
  <2>3. thread[t].pos \in Pos /\ thread[t].blocked \in 0..N
    BY <1>4 DEF ThreadOK, Deliver
  <2>4. thread[t].blocked # Valid => <<thread[t].pos, thread[t].blocked>> \in Pos \X Pos
    BY <2>3 DEF Valid
  <2>5. newlyDeferred' \in Seq(Pos \X Pos)
    BY <1>4, <2>4, AppendElements DEF PoolOK, Deliver
  <2>6. PoolOK'
    BY <1>4, <2>3, <2>5 DEF PoolOK, Deliver
  <2> QED BY <2>1, <2>2, <2>6
<1>5. ASSUME NEW t \in Thread, Announce(t) PROVE TypeOK'
  <2>1. TableOK' /\ CoordOK' /\ PoolOK'
    BY <1>5 DEF TableOK, CoordOK, PoolOK, Announce
  <2>2. ThreadOK'
    BY <1>5 DEF ThreadOK, Announce
  <2> QED BY <2>1, <2>2
<1>6. CASE Notify
  <2>1. TableOK' /\ CoordOK' /\ PoolOK'
    BY <1>6 DEF TableOK, CoordOK, PoolOK, Notify
  <2>2. ThreadOK'
    <3>1. PICK T \in SUBSET Sleeping : thread' = Woken(T) \/ thread' = thread
      BY <1>6 DEF Notify, Sleeping
    <3>2. CASE thread' = thread
      BY <3>2 DEF ThreadOK
    <3>3. CASE thread' = Woken(T)
      BY <3>3 DEF ThreadOK, Woken
    <3> QED BY <3>1, <3>2, <3>3
  <2> QED BY <2>1, <2>2
<1>7. CASE SubmitDue
  <2>1. PICK p \in Pos : Enqueue(p) /\ submitted' = [submitted EXCEPT ![p] = TRUE]
    BY <1>7 DEF SubmitDue, Due
  <2>2. PoolOK'
    BY <2>1, EnqueueType
  <2>3. TableOK' /\ CoordOK' /\ ThreadOK'
    BY <1>7, <2>1 DEF TableOK, CoordOK, ThreadOK, SubmitDue
  <2> QED BY <2>2, <2>3
<1>8. CASE Wake
  <2>1. Released \in Seq(Pos)
    <3>1. frontier \in Pos /\ parked \in [Pos -> Seq(Pos)]
      BY <1>8 DEF CoordOK, Wake
    <3>2. frontier # 1 => frontier - 1 \in Pos
      BY <3>1
    <3>3. <<>> \in Seq(Pos)
      OBVIOUS
    <3> QED BY <3>1, <3>2, <3>3 DEF Released
  <2>2. TableOK' /\ PoolOK' /\ ThreadOK'
    BY <1>8 DEF TableOK, PoolOK, ThreadOK, Wake
  <2>3. CoordOK'
    BY <1>8, <2>1 DEF CoordOK, Wake
  <2> QED BY <2>2, <2>3
<1>9. CASE Resubmit
  <2>1. Head(todo) \in Pos /\ Tail(todo) \in Seq(Pos)
    BY <1>9, TailElements DEF CoordOK, Resubmit
  <2>2. PoolOK'
    BY <1>9, <2>1, EnqueueType DEF PoolOK, Resubmit
  <2>3. TableOK' /\ CoordOK' /\ ThreadOK'
    BY <1>9, <2>1 DEF TableOK, CoordOK, ThreadOK, Resubmit
  <2> QED BY <2>2, <2>3
<1>10. CASE Drain
  <2>1. TableOK' /\ PoolOK' /\ ThreadOK'
    BY <1>10 DEF TableOK, PoolOK, ThreadOK, Drain
  <2>2. CoordOK'
    BY <1>10 DEF CoordOK, PoolOK, Drain
  <2> QED BY <2>1, <2>2
<1>11. ASSUME RouteHead PROVE /\ Head(drained)[1] \in Pos /\ Head(drained)[2] \in Pos
                              /\ Tail(drained) \in Seq(Pos \X Pos)
                              /\ deferCount' \in [Pos -> Nat]
  <2>1. Head(drained) \in Pos \X Pos /\ Tail(drained) \in Seq(Pos \X Pos)
    BY <1>11, TailElements DEF CoordOK, RouteHead
  <2>2. Head(drained)[1] \in Pos /\ Head(drained)[2] \in Pos
    BY <2>1
  <2>3. deferCount' \in [Pos -> Nat]
    <3>1. deferCount \in [Pos -> Nat]
      BY DEF CoordOK
    <3>2. \/ deferCount' = deferCount
          \/ deferCount' = [deferCount EXCEPT ![Head(drained)[1]] = @ + 1]
      BY <1>11 DEF RouteHead
    <3> QED BY <2>2, <3>1, <3>2
  <2> QED BY <2>1, <2>2, <2>3
<1>12. ASSUME RouteHead, parked' \in [Pos -> Seq(Pos)], PoolOK' PROVE TypeOK'
  <2>1. TableOK' /\ ThreadOK'
    BY <1>12 DEF TableOK, ThreadOK, RouteHead
  <2>2. CoordOK'
    BY <1>11, <1>12 DEF CoordOK, RouteHead
  <2> QED BY <1>12, <2>1, <2>2
<1>13. CASE RouteDrop
  BY <1>12, <1>13 DEF RouteDrop, PoolOK, CoordOK
<1>14. CASE RouteSubmit
  <2>1. PoolOK'
    BY <1>11, <1>14, EnqueueType DEF RouteSubmit
  <2> QED BY <1>12, <1>14, <2>1 DEF RouteSubmit, CoordOK
<1>15. CASE RoutePark
  <2>1. PoolOK'
    BY <1>15 DEF RoutePark, PoolOK
  <2>2. parked' \in [Pos -> Seq(Pos)]
    <3> DEFINE b == Head(drained)[2]
    <3>1. b \in Pos /\ parked[b] \in Seq(Pos) /\ Head(drained)[1] \in Pos
      BY <1>11, <1>15 DEF RoutePark, CoordOK
    <3>2. Append(parked[b], Head(drained)[1]) \in Seq(Pos)
      BY <3>1, AppendElements
    <3> QED BY <1>15, <3>1, <3>2 DEF RoutePark, CoordOK
  <2> QED BY <1>12, <1>15, <2>1, <2>2 DEF RoutePark
<1>16. CASE RouteDone
  <2>1. TableOK' /\ PoolOK' /\ ThreadOK'
    BY <1>16 DEF TableOK, PoolOK, ThreadOK, RouteDone
  <2>2. CoordOK'
    BY <1>16 DEF CoordOK, RouteDone
  <2> QED BY <2>1, <2>2
<1>17. CASE SkipInactive
  <2>1. TableOK' /\ PoolOK' /\ ThreadOK'
    BY <1>17 DEF TableOK, PoolOK, ThreadOK, SkipInactive
  <2>2. CoordOK'
    BY <1>17, FrontierMoves DEF CoordOK, SkipInactive
  <2> QED BY <2>1, <2>2
<1>18. CASE Take
  <2>1. TableOK' /\ ThreadOK'
    BY <1>18 DEF TableOK, ThreadOK, Take
  <2>2. PoolOK'
    BY <1>18 DEF PoolOK, Take
  <2>3. CoordOK'
    BY <1>18 DEF CoordOK, Take
  <2> QED BY <2>1, <2>2, <2>3
<1>19. CASE Commit
  <2>1. PoolOK' /\ ThreadOK'
    BY <1>19 DEF PoolOK, ThreadOK, Commit
  <2>2. CoordOK'
    BY <1>19, FrontierMoves DEF CoordOK, Commit
  <2> QED BY <1>19, <2>1, <2>2, FinalizeType DEF Commit
<1>20. CASE CommitNeedsReplay
  <2>1. ThreadOK'
    BY <1>20 DEF ThreadOK, CommitNeedsReplay
  <2>2. CoordOK'
    BY <1>20 DEF CoordOK, CommitNeedsReplay
  <2>3. frontier \in Pos
    BY <1>20 DEF CoordOK, CommitNeedsReplay
  <2>4. PoolOK'
    BY <1>20, <2>3, EnqueueType DEF CommitNeedsReplay
  <2> QED BY <1>20, <2>1, <2>2, <2>4, FinalizeType DEF CommitNeedsReplay
<1>21. CASE Shutdown
  BY <1>21 DEF TableOK, PoolOK, CoordOK, ThreadOK, Shutdown
<1>22. CASE JoinThreads
  <2>1. PoolOK' /\ ThreadOK'
    BY <1>22 DEF PoolOK, ThreadOK, JoinThreads
  <2>2. CoordOK'
    BY <1>22 DEF CoordOK, JoinThreads
  <2> QED BY <1>22, <2>1, <2>2, FinalizeType DEF JoinThreads
<1>23. CASE UNCHANGED vars
  BY <1>23 DEF TableOK, PoolOK, CoordOK, ThreadOK, vars
<1> QED
  BY <1>1, <1>2, <1>3, <1>4, <1>5, <1>6, <1>7, <1>8, <1>9, <1>10, <1>13, <1>14, <1>15,
     <1>16, <1>17, <1>18, <1>19, <1>20, <1>21, <1>22, <1>23
  DEF Next, Coordinate, Run, Terminated

\* What the threads run, after each step that moves one of them.
LEMMA RunsStep ==
    ASSUME TypeOK
    PROVE  /\ \A t \in Thread : NextTask(t) =>
                  \A u \in Thread, p \in Pos :
                      Runs(u, p)' <=> Runs(u, p) \/ (u = t /\ p = Head(queue))
           /\ \A t \in Thread : Deliver(t) =>
                  /\ Runs(t, thread[t].pos)
                  /\ \A u \in Thread, p \in Pos : Runs(u, p)' <=> Runs(u, p) /\ u # t
           /\ \A t \in Thread : NoTask(t) \/ Announce(t) \/ (\E x \in Key : Lookup(t, x)) =>
                  \A u \in Thread, p \in Pos : Runs(u, p)' <=> Runs(u, p)
           /\ Notify => \A u \in Thread, p \in Pos : Runs(u, p)' <=> Runs(u, p)
<1> USE DEF TypeOK, ThreadOK, Runs
<1>1. ASSUME NEW t \in Thread, NextTask(t), NEW u \in Thread, NEW p \in Pos
      PROVE  Runs(u, p)' <=> Runs(u, p) \/ (u = t /\ p = Head(queue))
  BY <1>1 DEF NextTask
<1>2. ASSUME NEW t \in Thread, Deliver(t)
      PROVE  /\ Runs(t, thread[t].pos)
             /\ \A u \in Thread, p \in Pos : Runs(u, p)' <=> Runs(u, p) /\ u # t
  BY <1>2 DEF Deliver
<1>3. ASSUME NEW t \in Thread, NoTask(t), NEW u \in Thread, NEW p \in Pos
      PROVE  Runs(u, p)' <=> Runs(u, p)
  BY <1>3 DEF NoTask
<1>4. ASSUME NEW t \in Thread, Announce(t), NEW u \in Thread, NEW p \in Pos
      PROVE  Runs(u, p)' <=> Runs(u, p)
  BY <1>4 DEF Announce
<1>5. ASSUME NEW t \in Thread, NEW x \in Key, Lookup(t, x), NEW u \in Thread, NEW p \in Pos
      PROVE  Runs(u, p)' <=> Runs(u, p)
  BY <1>5 DEF Lookup
<1>6. ASSUME Notify, NEW u \in Thread, NEW p \in Pos
      PROVE  Runs(u, p)' <=> Runs(u, p)
  <2>1. PICK T \in SUBSET Sleeping : thread' = Woken(T) \/ thread' = thread
    BY <1>6 DEF Notify, Sleeping
  <2>2. CASE thread' = Woken(T)
    BY <2>2 DEF Woken, Sleeping
  <2> QED BY <2>1, <2>2
<1> QED BY <1>1, <1>2, <1>3, <1>4, <1>5, <1>6

-----------------------------------------------------------------------------
(* No wake-up is lost. *)

WakeInv == StopInv /\ WorkNeverSleeps

LEMMA WakeInit == Init => WakeInv
<1> SUFFICES ASSUME Init PROVE WakeInv
  OBVIOUS
<1>1. queue = <<>> /\ pc = "begin" /\ shutdown = FALSE /\ notify = "none"
  BY DEF Init
<1>2. \A t \in Thread : thread[t].pc = "poll"
  BY DEF Init
<1> QED BY <1>1, <1>2 DEF WakeInv, StopInv, WorkNeverSleeps

LEMMA WakeStep == TypeOK /\ WakeInv /\ [Next]_vars => WakeInv'
<1> SUFFICES ASSUME TypeOK, WakeInv, [Next]_vars PROVE WakeInv'
  OBVIOUS
<1> USE DEF WakeInv, tableVars, poolVars, coordVars
<1>1. ASSUME NEW t \in Thread, NextTask(t) PROVE WakeInv'
  <2>1. Tail(queue) \in Seq(Pos) /\ queue # <<>>
    BY <1>1, TailElements DEF TypeOK, PoolOK, NextTask
  <2>2. thread'[t].pc = "run" /\ \A u \in Thread : u # t => thread'[u] = thread[u]
    BY <1>1 DEF NextTask, TypeOK, ThreadOK
  <2>3. StopInv'
    BY <1>1, <2>1, <2>2 DEF NextTask, StopInv
  <2>4. WorkNeverSleeps'
    BY <1>1, <2>2 DEF NextTask, WorkNeverSleeps
  <2> QED BY <2>3, <2>4
<1>2. ASSUME NEW t \in Thread, NoTask(t) PROVE WakeInv'
  <2>1. /\ thread'[t].pc = IF shutdown THEN "exited" ELSE "waiting"
        /\ \A u \in Thread : u # t => thread'[u] = thread[u]
        /\ queue = <<>> /\ thread[t].pc = "poll"
    BY <1>2 DEF NoTask, TypeOK, ThreadOK
  <2>2. StopInv'
    BY <1>2, <2>1 DEF NoTask, StopInv
  <2>3. WorkNeverSleeps'
    BY <1>2, <2>1 DEF NoTask, WorkNeverSleeps
  <2> QED BY <2>2, <2>3
<1>3. ASSUME NEW t \in Thread, NEW x \in Key, Lookup(t, x) PROVE WakeInv'
  <2>1. \A u \in Thread : thread'[u].pc = thread[u].pc
    BY <1>3 DEF Lookup, TypeOK, ThreadOK
  <2> QED BY <1>3, <2>1 DEF Lookup, StopInv, WorkNeverSleeps
<1>4. ASSUME NEW t \in Thread, Deliver(t) PROVE WakeInv'
  <2>1. thread'[t].pc = "announce" /\ \A u \in Thread : u # t => thread'[u] = thread[u]
    BY <1>4 DEF Deliver, TypeOK, ThreadOK
  <2>2. StopInv'
    BY <1>4, <2>1 DEF Deliver, StopInv
  <2>3. WorkNeverSleeps'
    BY <1>4, <2>1 DEF Deliver, WorkNeverSleeps
  <2> QED BY <2>2, <2>3
<1>5. ASSUME NEW t \in Thread, Announce(t) PROVE WakeInv'
  <2>1. thread'[t].pc = "poll" /\ \A u \in Thread : u # t => thread'[u] = thread[u]
    BY <1>5 DEF Announce, TypeOK, ThreadOK
  <2>2. StopInv'
    BY <1>5, <2>1 DEF Announce, StopInv
  <2>3. WorkNeverSleeps'
    BY <1>5, <2>1 DEF Announce, WorkNeverSleeps
  <2> QED BY <2>2, <2>3
<1>6. CASE Notify
  <2>1. PICK T \in SUBSET Sleeping : thread' = Woken(T) \/ (T = {} /\ thread' = thread)
    BY <1>6 DEF Notify, Sleeping
  <2>2. \A t \in Thread : thread'[t].pc = IF t \in T THEN "poll" ELSE thread[t].pc
    BY <2>1 DEF Woken, TypeOK, ThreadOK
  <2>3. \A t \in T : t \in Thread /\ thread[t].pc = "waiting"
    BY <2>1 DEF Sleeping
  <2>4. StopInv'
    BY <1>6, <2>2, <2>3 DEF StopInv, Notify
  <2>5. queue # <<>> => \E t \in Thread : thread'[t].pc \notin {"waiting", "exited"}
    <3> SUFFICES ASSUME queue # <<>> PROVE \E t \in Thread : thread'[t].pc \notin {"waiting", "exited"}
      OBVIOUS
    <3>1. \A t \in Thread : thread[t].pc # "exited"
      BY DEF StopInv
    <3>2. CASE notify = "one" /\ \E t \in Sleeping : thread' = Woken({t})
      BY <3>2 DEF Woken, Sleeping, TypeOK, ThreadOK
    <3>3. CASE Sleeping = {} /\ UNCHANGED thread
      BY <3>1, <3>3, PoolAssumption DEF Sleeping
    <3>4. CASE thread' = Woken(Sleeping)
      BY <3>1, <3>4, PoolAssumption DEF Sleeping, Woken, TypeOK, ThreadOK
    <3> QED BY <1>6, <3>2, <3>3, <3>4 DEF Notify
  <2>6. WorkNeverSleeps'
    BY <1>6, <2>2, <2>3, <2>5 DEF WorkNeverSleeps, Notify
  <2> QED BY <2>4, <2>6
\* A step of the coordinator that submits: a notification follows.
<1>7. ASSUME NEW p, Enqueue(p), thread' = thread,
             \/ pc \in {"begin", "wake", "route"} /\ pc' = pc
             \/ pc = "commit" /\ pc' = "take"
      PROVE  WakeInv'
  <2>1. StopInv'
    BY <1>7 DEF Enqueue, StopInv
  <2>2. WorkNeverSleeps'
    BY <1>7 DEF Enqueue, WorkNeverSleeps
  <2> QED BY <2>1, <2>2
\* One that does not.
<1>8. ASSUME thread' = thread, queue' = queue, notify' = notify, shutdown' = shutdown,
             pc' \in {"begin", "wake", "route", "take", "commit", "stop"} => notify = "none",
             shutdown <=> pc' \in {"join", "done"},
             pc' = "waiting" => frontier \notin DOMAIN results /\ frontier' = frontier,
             DOMAIN results' \subseteq DOMAIN results
      PROVE  WakeInv'
  <2>1. StopInv'
    BY <1>8 DEF StopInv
  <2>2. WorkNeverSleeps'
    BY <1>8 DEF WorkNeverSleeps
  <2> QED BY <2>1, <2>2
<1>9. CASE SubmitDue
  BY <1>7, <1>9 DEF SubmitDue
<1>10. CASE Wake
  BY <1>8, <1>10 DEF Wake, StopInv
<1>11. CASE Resubmit
  BY <1>7, <1>8, <1>11 DEF Resubmit, StopInv
<1>12. CASE Drain
  BY <1>8, <1>12 DEF Drain, StopInv
<1>13. CASE RouteDrop
  BY <1>8, <1>13 DEF RouteDrop, RouteHead, StopInv
<1>14. CASE RouteSubmit
  BY <1>7, <1>14 DEF RouteSubmit, RouteHead
<1>15. CASE RoutePark
  BY <1>8, <1>15 DEF RoutePark, RouteHead, StopInv
<1>16. CASE RouteDone
  BY <1>8, <1>16 DEF RouteDone, StopInv
<1>17. CASE SkipInactive
  BY <1>8, <1>17 DEF SkipInactive, StopInv
<1>18. CASE Take
  BY <1>8, <1>18 DEF Take, StopInv
<1>19. CASE Commit
  BY <1>8, <1>19 DEF Commit, StopInv
<1>20. CASE CommitNeedsReplay
  BY <1>7, <1>20 DEF CommitNeedsReplay
<1>21. CASE Shutdown
  <2>1. StopInv'
    BY <1>21 DEF Shutdown, StopInv
  <2>2. WorkNeverSleeps'
    BY <1>21 DEF Shutdown, WorkNeverSleeps
  <2> QED BY <2>1, <2>2
<1>22. CASE JoinThreads
  BY <1>8, <1>22 DEF JoinThreads, StopInv
<1>23. CASE UNCHANGED vars
  BY <1>23 DEF StopInv, WorkNeverSleeps, vars
<1> QED
  BY <1>1, <1>2, <1>3, <1>4, <1>5, <1>6, <1>9, <1>10, <1>11, <1>12, <1>13, <1>14, <1>15,
     <1>16, <1>17, <1>18, <1>19, <1>20, <1>21, <1>22, <1>23
  DEF Next, Coordinate, Run, Terminated

-----------------------------------------------------------------------------
(* The count of reservations. *)

LEMMA PendingFinite == TableOK => IsFiniteSet(PendingIn(table))
<1>1. IsFiniteSet(Pos) /\ IsFiniteSet(Key)
  BY FS_Interval, PositionsAssumption, PoolAssumption DEF Pos
<1>2. IsFiniteSet(Pos \X Key)
  BY <1>1, FS_Product
<1> QED BY <1>2, FS_Subset DEF PendingIn

LEMMA FinalizeCount ==
    ASSUME TableOK, pending = Cardinality(PendingIn(table)), NEW k \in Int, Finalize(k)
    PROVE  /\ pending' = Cardinality(PendingIn(table'))
           /\ k = N + 1 => PendingIn(table') = {}
<1> DEFINE P == PendingIn(table)
           D == {c \in P : c[1] < k}
<1>1. IsFiniteSet(P) /\ IsFiniteSet(D)
  BY PendingFinite, FS_Subset
<1>2. PendingIn(table') = P \ D
  <2>1. \A p \in Pos, x \in Key :
            table'[p][x] = "Pending" <=> table[p][x] = "Pending" /\ ~(p < k)
    BY DEF Finalize, Finalized, TableOK
  <2> QED BY <2>1 DEF PendingIn
<1>3. Cardinality(P \ D) = Cardinality(P) - Cardinality(P \cap D)
  BY <1>1, FS_Difference
<1>4. P \cap D = D
  OBVIOUS
<1>5. pending' = Cardinality(PendingIn(table'))
  BY <1>2, <1>3, <1>4 DEF Finalize
<1>6. k = N + 1 => P \subseteq D
  BY PositionsAssumption DEF PendingIn, Pos
<1> QED BY <1>2, <1>5, <1>6

LEMMA CountInit == Init => CountInv
BY DEF Init, CountInv

LEMMA CountStep == TypeOK /\ CountInv /\ [Next]_vars => CountInv'
<1> SUFFICES ASSUME TypeOK, CountInv, [Next]_vars PROVE CountInv'
  OBVIOUS
<1> USE DEF TypeOK, CountInv, tableVars, poolVars, coordVars
<1>1. CASE Commit
  <2>1. frontier \in Int
    BY DEF CoordOK
  <2> QED BY <1>1, <2>1, FinalizeCount DEF Commit
<1>2. CASE CommitNeedsReplay
  <2>1. frontier \in Int
    BY DEF CoordOK
  <2> QED BY <1>2, <2>1, FinalizeCount DEF CommitNeedsReplay
<1>3. CASE JoinThreads
  <2>1. N + 1 \in Int
    BY PositionsAssumption
  <2> QED BY <1>3, <2>1, FinalizeCount DEF JoinThreads
<1>4. ASSUME UNCHANGED tableVars, pc' = "done" => pc = "done" PROVE CountInv'
  BY <1>4
<1>5. ASSUME NEW t \in Thread, Run(t) \/ \E x \in Key : Lookup(t, x) PROVE CountInv'
  BY <1>4, <1>5 DEF Run, NextTask, NoTask, Deliver, Announce, Lookup
<1>6. CASE Notify \/ SubmitDue \/ Wake \/ Resubmit \/ Drain
  BY <1>4, <1>6 DEF Notify, SubmitDue, Wake, Resubmit, Drain
<1>7. CASE RouteDrop \/ RouteSubmit \/ RoutePark
  BY <1>4, <1>7 DEF RouteDrop, RouteSubmit, RoutePark, RouteHead
<1>8. CASE RouteDone \/ SkipInactive \/ Take \/ Shutdown \/ UNCHANGED vars
  BY <1>4, <1>8 DEF RouteDone, SkipInactive, Take, Shutdown, vars
<1> QED
  BY <1>1, <1>2, <1>3, <1>5, <1>6, <1>7, <1>8 DEF Next, Coordinate, Terminated

-----------------------------------------------------------------------------
(* What a step does to the attempts at a position. *)

LEMMA ReplayingRuns == \A p : Replaying(p) # {} <=> Running(p)
BY DEF Replaying, Running, Runs

LEMMA EnqueueElements ==
    ASSUME PoolOK, NEW p \in Pos, Enqueue(p)
    PROVE  /\ \A x : InSeq(queue', x) <=> InSeq(queue, x) \/ x = p
           /\ \A x : Once(queue, x) /\ (x = p => ~InSeq(queue, x)) => Once(queue', x)
           /\ results' = results /\ newlyDeferred' = newlyDeferred
<1>1. queue \in Seq(Pos) /\ queue' = Append(queue, p)
  BY DEF PoolOK, Enqueue
<1> QED BY <1>1, AppendElements DEF Enqueue

LEMMA NextTaskElements ==
    ASSUME TypeOK, NEW t \in Thread, NextTask(t)
    PROVE  /\ Head(queue) \in Pos
           /\ \A x : InSeq(queue, x) <=> InSeq(queue', x) \/ x = Head(queue)
           /\ \A x : Once(queue, x) => /\ Once(queue', x)
                                       /\ x = Head(queue) => ~InSeq(queue', x)
           /\ \A p \in Pos : Running(p)' <=> Running(p) \/ p = Head(queue)
<1>1. queue \in Seq(Pos) /\ queue # <<>> /\ queue' = Tail(queue)
  BY DEF TypeOK, PoolOK, NextTask
<1>2. \A u \in Thread, p \in Pos : Runs(u, p)' <=> Runs(u, p) \/ (u = t /\ p = Head(queue))
  BY RunsStep
<1>3. \A p \in Pos : Running(p)' <=> Running(p) \/ p = Head(queue)
  BY <1>2 DEF Running
<1> QED BY <1>1, <1>3, TailElements

\* The effect of deliver on the attempts and the deliveries.
LEMMA DeliverElements ==
    ASSUME TypeOK, NEW t \in Thread, Deliver(t)
    PROVE  LET p == thread[t].pos
               b == thread[t].blocked
           IN  /\ p \in Pos /\ b \in 0..N /\ Runs(t, p) /\ queue' = queue
               /\ DOMAIN results' = DOMAIN results \cup {p}
               /\ results'[p] = b
               /\ \A q \in DOMAIN results : q # p => results'[q] = results[q]
               /\ \A x : InSeq(newlyDeferred', x) <=> \/ InSeq(newlyDeferred, x)
                                                      \/ b # Valid /\ x = <<p, b>>
               /\ b # Valid => InSeq(newlyDeferred', <<p, b>>)
               /\ \A x : HasFirst(newlyDeferred', x) <=> \/ HasFirst(newlyDeferred, x)
                                                         \/ b # Valid /\ x = p
               /\ \A x : OnceFirst(newlyDeferred, x) /\ (x = p => ~HasFirst(newlyDeferred, x))
                             => OnceFirst(newlyDeferred', x)
               /\ \A q \in Pos : q # p => (Running(q)' <=> Running(q))
<1> DEFINE p == thread[t].pos
           b == thread[t].blocked
<1>1. p \in Pos /\ b \in 0..N /\ Runs(t, p) /\ queue' = queue
  BY DEF TypeOK, ThreadOK, Deliver, Runs
<1>2. /\ DOMAIN results' = DOMAIN results \cup {p}
      /\ results'[p] = b
      /\ \A q \in DOMAIN results : q # p => results'[q] = results[q]
  BY DEF Deliver
<1>3. \A q \in Pos : q # p => (Running(q)' <=> Running(q))
  <2>1. \A u \in Thread, q \in Pos : Runs(u, q)' <=> Runs(u, q) /\ u # t
    BY RunsStep
  <2>2. \A q \in Pos : q # p => ~Runs(t, q)
    BY DEF Runs
  <2> QED BY <2>1, <2>2 DEF Running
<1>4. CASE b = Valid
  <2>1. newlyDeferred' = newlyDeferred
    BY <1>4 DEF Deliver
  <2> QED BY <1>1, <1>2, <1>3, <1>4, <2>1
<1>5. CASE b # Valid
  <2>1. newlyDeferred' = Append(newlyDeferred, <<p, b>>)
    BY <1>5 DEF Deliver
  <2>2. <<p, b>> \in Pos \X Pos /\ newlyDeferred \in Seq(Pos \X Pos)
    BY <1>1, <1>5 DEF Valid, Pos, TypeOK, PoolOK
  <2>3. <<p, b>>[1] = p
    OBVIOUS
  <2>4. /\ \A x : InSeq(newlyDeferred', x) <=> InSeq(newlyDeferred, x) \/ x = <<p, b>>
        /\ \A x : HasFirst(newlyDeferred', x) <=> HasFirst(newlyDeferred, x) \/ x = p
        /\ \A x : OnceFirst(newlyDeferred, x) /\ (x = p => ~HasFirst(newlyDeferred, x))
                         => OnceFirst(newlyDeferred', x)
    BY <2>1, <2>2, <2>3, AppendElements
  <2> QED BY <1>1, <1>2, <1>3, <1>5, <2>4
<1> QED BY <1>4, <1>5

\* The other steps of the threads, and notifications, leave attempts alone.
Idle == \/ Notify
        \/ \E t \in Thread : NoTask(t) \/ Announce(t) \/ \E x \in Key : Lookup(t, x)

LEMMA IdleElements ==
    ASSUME TypeOK, Idle
    PROVE  /\ \A u \in Thread, p \in Pos : Runs(u, p)' <=> Runs(u, p)
           /\ \A p \in Pos : Running(p)' <=> Running(p)
           /\ UNCHANGED <<submitAt, tableVars, poolVars, frontier, submitted, deferCount,
                          parked, todo, drained, retrying>>
           /\ pc' = pc \/ (pc = "waiting" /\ pc' = "take")
<1>1. \A u \in Thread, p \in Pos : Runs(u, p)' <=> Runs(u, p)
  BY RunsStep DEF Idle
<1>2. \A p \in Pos : Running(p)' <=> Running(p)
  BY <1>1 DEF Running
<1>3. /\ UNCHANGED <<submitAt, tableVars, poolVars, frontier, submitted, deferCount,
                     parked, todo, drained, retrying>>
      /\ pc' = pc \/ (pc = "waiting" /\ pc' = "take")
  BY DEF Idle, Notify, NoTask, Announce, Lookup, tableVars, poolVars, coordVars
<1> QED BY <1>1, <1>2, <1>3

\* The steps of the coordinator leave the threads to run what they run.
LEMMA SameRuns ==
    ASSUME thread' = thread
    PROVE  /\ \A u \in Thread, p \in Pos : Runs(u, p)' <=> Runs(u, p)
           /\ \A p \in Pos : Running(p)' <=> Running(p)
BY DEF Runs, Running

-----------------------------------------------------------------------------
(* A delivery is owed. *)

Owed(p) == Untaken(p) => InSeq(queue, p) \/ Running(p) \/ p \in DOMAIN results

OwedInv == \A p \in Pos : Owed(p)

LEMMA OwedAll == OwedInv => DeliveryOwed
BY ReplayingRuns DEF DeliveryOwed, Owed, OwedInv

LEMMA OwedInit == Init => OwedInv
BY DEF Init, OwedInv, Owed, Untaken, Pos

LEMMA OwedStep == TypeOK /\ OwedInv /\ [Next]_vars => OwedInv'
<1> SUFFICES ASSUME TypeOK, OwedInv, [Next]_vars, NEW p \in Pos PROVE Owed(p)'
  BY DEF OwedInv
<1>0. Owed(p)
  BY DEF OwedInv
<1>00. frontier \in Int /\ p \in Int /\ submitted \in [Pos -> BOOLEAN]
  BY DEF TypeOK, CoordOK, Pos
<1> USE DEF Owed, Untaken, tableVars, poolVars, coordVars
<1>1. ASSUME NEW t \in Thread, NextTask(t) PROVE Owed(p)'
  BY <1>0, <1>1, NextTaskElements DEF NextTask
<1>2. ASSUME NEW t \in Thread, Deliver(t) PROVE Owed(p)'
  BY <1>0, <1>2, DeliverElements DEF Deliver
<1>3. CASE Idle
  BY <1>0, <1>3, IdleElements
\* The coordinator's steps at one position.
<1>4. ASSUME thread' = thread, frontier' = frontier, submitted' = submitted,
             \A x : InSeq(queue, x) => InSeq(queue', x), results' = results,
             \/ pc # "commit" /\ pc' = pc
             \/ pc \in {"begin", "wake"} /\ pc' \in {"wake", "route"}
             \/ pc = "route" /\ pc' = IF submitted[frontier] THEN "take" ELSE "commit"
      PROVE  Owed(p)'
  BY <1>0, <1>4, SameRuns
\* The walk moves to the next position.
<1>5. ASSUME thread' = thread, frontier' = frontier + 1, submitted' = submitted,
             queue' = queue, results' = results, pc' \in {"begin", "stop"}
      PROVE  Owed(p)'
  BY <1>0, <1>00, <1>5, SameRuns
<1>6. ASSUME NEW q \in Pos, Enqueue(q)
      PROVE  (\A x : InSeq(queue, x) => InSeq(queue', x)) /\ results' = results
  BY <1>6, EnqueueElements DEF TypeOK
<1>7. CASE SubmitDue
  <2>1. PICK q \in Pos : Enqueue(q) /\ submitted' = [submitted EXCEPT ![q] = TRUE]
    BY <1>7 DEF SubmitDue, Due
  <2>2. \A x : InSeq(queue', x) <=> InSeq(queue, x) \/ x = q
    BY <2>1, EnqueueElements DEF TypeOK
  <2>3. p # q => submitted'[p] = submitted[p]
    BY <1>00, <2>1
  <2> QED BY <1>0, <1>7, <2>1, <2>2, <2>3, SameRuns DEF SubmitDue, Enqueue
<1>8. CASE Wake
  BY <1>4, <1>8 DEF Wake
<1>9. CASE Resubmit
  <2>1. Head(todo) \in Pos
    BY <1>9, TailElements DEF TypeOK, CoordOK, Resubmit
  <2> QED BY <1>4, <1>6, <1>9, <2>1 DEF Resubmit
<1>10. CASE Drain
  BY <1>4, <1>10 DEF Drain
<1>11. CASE RouteDrop
  BY <1>4, <1>11 DEF RouteDrop, RouteHead
<1>12. CASE RouteSubmit
  <2>1. Head(drained) \in Pos \X Pos
    BY <1>12, TailElements DEF TypeOK, CoordOK, RouteSubmit, RouteHead
  <2>2. Head(drained)[1] \in Pos
    BY <2>1
  <2> QED BY <1>4, <1>6, <1>12, <2>2 DEF RouteSubmit, RouteHead
<1>13. CASE RoutePark
  BY <1>4, <1>13 DEF RoutePark, RouteHead
<1>14. CASE RouteDone
  BY <1>4, <1>14 DEF RouteDone
<1>15. CASE SkipInactive
  BY <1>5, <1>15 DEF SkipInactive
<1>16. CASE Take
  BY <1>0, <1>00, <1>16, SameRuns DEF Take
<1>17. CASE Commit
  BY <1>5, <1>17 DEF Commit
<1>18. CASE CommitNeedsReplay
  <2>1. frontier \in Pos
    BY <1>18, FrontierMoves DEF CommitNeedsReplay, TypeOK
  <2>2. \A x : InSeq(queue', x) <=> InSeq(queue, x) \/ x = frontier
    BY <1>18, <2>1, EnqueueElements DEF TypeOK, CommitNeedsReplay
  <2> QED BY <1>0, <1>18, <2>2, SameRuns DEF CommitNeedsReplay, Enqueue
<1>19. CASE Shutdown \/ JoinThreads
  BY <1>0, <1>19, SameRuns DEF Shutdown, JoinThreads
<1>20. CASE UNCHANGED vars
  BY <1>0, <1>20, SameRuns DEF vars
<1> QED
  BY <1>1, <1>2, <1>3, <1>7, <1>8, <1>9, <1>10, <1>11, <1>12, <1>13, <1>14, <1>15,
     <1>16, <1>17, <1>18, <1>19, <1>20
  DEF Next, Coordinate, Run, Terminated, Idle

-----------------------------------------------------------------------------
(* Deferrals are routed. *)

\* The deferral of p to publisher b has a place to be found at.
ParkedAhead(p) ==
    \E q \in Pos : /\ InSeq(parked[q], p)
                   /\ q >= frontier \/ (q = frontier - 1 /\ pc = "begin")

RoutedTo(p, b) ==
    \/ InSeq(newlyDeferred, <<p, b>>) \/ InSeq(drained, <<p, b>>)
    \/ ParkedAhead(p)
    \/ InSeq(todo, p) \/ InSeq(queue, p) \/ Running(p)
    \/ deferCount[p] > MaxDefers

Routed(p) ==
    p \in DOMAIN results /\ p > frontier /\ results[p] # Valid => RoutedTo(p, results[p])

RoutedInv == \A p \in Pos : Routed(p)

LEMMA RoutedAll == TypeOK /\ RoutedInv => DeferralsRouted
<1> SUFFICES ASSUME TypeOK, RoutedInv,
                    NEW p \in DOMAIN results, p > frontier, results[p] # Valid
             PROVE  \/ InSeq(newlyDeferred \o drained, <<p, results[p]>>)
                    \/ ParkedAhead(p) \/ Outstanding(p) \/ deferCount[p] > MaxDefers
  BY DEF DeferralsRouted, ParkedAhead
<1>1. RoutedTo(p, results[p])
  BY DEF RoutedInv, Routed, TypeOK, PoolOK
<1>2. ASSUME NEW e, InSeq(newlyDeferred, e) \/ InSeq(drained, e)
      PROVE  InSeq(newlyDeferred \o drained, e)
  <2>1. newlyDeferred \in Seq(Pos \X Pos) /\ drained \in Seq(Pos \X Pos)
    BY DEF TypeOK, PoolOK, CoordOK
  <2>2. /\ newlyDeferred \o drained \in Seq(Pos \X Pos)
        /\ Len(newlyDeferred \o drained) = Len(newlyDeferred) + Len(drained)
        /\ \A i \in 1..(Len(newlyDeferred) + Len(drained)) :
              (newlyDeferred \o drained)[i] =
                  IF i <= Len(newlyDeferred) THEN newlyDeferred[i]
                  ELSE drained[i - Len(newlyDeferred)]
    BY <2>1, ConcatProperties
  <2>3. /\ Len(newlyDeferred) \in Nat /\ Len(drained) \in Nat
        /\ DOMAIN newlyDeferred = 1..Len(newlyDeferred) /\ DOMAIN drained = 1..Len(drained)
        /\ DOMAIN (newlyDeferred \o drained) = 1..(Len(newlyDeferred) + Len(drained))
    BY <2>1, <2>2, LenProperties
  <2>4. CASE InSeq(newlyDeferred, e)
    <3>1. PICK i \in 1..Len(newlyDeferred) : newlyDeferred[i] = e
      BY <2>3, <2>4 DEF InSeq
    <3>2. i \in DOMAIN (newlyDeferred \o drained) /\ (newlyDeferred \o drained)[i] = e
      BY <2>2, <2>3, <3>1
    <3> QED BY <3>2 DEF InSeq
  <2>5. CASE InSeq(drained, e)
    <3>1. PICK i \in 1..Len(drained) : drained[i] = e
      BY <2>3, <2>5 DEF InSeq
    <3> DEFINE j == i + Len(newlyDeferred)
    <3>2. j \in DOMAIN (newlyDeferred \o drained) /\ (newlyDeferred \o drained)[j] = e
      BY <2>2, <2>3, <3>1
    <3> QED BY <3>2 DEF InSeq
  <2> QED BY <1>2, <2>4, <2>5
<1> QED BY <1>1, <1>2, ReplayingRuns DEF RoutedTo, Outstanding

\* The deferral that is routed next leaves the drained ones.
LEMMA RouteHeadElements ==
    ASSUME TypeOK, RouteHead, NEW p, p = Head(drained)[1], NEW b, b = Head(drained)[2]
    PROVE  /\ p \in Pos /\ b \in Pos /\ pc' = pc /\ frontier' = frontier /\ todo' = todo
           /\ todo = <<>> /\ thread' = thread
           /\ \A x : InSeq(drained, x) <=> InSeq(drained', x) \/ x = <<p, b>>
           /\ \A x : HasFirst(drained, x) <=> HasFirst(drained', x) \/ x = p
           /\ \A x : OnceFirst(drained, x) => /\ OnceFirst(drained', x)
                                              /\ x = p => ~HasFirst(drained', x)
           /\ \A q \in Pos : /\ deferCount[q] \in Nat
                             /\ deferCount'[q] = IF q = p /\ p > frontier
                                                 THEN deferCount[q] + 1 ELSE deferCount[q]
<1>1. drained \in Seq(Pos \X Pos) /\ drained # <<>> /\ drained' = Tail(drained)
  BY DEF TypeOK, CoordOK, RouteHead
<1>2. Head(drained) \in Pos \X Pos
  BY <1>1, TailElements
<1>3. p \in Pos /\ b \in Pos /\ Head(drained) = <<p, b>>
  BY <1>2
<1>4. /\ \A x : InSeq(drained, x) <=> InSeq(drained', x) \/ x = <<p, b>>
      /\ \A x : HasFirst(drained, x) <=> HasFirst(drained', x) \/ x = p
      /\ \A x : OnceFirst(drained, x) => /\ OnceFirst(drained', x)
                                         /\ x = p => ~HasFirst(drained', x)
  BY <1>1, <1>3, TailElements
<1>5. pc' = pc /\ frontier' = frontier /\ todo' = todo /\ todo = <<>> /\ thread' = thread
  BY DEF TypeOK, CoordOK, RouteHead
<1>6. \A q \in Pos : /\ deferCount[q] \in Nat
                     /\ deferCount'[q] = IF q = p /\ p > frontier
                                         THEN deferCount[q] + 1 ELSE deferCount[q]
  BY <1>3 DEF TypeOK, CoordOK, RouteHead
<1> QED BY <1>3, <1>4, <1>5, <1>6

\* Parking adds the position to those that wait for its publisher.
LEMMA ParkElements ==
    ASSUME TypeOK, RoutePark, NEW p, p = Head(drained)[1], NEW b, b = Head(drained)[2]
    PROVE  /\ p \in Pos /\ b \in Pos /\ b >= frontier /\ MayRequeue(p)
           /\ \A q \in Pos : \A x :
                InSeq(parked'[q], x) <=> InSeq(parked[q], x) \/ (q = b /\ x = p)
           /\ \A q \in Pos : \A x :
                Once(parked[q], x) /\ (q = b /\ x = p => ~InSeq(parked[q], x))
                    => Once(parked'[q], x)
           /\ queue' = queue /\ results' = results /\ newlyDeferred' = newlyDeferred
<1>1. RouteHead /\ b >= frontier /\ MayRequeue(p)
  BY DEF RoutePark
<1>2. p \in Pos /\ b \in Pos
  BY <1>1, RouteHeadElements
<1>3. parked \in [Pos -> Seq(Pos)]
  BY DEF TypeOK, CoordOK
<1>4. /\ \A q \in Pos : q # b => parked'[q] = parked[q]
      /\ parked'[b] = Append(parked[b], p)
  BY <1>2, <1>3 DEF RoutePark
<1>5. /\ \A x : InSeq(parked'[b], x) <=> InSeq(parked[b], x) \/ x = p
      /\ \A x : Once(parked[b], x) /\ (x = p => ~InSeq(parked[b], x)) => Once(parked'[b], x)
  <2>1. parked[b] \in Seq(Pos)
    BY <1>2, <1>3
  <2> QED BY <1>2, <1>4, <2>1, AppendElements
<1>6. queue' = queue /\ results' = results /\ newlyDeferred' = newlyDeferred
  BY DEF RoutePark, poolVars
<1> QED BY <1>1, <1>2, <1>4, <1>5, <1>6

\* Waking moves what is parked on the last committed position to todo.
LEMMA WakeElements ==
    ASSUME TypeOK, Wake
    PROVE  /\ frontier \in Pos /\ todo = <<>>
           /\ \A q \in Pos : /\ q = frontier - 1 => parked'[q] = <<>> /\ todo' = parked[q]
                             /\ q # frontier - 1 => parked'[q] = parked[q]
           /\ \/ \E q \in Pos : q = frontier - 1 /\ todo' = parked[q]
              \/ todo' = <<>>
<1>1. frontier \in Pos /\ todo = <<>>
  BY FrontierMoves DEF TypeOK, CoordOK, Wake
<1>2. frontier # 1 => frontier - 1 \in Pos
  BY <1>1, PositionsAssumption DEF Pos
<1>3. 0 \notin Pos
  BY DEF Pos
<1> QED BY <1>1, <1>2, <1>3 DEF Wake, Released

\* A released position is submitted again, or passed over.
LEMMA ResubmitElements ==
    ASSUME TypeOK, Resubmit
    PROVE  /\ Head(todo) \in Pos /\ frontier \in Pos
           /\ \A x : InSeq(todo, x) <=> InSeq(todo', x) \/ x = Head(todo)
           /\ \A x : Once(todo, x) => /\ Once(todo', x)
                                      /\ x = Head(todo) => ~InSeq(todo', x)
           /\ \/ Head(todo) > frontier /\ Enqueue(Head(todo))
              \/ Head(todo) <= frontier /\ UNCHANGED poolVars
<1>1. todo \in Seq(Pos) /\ todo # <<>> /\ todo' = Tail(todo)
  BY DEF TypeOK, CoordOK, Resubmit
<1>2. frontier \in Pos
  BY FrontierMoves DEF TypeOK, Resubmit
<1> QED BY <1>1, <1>2, TailElements DEF Resubmit

LEMMA RoutedInit == Init => RoutedInv
BY DEF Init, RoutedInv, Routed

LEMMA RoutedStep == TypeOK /\ RoutedInv /\ [Next]_vars => RoutedInv'
<1> SUFFICES ASSUME TypeOK, RoutedInv, [Next]_vars, NEW p \in Pos PROVE Routed(p)'
  BY DEF RoutedInv
<1>0. Routed(p)
  BY DEF RoutedInv
<1>00. /\ frontier \in Int /\ p \in Int /\ N \in Int /\ p <= N /\ MaxDefers \in Nat
       /\ deferCount \in [Pos -> Nat]
  <2>1. N \in Nat /\ MaxDefers \in Nat /\ frontier \in 1..(N + 1) /\ deferCount \in [Pos -> Nat]
    BY PositionsAssumption DEF TypeOK, CoordOK
  <2>2. p \in 1..N
    BY DEF Pos
  <2> QED BY <2>1, <2>2
<1> USE DEF Routed, RoutedTo, ParkedAhead, tableVars, poolVars, coordVars
<1>1. ASSUME NEW t \in Thread, NextTask(t) PROVE Routed(p)'
  BY <1>0, <1>1, NextTaskElements DEF NextTask
<1>2. ASSUME NEW t \in Thread, Deliver(t) PROVE Routed(p)'
  <2>1. CASE p = thread[t].pos
    <3>1. PICK b : b = thread[t].blocked
      OBVIOUS
    <3>2. results'[p] = b
      BY <1>2, <2>1, <3>1 DEF Deliver
    <3>3. b # Valid => InSeq(newlyDeferred', <<p, b>>)
      BY <1>2, <2>1, <3>1, DeliverElements
    <3> QED BY <3>2, <3>3
  <2>2. CASE p # thread[t].pos
    BY <1>0, <1>2, <2>2, DeliverElements DEF Deliver
  <2> QED BY <2>1, <2>2
<1>3. CASE Idle
  BY <1>0, <1>3, IdleElements
<1>4. ASSUME NEW q \in Pos, Enqueue(q)
      PROVE  /\ \A x : InSeq(queue', x) <=> InSeq(queue, x) \/ x = q
             /\ results' = results /\ newlyDeferred' = newlyDeferred
  BY <1>4, EnqueueElements DEF TypeOK
<1>5. CASE SubmitDue
  <2>1. PICK q \in Pos : Enqueue(q)
    BY <1>5 DEF SubmitDue, Due
  <2> QED BY <1>0, <1>4, <1>5, <2>1, SameRuns DEF SubmitDue
<1>6. CASE Wake
  <2>1. ~InSeq(todo, p)
    BY <1>6, WakeElements, EmptyElements
  <2>2. ParkedAhead(p) => ParkedAhead(p)' \/ InSeq(todo', p)
    BY <1>6, WakeElements DEF Wake
  <2> QED BY <1>0, <1>6, <2>1, <2>2, SameRuns DEF Wake
<1>7. CASE Resubmit
  <2>1. CASE Head(todo) > frontier /\ Enqueue(Head(todo))
    BY <1>0, <1>4, <1>7, <2>1, ResubmitElements, SameRuns DEF Resubmit
  <2>2. CASE Head(todo) <= frontier /\ UNCHANGED poolVars
    BY <1>0, <1>00, <1>7, <2>2, ResubmitElements, SameRuns DEF Resubmit
  <2> QED BY <1>7, <2>1, <2>2, ResubmitElements
<1>8. CASE Drain
  <2>1. drained = <<>>
    BY <1>8 DEF TypeOK, CoordOK, Drain
  <2>2. \A x : ~InSeq(drained, x)
    BY <2>1, EmptyElements
  <2> QED BY <1>0, <1>8, <2>2, SameRuns DEF Drain
<1>9. CASE RouteDrop
  BY <1>0, <1>00, <1>9, RouteHeadElements, SameRuns DEF RouteDrop, MayRequeue
<1>10. CASE RouteSubmit
  <2>1. RouteHead /\ Enqueue(Head(drained)[1]) /\ parked' = parked
    BY <1>10 DEF RouteSubmit
  <2>2. /\ Head(drained)[1] \in Pos /\ frontier' = frontier /\ pc' = pc /\ todo' = todo
        /\ \A x : InSeq(drained, x) <=> \/ InSeq(drained', x)
                                        \/ x = <<Head(drained)[1], Head(drained)[2]>>
        /\ deferCount'[p] >= deferCount[p] /\ thread' = thread
    BY <1>00, <2>1, RouteHeadElements
  <2>3. /\ \A x : InSeq(queue', x) <=> InSeq(queue, x) \/ x = Head(drained)[1]
        /\ results' = results /\ newlyDeferred' = newlyDeferred
    BY <1>4, <2>1, <2>2
  <2>4. \A b : <<p, b>> = <<Head(drained)[1], Head(drained)[2]>> => p = Head(drained)[1]
    OBVIOUS
  <2>5. deferCount[p] > MaxDefers => deferCount'[p] > MaxDefers
    <3>1. deferCount'[p] \in Nat /\ deferCount[p] \in Nat
      BY <1>00, <2>1, RouteHeadElements
    <3> QED BY <1>00, <2>2, <3>1
  <2> QED BY <1>0, <2>1, <2>2, <2>3, <2>4, <2>5, SameRuns
<1>11. CASE RoutePark
  <2>1. RouteHead
    BY <1>11 DEF RoutePark
  <2>2. ParkedAhead(p) => ParkedAhead(p)'
    BY <1>11, <2>1, ParkElements, RouteHeadElements
  <2>3. p = Head(drained)[1] => ParkedAhead(p)'
    BY <1>11, <2>1, ParkElements, RouteHeadElements
  <2>4. /\ frontier' = frontier /\ todo' = todo /\ thread' = thread
        /\ \A x : InSeq(drained, x) <=> \/ InSeq(drained', x)
                                        \/ x = <<Head(drained)[1], Head(drained)[2]>>
    BY <2>1, RouteHeadElements
  <2>5. deferCount[p] > MaxDefers => deferCount'[p] > MaxDefers
    BY <1>00, <2>1, RouteHeadElements
  <2>6. queue' = queue /\ results' = results /\ newlyDeferred' = newlyDeferred
    BY <1>11, ParkElements
  <2>7. \A b : <<p, b>> = <<Head(drained)[1], Head(drained)[2]>> => p = Head(drained)[1]
    OBVIOUS
  <2> HIDE DEF ParkedAhead
  <2> QED BY <1>0, <2>2, <2>3, <2>4, <2>5, <2>6, <2>7, SameRuns
<1>12. CASE RouteDone
  BY <1>0, <1>12, SameRuns DEF RouteDone
<1>13. ASSUME thread' = thread, frontier \in Pos, frontier' = frontier + 1, pc # "begin",
              pc' = (IF frontier = N THEN "stop" ELSE "begin"), deferCount' = deferCount,
              UNCHANGED <<parked, todo, drained, poolVars>>
       PROVE  Routed(p)'
  <2>1. CASE frontier = N
    BY <1>00, <1>13, <2>1
  <2>2. CASE frontier # N
    <3>1. ASSUME ParkedAhead(p) PROVE ParkedAhead(p)'
      <4>1. PICK q \in Pos : InSeq(parked[q], p) /\ (q >= frontier \/ (q = frontier - 1 /\ pc = "begin"))
        BY <3>1
      <4>0. pc' = "begin"
        BY <1>13, <2>2
      <4>00. q >= frontier
        BY <1>13, <4>1
      <4>2. q \in Int /\ q >= frontier /\ pc' = "begin"
        BY <4>0, <4>00 DEF Pos
      <4>3. q >= frontier + 1 \/ q = (frontier + 1) - 1
        BY <1>00, <4>2
      <4> QED BY <1>13, <4>1, <4>2, <4>3
    <3> QED BY <1>0, <1>00, <1>13, <2>2, <3>1, SameRuns
  <2> QED BY <2>1, <2>2
<1>14. CASE SkipInactive
  <2>1. frontier \in Pos
    BY <1>14, FrontierMoves DEF TypeOK, SkipInactive
  <2> QED BY <1>13, <1>14, <2>1 DEF SkipInactive
<1>15. CASE Take
  BY <1>0, <1>00, <1>15, SameRuns DEF Take
<1>16. CASE Commit
  <2>1. frontier \in Pos
    BY <1>16, FrontierMoves DEF TypeOK, Commit
  <2> QED BY <1>13, <1>16, <2>1 DEF Commit
<1>17. CASE CommitNeedsReplay
  <2>1. frontier \in Pos
    BY <1>17, FrontierMoves DEF CommitNeedsReplay, TypeOK
  <2> QED BY <1>0, <1>4, <1>17, <2>1, SameRuns DEF CommitNeedsReplay
<1>18. CASE Shutdown \/ JoinThreads
  BY <1>0, <1>18, SameRuns DEF Shutdown, JoinThreads
<1>19. CASE UNCHANGED vars
  BY <1>0, <1>19, SameRuns DEF vars
<1> QED
  BY <1>1, <1>2, <1>3, <1>5, <1>6, <1>7, <1>8, <1>9, <1>10, <1>11, <1>12, <1>14, <1>15,
     <1>16, <1>17, <1>18, <1>19
  DEF Next, Coordinate, Run, Terminated, Idle

-----------------------------------------------------------------------------
(* One attempt at a time. *)

Tokens(p) == SingleToken(p) /\ Exclusive(p) /\ (~submitted[p] => NoToken(p))

LEMMA TokenInit == Init => TokenInv
<1> SUFFICES ASSUME Init, NEW p \in Pos PROVE Tokens(p)
  BY DEF TokenInv, Tokens
<1>1. /\ todo = <<>> /\ queue = <<>> /\ newlyDeferred = <<>> /\ drained = <<>>
      /\ \A q \in Pos : parked[q] = <<>>
      /\ \A t \in Thread : thread[t].pc = "poll"
  BY DEF Init
<1>2. ~Running(p) /\ \A t \in Thread : ~Runs(t, p)
  BY <1>1 DEF Running, Runs
<1>3. ~Parked(p) /\ \A q \in Pos : Once(parked[q], p) /\ ~InSeq(parked[q], p)
  BY <1>1, EmptyElements DEF Parked
<1>4. NoToken(p)
  BY <1>1, <1>2, <1>3, EmptyElements DEF NoToken
<1>5. SingleToken(p)
  BY <1>1, <1>2, <1>3, EmptyElements DEF SingleToken
<1> QED BY <1>4, <1>5 DEF Tokens, Exclusive, NoToken

\* Tokens are kept by a step that keeps them all where they are.
LEMMA TokensKept ==
    ASSUME NEW p \in Pos, Tokens(p), UNCHANGED <<todo, queue, newlyDeferred, drained, parked>>,
           \A t \in Thread : Runs(t, p)' <=> Runs(t, p), submitted'[p] = submitted[p]
    PROVE  Tokens(p)'
<1>1. Running(p)' <=> Running(p)
  BY DEF Running
<1> QED BY <1>1 DEF Tokens, SingleToken, Exclusive, NoToken, Parked

\* A position without a token may be submitted.
LEMMA TokensSubmit ==
    ASSUME TypeOK, NEW p \in Pos, Tokens(p), NEW q \in Pos, Enqueue(q), p = q => NoToken(p),
           UNCHANGED <<todo, drained, parked, thread>>, p # q => submitted'[p] = submitted[p],
           p = q => submitted'[p]
    PROVE  Tokens(p)'
<1>1. /\ \A x : InSeq(queue', x) <=> InSeq(queue, x) \/ x = q
      /\ \A x : Once(queue, x) /\ (x = q => ~InSeq(queue, x)) => Once(queue', x)
      /\ newlyDeferred' = newlyDeferred
  BY EnqueueElements DEF TypeOK
<1>2. (Running(p)' <=> Running(p)) /\ \A t \in Thread : Runs(t, p)' <=> Runs(t, p)
  BY SameRuns
<1>3. Parked(p)' <=> Parked(p)
  BY DEF Parked
<1>4. SingleToken(p)'
  BY <1>1, <1>2 DEF Tokens, SingleToken, NoToken
<1>5. Exclusive(p)'
  BY <1>1, <1>2, <1>3 DEF Tokens, Exclusive, NoToken
<1>6. ~submitted'[p] => NoToken(p)'
  BY <1>1, <1>2, <1>3 DEF Tokens, NoToken
<1> QED BY <1>4, <1>5, <1>6 DEF Tokens

LEMMA TokenStep == TypeOK /\ TokenInv /\ [Next]_vars => TokenInv'
<1> SUFFICES ASSUME TypeOK, TokenInv, [Next]_vars, NEW p \in Pos, p > frontier' PROVE Tokens(p)'
  BY DEF TokenInv, Tokens
<1>0. frontier \in Int /\ p \in Int /\ submitted \in [Pos -> BOOLEAN]
  BY DEF TypeOK, CoordOK, Pos
<1>00. ASSUME p > frontier PROVE Tokens(p)
  BY <1>00 DEF TokenInv, Tokens
<1> USE DEF tableVars, poolVars, coordVars
<1>1. ASSUME NEW t \in Thread, NextTask(t) PROVE Tokens(p)'
  <2>1. /\ Tokens(p)
        /\ UNCHANGED <<todo, newlyDeferred, drained, parked, submitted>>
    BY <1>00, <1>1 DEF NextTask
  <2>2. /\ InSeq(queue, p) <=> InSeq(queue', p) \/ p = Head(queue)
        /\ Once(queue, p) => Once(queue', p) /\ (p = Head(queue) => ~InSeq(queue', p))
        /\ Running(p)' <=> Running(p) \/ p = Head(queue)
    BY <1>1, NextTaskElements
  <2>3. \A u \in Thread : Runs(u, p)' <=> Runs(u, p) \/ (u = t /\ p = Head(queue))
    BY <1>1, RunsStep
  <2>4. Parked(p)' <=> Parked(p)
    BY <2>1 DEF Parked
  <2>5. SingleToken(p)'
    BY <2>1, <2>2, <2>3 DEF Tokens, SingleToken, Exclusive, Running
  <2>6. Exclusive(p)' /\ (~submitted'[p] => NoToken(p)')
    BY <2>1, <2>2, <2>4 DEF Tokens, SingleToken, Exclusive, NoToken
  <2> QED BY <2>5, <2>6 DEF Tokens
<1>2. ASSUME NEW t \in Thread, Deliver(t) PROVE Tokens(p)'
  <2>1. /\ Tokens(p)
        /\ UNCHANGED <<todo, queue, drained, parked, submitted>>
    BY <1>00, <1>2 DEF Deliver
  <2>2. PICK v \in Pos : v = thread[t].pos
    BY <1>2 DEF Deliver, TypeOK, ThreadOK
  <2>3. PICK b \in 0..N : b = thread[t].blocked
    BY <1>2 DEF Deliver, TypeOK, ThreadOK
  <2>4. /\ Runs(t, v)
        /\ HasFirst(newlyDeferred', p) <=> HasFirst(newlyDeferred, p) \/ (b # Valid /\ p = v)
        /\ OnceFirst(newlyDeferred, p) /\ (p = v => ~HasFirst(newlyDeferred, p))
                 => OnceFirst(newlyDeferred', p)
    BY <1>2, <2>2, <2>3, DeliverElements
  <2>5. \A u \in Thread : Runs(u, p)' <=> Runs(u, p) /\ u # t
    BY <1>2, RunsStep
  <2>6. p = v => Running(p) /\ ~Running(p)'
    BY <2>1, <2>4, <2>5 DEF Running, Tokens, SingleToken
  <2>7. Running(p)' => Running(p)
    BY <2>5 DEF Running
  <2>8. Parked(p)' <=> Parked(p)
    BY <2>1 DEF Parked
  <2>9. SingleToken(p)'
    BY <2>1, <2>4, <2>5, <2>6 DEF Tokens, SingleToken, Exclusive
  <2>10. Exclusive(p)' /\ (~submitted'[p] => NoToken(p)')
    BY <2>1, <2>4, <2>6, <2>7, <2>8 DEF Tokens, Exclusive, NoToken
  <2> QED BY <2>9, <2>10 DEF Tokens
<1>3. CASE Idle
  BY <1>00, <1>3, IdleElements, TokensKept
<1>4. CASE SubmitDue
  <2>1. PICK q \in Pos : /\ ~submitted[q] /\ Enqueue(q)
                         /\ submitted' = [submitted EXCEPT ![q] = TRUE]
    BY <1>4 DEF SubmitDue, Due
  <2>2. Tokens(p) /\ UNCHANGED <<todo, drained, parked, thread>>
    BY <1>00, <1>4 DEF SubmitDue
  <2>3. p = q => NoToken(p)
    BY <2>1, <2>2 DEF Tokens
  <2>4. (p # q => submitted'[p] = submitted[p]) /\ (p = q => submitted'[p])
    BY <1>0, <2>1
  <2> QED BY <2>1, <2>2, <2>3, <2>4, TokensSubmit
<1>5. CASE Wake
  <2>1. Tokens(p) /\ UNCHANGED <<queue, newlyDeferred, drained, submitted, thread>>
    BY <1>00, <1>5 DEF Wake
  <2>2. (Running(p)' <=> Running(p)) /\ \A u \in Thread : Runs(u, p)' <=> Runs(u, p)
    BY <2>1, SameRuns
  <2>3. ~InSeq(todo, p) /\ ~InSeq(<<>>, p) /\ Once(<<>>, p)
    BY <1>5, WakeElements, EmptyElements
  <2>4. \A q \in Pos : /\ q = frontier - 1 => parked'[q] = <<>> /\ todo' = parked[q]
                       /\ q # frontier - 1 => parked'[q] = parked[q]
    BY <1>5, WakeElements
  <2>5. /\ \A q \in Pos : InSeq(parked'[q], p) => InSeq(parked[q], p) /\ q # frontier - 1
        /\ \A q \in Pos : Once(parked[q], p) => Once(parked'[q], p)
    BY <2>3, <2>4
  <2>6. Parked(p)' => Parked(p)
    BY <2>5 DEF Parked
  <2>7. CASE frontier - 1 \in Pos
    <3>1. todo' = parked[frontier - 1]
      BY <2>4, <2>7
    <3>2. InSeq(todo', p) => Parked(p) /\ ~Parked(p)'
      BY <2>1, <2>5, <2>7, <3>1 DEF Parked, Tokens, SingleToken
    <3>3. SingleToken(p)'
      BY <2>1, <2>2, <2>5, <2>7, <3>1 DEF Tokens, SingleToken
    <3>4. Exclusive(p)' /\ (~submitted'[p] => NoToken(p)')
      BY <2>1, <2>2, <2>6, <3>2 DEF Tokens, Exclusive, NoToken
    <3> QED BY <3>3, <3>4 DEF Tokens
  <2>8. CASE frontier - 1 \notin Pos
    <3>1. todo' = <<>>
      BY <1>5, <2>8, WakeElements
    <3>2. SingleToken(p)'
      BY <2>1, <2>2, <2>3, <2>5, <3>1 DEF Tokens, SingleToken
    <3>3. Exclusive(p)' /\ (~submitted'[p] => NoToken(p)')
      BY <2>1, <2>2, <2>3, <2>6, <3>1 DEF Tokens, Exclusive, NoToken
    <3> QED BY <3>2, <3>3 DEF Tokens
  <2> QED BY <2>7, <2>8
<1>6. CASE Resubmit
  <2>1. Tokens(p) /\ UNCHANGED <<drained, submitted, parked, thread>> /\ frontier' = frontier
    BY <1>00, <1>6 DEF Resubmit
  <2>2. PICK q \in Pos : q = Head(todo)
    BY <1>6, ResubmitElements
  <2>3. /\ InSeq(todo, p) <=> InSeq(todo', p) \/ p = q
        /\ Once(todo, p) => Once(todo', p) /\ (p = q => ~InSeq(todo', p))
    BY <1>6, <2>2, ResubmitElements
  <2>4. /\ InSeq(queue', p) <=> InSeq(queue, p) \/ p = q
        /\ Once(queue, p) /\ (p = q => ~InSeq(queue, p)) => Once(queue', p)
        /\ newlyDeferred' = newlyDeferred
    <3>1. CASE q > frontier /\ Enqueue(q)
      BY <3>1, EnqueueElements DEF TypeOK
    <3>2. CASE q <= frontier /\ UNCHANGED poolVars
      <4>1. p # q
        BY <1>0, <2>1, <3>2 DEF Pos
      <4> QED BY <3>2, <4>1
    <3> QED BY <1>6, <2>2, <3>1, <3>2, ResubmitElements
  <2>5. (Running(p)' <=> Running(p)) /\ \A u \in Thread : Runs(u, p)' <=> Runs(u, p)
    BY <2>1, SameRuns
  <2>6. Parked(p)' <=> Parked(p)
    BY <2>1 DEF Parked
  <2>7. SingleToken(p)'
    BY <2>1, <2>3, <2>4, <2>5 DEF Tokens, SingleToken, Exclusive
  <2>8. Exclusive(p)' /\ (~submitted'[p] => NoToken(p)')
    BY <2>1, <2>3, <2>4, <2>5, <2>6 DEF Tokens, Exclusive, NoToken, SingleToken
  <2> QED BY <2>7, <2>8 DEF Tokens
<1>7. CASE Drain
  <2>1. /\ Tokens(p) /\ UNCHANGED <<todo, queue, submitted, parked, thread>>
        /\ newlyDeferred' = <<>> /\ drained' = newlyDeferred /\ drained = <<>>
    BY <1>00, <1>7 DEF Drain, TypeOK, CoordOK
  <2>2. (Running(p)' <=> Running(p)) /\ \A u \in Thread : Runs(u, p)' <=> Runs(u, p)
    BY <2>1, SameRuns
  <2>3. Parked(p)' <=> Parked(p)
    BY <2>1 DEF Parked
  <2>4. /\ ~HasFirst(newlyDeferred', p) /\ OnceFirst(newlyDeferred', p)
        /\ ~HasFirst(drained, p)
    BY <2>1, EmptyElements
  <2>5. SingleToken(p)'
    BY <2>1, <2>2, <2>4 DEF Tokens, SingleToken
  <2>6. Exclusive(p)' /\ (~submitted'[p] => NoToken(p)')
    BY <2>1, <2>2, <2>3, <2>4 DEF Tokens, Exclusive, NoToken
  <2> QED BY <2>5, <2>6 DEF Tokens
\* A deferral leaves the drained ones and is, or is not, put elsewhere.
<1>8. ASSUME RouteHead
      PROVE  /\ Tokens(p) /\ UNCHANGED <<todo, submitted, thread>>
             /\ Head(drained)[1] \in Pos /\ Head(drained)[2] \in Pos
             /\ HasFirst(drained, p) <=> HasFirst(drained', p) \/ p = Head(drained)[1]
             /\ OnceFirst(drained, p) =>
                    OnceFirst(drained', p) /\ (p = Head(drained)[1] => ~HasFirst(drained', p))
             /\ (Running(p)' <=> Running(p)) /\ \A u \in Thread : Runs(u, p)' <=> Runs(u, p)
  <2>1. Tokens(p) /\ UNCHANGED <<todo, submitted, thread>>
    BY <1>00, <1>8 DEF RouteHead
  <2>2. (Running(p)' <=> Running(p)) /\ \A u \in Thread : Runs(u, p)' <=> Runs(u, p)
    BY <2>1, SameRuns
  <2> QED BY <1>8, <2>1, <2>2, RouteHeadElements
<1>9. CASE RouteDrop
  <2>1. RouteHead /\ UNCHANGED <<queue, newlyDeferred, parked>>
    BY <1>9 DEF RouteDrop
  <2>2. Parked(p)' <=> Parked(p)
    BY <2>1 DEF Parked
  <2>3. SingleToken(p)'
    BY <1>8, <2>1 DEF Tokens, SingleToken
  <2>4. Exclusive(p)' /\ (~submitted'[p] => NoToken(p)')
    BY <1>8, <2>1, <2>2 DEF Tokens, Exclusive, NoToken
  <2> QED BY <2>3, <2>4 DEF Tokens
<1>10. CASE RouteSubmit
  <2>1. RouteHead /\ Enqueue(Head(drained)[1]) /\ parked' = parked
    BY <1>10 DEF RouteSubmit
  <2>2. Parked(p)' <=> Parked(p)
    BY <2>1 DEF Parked
  <2>3. /\ InSeq(queue', p) <=> InSeq(queue, p) \/ p = Head(drained)[1]
        /\ Once(queue, p) /\ (p = Head(drained)[1] => ~InSeq(queue, p)) => Once(queue', p)
        /\ newlyDeferred' = newlyDeferred
    BY <1>8, <2>1, EnqueueElements DEF TypeOK
  <2>4. SingleToken(p)'
    BY <1>8, <2>1, <2>3 DEF Tokens, SingleToken, Exclusive
  <2>5. Exclusive(p)' /\ (~submitted'[p] => NoToken(p)')
    BY <1>8, <2>1, <2>2, <2>3 DEF Tokens, SingleToken, Exclusive, NoToken
  <2> QED BY <2>4, <2>5 DEF Tokens
<1>11. CASE RoutePark
  <2>1. RouteHead /\ UNCHANGED <<queue, newlyDeferred>>
    BY <1>11 DEF RoutePark
  <2>2. PICK b \in Pos : b = Head(drained)[2]
    BY <1>8, <2>1
  <2>3. /\ \A q \in Pos : InSeq(parked'[q], p) <=> \/ InSeq(parked[q], p)
                                                   \/ q = b /\ p = Head(drained)[1]
        /\ \A q \in Pos : Once(parked[q], p) /\ (q = b /\ p = Head(drained)[1] => ~InSeq(parked[q], p))
                              => Once(parked'[q], p)
    BY <1>11, <2>2, ParkElements
  <2>4. Parked(p)' <=> Parked(p) \/ p = Head(drained)[1]
    BY <2>2, <2>3 DEF Parked
  <2>5. SingleToken(p)'
    <3>1. p = Head(drained)[1] => \A q \in Pos : ~InSeq(parked[q], p)
      BY <1>8, <2>1 DEF Tokens, Exclusive, Parked
    <3> QED BY <1>8, <2>1, <2>3, <3>1 DEF Tokens, SingleToken
  <2>6. Exclusive(p)' /\ (~submitted'[p] => NoToken(p)')
    BY <1>8, <2>1, <2>4 DEF Tokens, SingleToken, Exclusive, NoToken
  <2> QED BY <2>5, <2>6 DEF Tokens
<1>12. ASSUME UNCHANGED <<todo, queue, newlyDeferred, drained, parked, thread, submitted>>,
              p > frontier
       PROVE  Tokens(p)'
  BY <1>00, <1>12, SameRuns, TokensKept
<1>13. CASE RouteDone
  BY <1>12, <1>13 DEF RouteDone
<1>14. CASE SkipInactive
  BY <1>0, <1>12, <1>14 DEF SkipInactive
<1>15. CASE Take
  BY <1>12, <1>15 DEF Take
<1>16. CASE Commit
  BY <1>0, <1>12, <1>16 DEF Commit
<1>17. CASE CommitNeedsReplay
  <2>1. frontier \in Pos
    BY <1>17, FrontierMoves DEF CommitNeedsReplay, TypeOK
  <2>2. Tokens(p) /\ Enqueue(frontier) /\ UNCHANGED <<todo, drained, parked, thread, submitted>>
    BY <1>00, <1>17 DEF CommitNeedsReplay
  <2>3. p # frontier
    BY <1>0, <1>17 DEF CommitNeedsReplay
  <2> QED BY <2>1, <2>2, <2>3, TokensSubmit
<1>18. CASE Shutdown \/ JoinThreads \/ UNCHANGED vars
  BY <1>12, <1>18 DEF Shutdown, JoinThreads, vars
<1> QED
  BY <1>1, <1>2, <1>3, <1>4, <1>5, <1>6, <1>7, <1>9, <1>10, <1>11, <1>13, <1>14, <1>15,
     <1>16, <1>17, <1>18
  DEF Next, Coordinate, Run, Terminated, Idle

LEMMA AtMostOne ==
    ASSUME NEW S, \A x, y \in S : x = y
    PROVE  Cardinality(S) = IF S = {} THEN 0 ELSE 1
<1>1. CASE S = {}
  BY <1>1, FS_EmptySet
<1>2. CASE S # {}
  <2>1. PICK x : S = {x}
    BY <1>2
  <2> QED BY <1>2, <2>1, FS_Singleton
<1> QED BY <1>1, <1>2

LEMMA TokenOneAttempt == TypeOK /\ TokenInv => OneAttempt
<1> SUFFICES ASSUME TypeOK, TokenInv, NEW p \in Pos, p > frontier
             PROVE  Times(todo, p) + Times(queue, p) + Cardinality(Replaying(p)) <= 1
  BY DEF OneAttempt
<1>1. SingleToken(p) /\ Exclusive(p)
  BY DEF TokenInv
<1>2. Times(todo, p) = IF InSeq(todo, p) THEN 1 ELSE 0
  BY <1>1, AtMostOne DEF Times, SingleToken, Once, InSeq
<1>3. Times(queue, p) = IF InSeq(queue, p) THEN 1 ELSE 0
  BY <1>1, AtMostOne DEF Times, SingleToken, Once, InSeq
<1>4. Cardinality(Replaying(p)) = IF Running(p) THEN 1 ELSE 0
  <2>1. \A t, u \in Replaying(p) : t = u
    BY <1>1 DEF Replaying, Runs, SingleToken
  <2>2. Cardinality(Replaying(p)) = IF Replaying(p) = {} THEN 0 ELSE 1
    BY <2>1, AtMostOne
  <2> QED BY <2>2, ReplayingRuns
<1> QED BY <1>1, <1>2, <1>3, <1>4 DEF Exclusive

-----------------------------------------------------------------------------
(* Replays run ahead of the walk. *)

First(p) == /\ InSeq(todo, p) \/ Parked(p) => deferCount[p] > 0
            /\ submitted[p] => p \in Active
            /\ deferCount[p] = 0 => FirstAttempt(p)

LEMMA FirstAhead == TypeOK /\ FirstInv => ReplaysAhead
<1> SUFFICES ASSUME TypeOK, FirstInv PROVE ReplaysAhead
  OBVIOUS
<1> SUFFICES ASSUME NEW p \in Pos, Running(p), deferCount[p] = 0 PROVE p >= frontier
  <2>1. \A q \in Pos : deferCount[q] \in Nat
    BY DEF TypeOK, CoordOK
  <2> QED BY <2>1, ReplayingRuns DEF ReplaysAhead
<1>1. ~(p < frontier)
  BY DEF FirstInv, FirstAttempt, NoAttempt
<1>2. p \in Int /\ frontier \in Int
  BY DEF TypeOK, CoordOK, Pos
<1> QED BY <1>1, <1>2

LEMMA FirstInit == Init => FirstInv
<1> SUFFICES ASSUME Init, NEW p \in Pos PROVE First(p)
  BY DEF FirstInv, First
<1>1. /\ todo = <<>> /\ queue = <<>> /\ DOMAIN results = {}
      /\ \A q \in Pos : parked[q] = <<>>
      /\ \A t \in Thread : thread[t].pc = "poll"
      /\ submitted[p] = FALSE
  BY DEF Init
<1>2. ~Running(p) /\ \A t \in Thread : ~Runs(t, p)
  BY <1>1 DEF Running, Runs
<1>3. ~Parked(p) /\ ~InSeq(todo, p) /\ ~InSeq(queue, p) /\ Once(queue, p)
  BY <1>1, EmptyElements DEF Parked
<1> QED BY <1>1, <1>2, <1>3 DEF First, FirstAttempt, NoAttempt

\* A step that makes no attempt at p, and leaves none behind.
LEMMA FirstKept ==
    ASSUME NEW p \in Pos, First(p),
           InSeq(queue', p) <=> InSeq(queue, p), Once(queue, p) => Once(queue', p),
           \A t \in Thread : Runs(t, p)' <=> Runs(t, p),
           DOMAIN results' \subseteq DOMAIN results,
           InSeq(todo', p) \/ Parked(p)' => deferCount'[p] > 0,
           submitted'[p] = submitted[p],
           deferCount'[p] = 0 =>
               /\ deferCount[p] = 0
               /\ p < frontier' => NoAttempt(p)
               /\ Untried(p)' => NoAttempt(p) /\ p \notin DOMAIN results'
    PROVE  First(p)'
<1>1. Running(p)' <=> Running(p)
  BY DEF Running
<1>2. NoAttempt(p)' <=> NoAttempt(p)
  BY <1>1 DEF NoAttempt
<1>3. deferCount'[p] = 0 => FirstAttempt(p)'
  BY <1>1, <1>2 DEF First, FirstAttempt
<1> QED BY <1>3 DEF First

\* A submission: of a position not tried before, or of one that deferred.
LEMMA FirstSubmit ==
    ASSUME TypeOK, NEW p \in Pos, First(p), NEW q \in Pos, Enqueue(q), thread' = thread,
           InSeq(todo', p) \/ Parked(p)' => deferCount'[p] > 0,
           submitted'[p] => p \in Active,
           p # q => submitted'[p] = submitted[p],
           deferCount'[p] = 0 =>
               /\ deferCount[p] = 0
               /\ frontier' = frontier
               /\ p = q => /\ NoAttempt(p) /\ p \notin DOMAIN results
                          /\ ~(p < frontier) /\ ~Untried(p)'
               /\ p # q /\ Untried(p)' => Untried(p)
    PROVE  First(p)'
<1>1. /\ \A x : InSeq(queue', x) <=> InSeq(queue, x) \/ x = q
      /\ \A x : Once(queue, x) /\ (x = q => ~InSeq(queue, x)) => Once(queue', x)
      /\ results' = results
  BY EnqueueElements DEF TypeOK
<1>2. (Running(p)' <=> Running(p)) /\ \A t \in Thread : Runs(t, p)' <=> Runs(t, p)
  BY SameRuns
<1>3. CASE p = q
  <2>1. deferCount'[p] = 0 => FirstAttempt(p)'
    BY <1>1, <1>2, <1>3 DEF First, FirstAttempt, NoAttempt
  <2> QED BY <2>1 DEF First
<1>4. CASE p # q
  <2>1. deferCount'[p] = 0 => FirstAttempt(p)'
    BY <1>1, <1>2, <1>4 DEF First, FirstAttempt, NoAttempt
  <2> QED BY <2>1 DEF First
<1> QED BY <1>3, <1>4

LEMMA FirstStep == TypeOK /\ FirstInv /\ [Next]_vars => FirstInv'
<1> SUFFICES ASSUME TypeOK, FirstInv, [Next]_vars, NEW p \in Pos PROVE First(p)'
  BY DEF FirstInv, First
<1>0. First(p)
  BY DEF FirstInv, First
<1>00. /\ frontier \in Int /\ p \in Int /\ deferCount[p] \in Nat
       /\ retrying \in BOOLEAN /\ submitted \in [Pos -> BOOLEAN]
  <2>1. frontier \in 1..(N + 1) /\ p \in 1..N /\ deferCount \in [Pos -> Nat]
    BY DEF TypeOK, CoordOK, Pos
  <2> QED BY <2>1 DEF TypeOK, CoordOK
<1> USE DEF tableVars, poolVars, coordVars
<1>1. ASSUME NEW t \in Thread, NextTask(t) PROVE First(p)'
  <2>1. UNCHANGED <<todo, parked, submitted, deferCount, results, frontier, pc, retrying>>
    BY <1>1 DEF NextTask
  <2>2. /\ InSeq(queue, p) <=> InSeq(queue', p) \/ p = Head(queue)
        /\ Once(queue, p) => Once(queue', p) /\ (p = Head(queue) => ~InSeq(queue', p))
        /\ Running(p)' <=> Running(p) \/ p = Head(queue)
    BY <1>1, NextTaskElements
  <2>3. \A u \in Thread : Runs(u, p)' <=> Runs(u, p) \/ (u = t /\ p = Head(queue))
    BY <1>1, RunsStep
  <2>4. (Parked(p)' <=> Parked(p)) /\ (Untried(p)' <=> Untried(p))
    BY <2>1 DEF Parked, Untried
  <2>5. FirstAttempt(p) => FirstAttempt(p)'
    BY <2>1, <2>2, <2>3, <2>4 DEF FirstAttempt, NoAttempt, Running
  <2> QED BY <1>0, <2>1, <2>4, <2>5 DEF First
<1>2. ASSUME NEW t \in Thread, Deliver(t) PROVE First(p)'
  <2>1. UNCHANGED <<todo, queue, parked, submitted, deferCount, frontier, pc, retrying>>
    BY <1>2 DEF Deliver
  <2>2. PICK v \in Pos : v = thread[t].pos
    BY <1>2 DEF Deliver, TypeOK, ThreadOK
  <2>3. Runs(t, v) /\ DOMAIN results' = DOMAIN results \cup {v}
    BY <1>2, <2>2, DeliverElements
  <2>4. \A u \in Thread : Runs(u, p)' <=> Runs(u, p) /\ u # t
    BY <1>2, RunsStep
  <2>5. (Parked(p)' <=> Parked(p)) /\ (Untried(p)' <=> Untried(p))
    BY <2>1 DEF Parked, Untried
  <2>6. (Running(p)' => Running(p)) /\ (p = v => Running(p))
    BY <2>3, <2>4 DEF Running
  <2>7. FirstAttempt(p) /\ p = v => ~Running(p)'
    BY <2>3, <2>4 DEF FirstAttempt, Running
  <2>8. FirstAttempt(p) => FirstAttempt(p)'
    BY <2>1, <2>3, <2>4, <2>5, <2>6, <2>7 DEF FirstAttempt, NoAttempt
  <2> QED BY <1>0, <2>1, <2>5, <2>8 DEF First
<1>3. ASSUME UNCHANGED <<queue, todo, parked, submitted, deferCount>>,
             \A u \in Thread : Runs(u, p)' <=> Runs(u, p),
             DOMAIN results' \subseteq DOMAIN results,
             deferCount[p] = 0 =>
                 /\ p < frontier' => NoAttempt(p)
                 /\ Untried(p)' => NoAttempt(p) /\ p \notin DOMAIN results'
      PROVE  First(p)'
  <2>1. InSeq(todo', p) \/ Parked(p)' => deferCount'[p] > 0
    BY <1>0, <1>3 DEF First, Parked
  <2> QED BY <1>0, <1>3, <2>1, FirstKept
<1>4. CASE Idle
  <2>1. /\ UNCHANGED <<queue, results, todo, parked, submitted, deferCount, frontier, retrying>>
        /\ pc' = pc \/ pc' = "take"
        /\ \A u \in Thread : Runs(u, p)' <=> Runs(u, p)
    BY <1>4, IdleElements
  <2>2. Untried(p)' => Untried(p)
    BY <2>1 DEF Untried
  <2> QED BY <1>0, <1>3, <2>1, <2>2 DEF First, FirstAttempt
<1>5. CASE SubmitDue
  <2>1. PICK q \in Pos : /\ submitAt[q] = frontier /\ ~submitted[q] /\ Enqueue(q)
                         /\ submitted' = [submitted EXCEPT ![q] = TRUE]
    BY <1>5 DEF SubmitDue, Due
  <2>2. /\ UNCHANGED <<todo, parked, deferCount, frontier, pc, retrying, thread>>
        /\ pc = "begin"
    BY <1>5 DEF SubmitDue
  <2>3. frontier \in Pos /\ frontier # N + 1 /\ ~retrying
    BY <2>2, FrontierMoves, PositionsAssumption DEF TypeOK, CoordOK, Pos
  <2>4. q >= frontier /\ q \in Active
    <3>1. submitAt \in Schedules
      BY DEF TypeOK, CoordOK
    <3>2. submitAt[q] <= q /\ q \in Active
      BY <2>1, <2>3, <3>1, SchedulesAssumption
    <3> QED BY <2>1, <2>3, <3>2 DEF Pos
  <2>5. submitted'[q] /\ (p # q => submitted'[p] = submitted[p])
    BY <1>00, <2>1
  <2>6. p = q => Untried(p) /\ ~Untried(p)' /\ ~(p < frontier)
    BY <1>00, <2>1, <2>2, <2>3, <2>4, <2>5 DEF Untried
  <2>7. p # q /\ Untried(p)' => Untried(p)
    BY <2>2, <2>5 DEF Untried
  <2>8. InSeq(todo', p) \/ Parked(p)' => deferCount'[p] > 0
    BY <1>0, <2>2 DEF First, Parked
  <2>9. submitted'[p] => p \in Active
    BY <1>0, <2>4, <2>5 DEF First
  <2>10. deferCount[p] = 0 /\ p = q => NoAttempt(p) /\ p \notin DOMAIN results
    BY <1>0, <2>6 DEF First, FirstAttempt
  <2> QED BY <1>0, <2>1, <2>2, <2>5, <2>6, <2>7, <2>8, <2>9, <2>10, FirstSubmit
<1>6. CASE Wake
  <2>1. /\ UNCHANGED <<queue, results, submitted, deferCount, frontier, retrying, thread>>
        /\ pc' = "wake"
    BY <1>6 DEF Wake
  <2>2. InSeq(todo', p) \/ Parked(p)' => deferCount'[p] > 0
    <3>1. InSeq(todo', p) => Parked(p)
      BY <1>6, WakeElements, EmptyElements DEF Parked
    <3>2. Parked(p)' => Parked(p)
      BY <1>6, WakeElements, EmptyElements DEF Parked
    <3> QED BY <1>0, <2>1, <3>1, <3>2 DEF First
  <2>3. Untried(p)' => Untried(p)
    BY <2>1 DEF Untried
  <2>4. \A u \in Thread : Runs(u, p)' <=> Runs(u, p)
    BY <2>1, SameRuns
  <2>5. deferCount[p] = 0 => FirstAttempt(p)
    BY <1>0 DEF First
  <2> QED BY <1>0, <2>1, <2>2, <2>3, <2>4, <2>5, FirstKept DEF FirstAttempt
<1>7. CASE Resubmit
  <2>1. UNCHANGED <<submitted, deferCount, parked, frontier, pc, retrying, thread>>
    BY <1>7 DEF Resubmit
  <2>2. PICK q \in Pos : q = Head(todo)
    BY <1>7, ResubmitElements
  <2>3. InSeq(todo, p) <=> InSeq(todo', p) \/ p = q
    BY <1>7, <2>2, ResubmitElements
  <2>4. InSeq(todo', p) \/ Parked(p)' \/ p = q => deferCount'[p] > 0
    BY <1>0, <2>1, <2>3 DEF First, Parked
  <2>5. Untried(p)' <=> Untried(p)
    BY <2>1 DEF Untried
  <2>6. CASE Enqueue(q)
    BY <1>0, <1>00, <2>1, <2>4, <2>5, <2>6, FirstSubmit DEF First
  <2>7. CASE UNCHANGED poolVars
    <3>1. \A u \in Thread : Runs(u, p)' <=> Runs(u, p)
      BY <2>1, SameRuns
    <3>2. deferCount[p] = 0 => FirstAttempt(p)
      BY <1>0 DEF First
    <3> QED BY <1>0, <2>1, <2>4, <2>5, <2>7, <3>1, <3>2, FirstKept DEF FirstAttempt
  <2> QED BY <1>7, <2>2, <2>6, <2>7, ResubmitElements
<1>8. CASE Drain
  <2>1. /\ UNCHANGED <<queue, results, todo, parked, submitted, deferCount, frontier, retrying,
                       thread>>
        /\ pc' = "route"
    BY <1>8 DEF Drain
  <2>2. Untried(p)' => Untried(p)
    BY <2>1 DEF Untried
  <2> QED BY <1>0, <1>3, <2>1, <2>2, SameRuns DEF First, FirstAttempt
<1>9. ASSUME RouteHead
      PROVE  /\ UNCHANGED <<submitted, todo, frontier, pc, retrying, thread>>
             /\ deferCount'[p] = 0 => deferCount[p] = 0
             /\ deferCount[p] > 0 => deferCount'[p] > 0
             /\ p = Head(drained)[1] /\ p > frontier => deferCount'[p] > 0
             /\ Untried(p)' <=> Untried(p)
             /\ deferCount'[p] \in Nat
  <2>1. UNCHANGED <<submitted, todo, frontier, pc, retrying, thread>>
    BY <1>9 DEF RouteHead
  <2>2. deferCount'[p] = IF p = Head(drained)[1] /\ p > frontier
                         THEN deferCount[p] + 1 ELSE deferCount[p]
    BY <1>9, RouteHeadElements
  <2>3. Untried(p)' <=> Untried(p)
    BY <2>1 DEF Untried
  <2> QED BY <1>00, <2>1, <2>2, <2>3
<1>10. CASE RouteDrop
  <2>1. RouteHead /\ UNCHANGED <<queue, results, parked>>
    BY <1>10 DEF RouteDrop
  <2>2. InSeq(todo', p) \/ Parked(p)' => deferCount'[p] > 0
    BY <1>0, <1>9, <2>1 DEF First, Parked
  <2>3. deferCount[p] = 0 => FirstAttempt(p)
    BY <1>0 DEF First
  <2> QED BY <1>0, <1>9, <2>1, <2>2, <2>3, FirstKept, SameRuns DEF FirstAttempt
<1>11. CASE RouteSubmit
  <2>1. /\ RouteHead /\ Enqueue(Head(drained)[1]) /\ parked' = parked
        /\ Head(drained)[1] > frontier
    BY <1>11 DEF RouteSubmit, MayRequeue
  <2>2. Head(drained)[1] \in Pos
    BY <2>1, RouteHeadElements
  <2>3. InSeq(todo', p) \/ Parked(p)' => deferCount'[p] > 0
    BY <1>0, <1>9, <2>1 DEF First, Parked
  <2>4. p = Head(drained)[1] => deferCount'[p] # 0
    BY <1>9, <2>1
  <2> QED BY <1>0, <1>9, <2>1, <2>2, <2>3, <2>4, FirstSubmit DEF First
<1>12. CASE RoutePark
  <2>1. RouteHead /\ UNCHANGED <<queue, results>>
    BY <1>12 DEF RoutePark
  <2>2. Parked(p)' => Parked(p) \/ (p = Head(drained)[1] /\ p > frontier)
    BY <1>12, ParkElements DEF Parked, MayRequeue
  <2>3. InSeq(todo', p) \/ Parked(p)' => deferCount'[p] > 0
    BY <1>0, <1>9, <2>1, <2>2 DEF First
  <2>4. deferCount[p] = 0 => FirstAttempt(p)
    BY <1>0 DEF First
  <2> QED BY <1>0, <1>9, <2>1, <2>3, <2>4, FirstKept, SameRuns DEF FirstAttempt
<1>13. CASE RouteDone
  <2>1. /\ UNCHANGED <<queue, results, todo, parked, submitted, deferCount, frontier, retrying,
                       thread>>
        /\ pc' = (IF submitted[frontier] THEN "take" ELSE "commit")
        /\ ~retrying
    BY <1>13 DEF RouteDone, TypeOK, CoordOK
  <2>2. Untried(p)' => Untried(p)
    BY <1>00, <2>1 DEF Untried
  <2> QED BY <1>0, <1>3, <2>1, <2>2, SameRuns DEF First, FirstAttempt
\* The walk moves on from a position at which no attempt is left.
<1>14. ASSUME UNCHANGED <<queue, results, todo, parked, submitted, deferCount, thread>>,
              frontier' = frontier + 1, pc' \in {"begin", "stop"}, Untried(frontier)
       PROVE  First(p)'
  <2>1. Untried(p)' => Untried(p)
    BY <1>00, <1>14 DEF Untried
  <2>2. p < frontier' => p < frontier \/ Untried(p)
    BY <1>00, <1>14
  <2> QED BY <1>0, <1>3, <1>14, <2>1, <2>2, SameRuns DEF First, FirstAttempt
<1>15. CASE SkipInactive
  <2>1. /\ UNCHANGED <<queue, results, todo, parked, submitted, deferCount, thread>>
        /\ frontier' = frontier + 1 /\ pc' \in {"begin", "stop"} /\ pc = "route"
        /\ frontier \notin Active
    BY <1>15 DEF SkipInactive
  <2>2. frontier \in Pos /\ ~retrying
    BY <2>1, FrontierMoves DEF TypeOK, CoordOK
  <2>3. ~submitted[frontier]
    BY <2>1, <2>2 DEF FirstInv
  <2>4. Untried(frontier)
    BY <1>00, <2>2, <2>3 DEF Untried
  <2> QED BY <1>14, <2>1, <2>4
<1>16. CASE Take
  <2>1. /\ UNCHANGED <<queue, todo, parked, submitted, deferCount, frontier, retrying, thread>>
        /\ DOMAIN results' \subseteq DOMAIN results
        /\ \/ pc' = "commit" /\ frontier \in DOMAIN results /\ frontier \notin DOMAIN results'
           \/ pc' = "waiting"
    BY <1>16 DEF Take
  <2>2. Untried(p)' => Untried(p) \/ (p = frontier /\ p \in DOMAIN results /\ p \notin DOMAIN results')
    BY <2>1 DEF Untried
  <2> QED BY <1>0, <1>3, <2>1, <2>2, SameRuns DEF First, FirstAttempt
<1>17. CASE Commit
  <2>1. /\ UNCHANGED <<queue, results, todo, parked, submitted, deferCount, thread>>
        /\ frontier' = frontier + 1 /\ pc' \in {"begin", "stop"} /\ pc = "commit"
    BY <1>17 DEF Commit
  <2> QED BY <1>14, <2>1 DEF Untried
<1>18. CASE CommitNeedsReplay
  <2>1. /\ frontier \in Pos /\ Enqueue(frontier) /\ pc = "commit" /\ pc' = "take" /\ retrying'
        /\ UNCHANGED <<todo, parked, submitted, deferCount, frontier, thread>>
    BY <1>18, FrontierMoves DEF CommitNeedsReplay, TypeOK
  <2>2. /\ Untried(frontier) /\ ~Untried(frontier)'
        /\ p # frontier /\ Untried(p)' => Untried(p)
    BY <2>1 DEF Untried
  <2>3. InSeq(todo', p) \/ Parked(p)' => deferCount'[p] > 0
    BY <1>0, <2>1 DEF First, Parked
  <2>4. deferCount[p] = 0 /\ p = frontier =>
            NoAttempt(p) /\ p \notin DOMAIN results /\ ~(p < frontier)
    BY <1>0, <1>00, <2>2 DEF First, FirstAttempt
  <2> QED BY <1>0, <2>1, <2>2, <2>3, <2>4, FirstSubmit DEF First
<1>19. CASE Shutdown \/ JoinThreads \/ UNCHANGED vars
  <2>1. /\ UNCHANGED <<queue, results, todo, parked, submitted, deferCount, frontier, retrying,
                       thread>>
        /\ pc' # "commit" \/ pc' = pc
    BY <1>19 DEF Shutdown, JoinThreads, vars
  <2>2. Untried(p)' => Untried(p)
    BY <2>1 DEF Untried
  <2> QED BY <1>0, <1>3, <2>1, <2>2, SameRuns DEF First, FirstAttempt
<1> QED
  BY <1>1, <1>2, <1>4, <1>5, <1>6, <1>7, <1>8, <1>10, <1>11, <1>12, <1>13, <1>15,
     <1>16, <1>17, <1>18, <1>19
  DEF Next, Coordinate, Run, Terminated, Idle

-----------------------------------------------------------------------------
(* The theorems. *)

\* The queue, the results, the parked lists, the deferral counts and the
\* reservation table of run_frontier_pipeline keep their types.
THEOREM PipelineTypes == Spec => []TypeOK
BY TypeInit, TypeStep, PTL DEF Spec

\* The coordinator's take never waits for a delivery that nobody owes it: a
\* submitted position whose turn is to come has been delivered or has an attempt
\* in the pool, whatever was deferred, parked, dropped or retried.
THEOREM AlwaysDeliveryOwed == Spec => []DeliveryOwed
BY PipelineTypes, OwedInit, OwedStep, OwedAll, PTL DEF Spec

\* No position has two attempts in the pool before its turn, though the
\* schedule, the wake-ups and the deferral worklist all submit.
THEOREM AlwaysOneAttempt == Spec => []OneAttempt
BY PipelineTypes, TokenInit, TokenStep, TokenOneAttempt, PTL DEF Spec

\* No deferral ahead of the frontier is lost between newly_deferred, the parked
\* lists and the queue, unless it has used up its deferrals.
THEOREM AlwaysDeferralsRouted == Spec => []DeferralsRouted
BY PipelineTypes, RoutedInit, RoutedStep, RoutedAll, PTL DEF Spec

\* No wake-up of a pool thread or of the coordinator is lost, although both
\* condition variables are notified after the lock is dropped.
THEOREM AlwaysWorkNeverSleeps == Spec => []WorkNeverSleeps
<1>1. WakeInv => WorkNeverSleeps
  BY DEF WakeInv
<1> QED BY <1>1, PipelineTypes, WakeInit, WakeStep, PTL DEF Spec

\* The reservation table's pending_count is exact after every finalization, and
\* 0 at the end.
THEOREM AlwaysPendingExact == Spec => []PendingExact
<1>1. CountInv => PendingExact
  BY FS_EmptySet DEF CountInv, PendingExact
<1> QED BY <1>1, PipelineTypes, CountInit, CountStep, PTL DEF Spec

\* A replay that was never requeued does not run once the walk has passed its
\* position (replay.rs:23-25).
THEOREM AlwaysReplaysAhead == Spec => []ReplaysAhead
BY PipelineTypes, FirstInit, FirstStep, FirstAhead, PTL DEF Spec
=============================================================================
