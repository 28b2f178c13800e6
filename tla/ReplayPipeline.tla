--------------------------- MODULE ReplayPipeline ---------------------------
(***************************************************************************)
(* run_frontier_pipeline: the coordinator that commits positions in serial *)
(* order and the pool of replay threads it feeds, with the reservation     *)
(* table that lets a replay defer (SURGE_DEFER).                           *)
(*                                                                         *)
(* The mutex of the pool makes each of its operations one step; the condvar *)
(* notification that follows an operation is a step of its own, because it *)
(* is made after the lock is dropped.  There are no spurious wake-ups here, *)
(* so that a lost one would show.                                          *)
(*                                                                         *)
(* What a replay computes and how a position is committed is the subject   *)
(* of SpeculativeCheck; here a replay is the lookups it makes that miss the *)
(* committed store, each of which may find a reservation.                  *)
(***************************************************************************)
EXTENDS Integers, Sequences, FiniteSets

CONSTANTS
    N,              \* number of positions
    Thread,         \* the pool threads
    Key,            \* the cache keys
    MaxDefers,      \* MAX_DEFERS
    Schedules,      \* the submit_at vectors: functions in [1..N -> 1..(N+1)]
    Reservations,   \* which keys each position reserves: [1..N -> SUBSET Key]
    Active,         \* the positions for which is_active answers true
    Retry           \* commit_position may answer NeedsReplay

Pos == 1..N

ASSUME PositionsAssumption ==
    N \in Nat \ {0} /\ Active \subseteq Pos /\ MaxDefers \in Nat /\ Retry \in BOOLEAN

ASSUME PoolAssumption == IsFiniteSet(Thread) /\ Thread # {} /\ IsFiniteSet(Key)

\* A position is scheduled at or before its turn (ScheduleBounds in
\* ParallelCheckProofs), and only if it has a log: predict_conflicts passes
\* over the files without one.
ASSUME SchedulesAssumption ==
    /\ Schedules \subseteq [Pos -> 1..(N + 1)]
    /\ \A s \in Schedules : \A p \in Pos : s[p] # N + 1 => s[p] <= p /\ p \in Active
    /\ Reservations \subseteq [Pos -> SUBSET Key]

\* The delivery of a replay that ran to completion.  Any other delivery is
\* the position of the publisher that the replay deferred to.
Valid == 0

VARIABLES
    submitAt,       \* submit_at; N + 1 stands for never
    table,          \* ReservationTable: [Pos -> [Key -> state]]
    pending,        \* ReservationTable::pending
    finalizedUpto,  \* reservations of the positions below it are finalized
    queue,          \* PoolInner::queue
    results,        \* PoolInner::results, a partial map
    newlyDeferred,  \* PoolInner::newly_deferred
    shutdown,       \* PoolInner::shutdown
    pc,             \* where the coordinator is
    frontier,
    submitted,      \* [Pos -> BOOLEAN]
    deferCount,     \* defer_count
    parked,         \* parked: [Pos -> Seq(Pos)], by blocking publisher
    todo,           \* positions released and about to be submitted again
    drained,        \* deferrals drained and not routed yet
    notify,         \* a task_ready notification that is still to be made
    retrying,       \* the frontier position is being replayed again
    thread          \* [Thread -> [pc, pos, blocked]]

tableVars == <<table, pending, finalizedUpto>>
poolVars  == <<queue, results, newlyDeferred, shutdown>>
coordVars == <<pc, frontier, submitted, deferCount, parked, todo, drained, retrying>>
vars == <<submitAt, tableVars, poolVars, coordVars, notify, thread>>

-----------------------------------------------------------------------------
(* The reservation table. *)

\* reserve_into: every key of the position's worker log becomes Pending.
Reserved(r) == [p \in Pos |-> [x \in Key |-> IF x \in r[p] THEN "Pending" ELSE "None"]]

PendingIn(tb) == {c \in Pos \X Key : tb[c[1]][c[2]] = "Pending"}

\* The publishers a lookup of x at position k can see.
Visible(x, k) == {p \in 1..(k - 1) : table[p][x] = "Pending"}

\* reservation_visibility: the earliest of them.
IsVisibility(p, x, k) == p \in Visible(x, k) /\ \A q \in Visible(x, k) : p <= q

\* finalize for the positions below k, and its count of Pending reservations.
Finalized(k) ==
    [p \in Pos |-> [x \in Key |->
        IF p < k /\ table[p][x] = "Pending" THEN "Ready" ELSE table[p][x]]]

\* Mutants of Finalize: one position too few is finalized, or reservations that
\* are not Pending any more are counted off again.
FinalizeShort(k) ==
    /\ table' = Finalized(k - 1)
    /\ pending' = pending - Cardinality({c \in PendingIn(table) : c[1] < k - 1})
    /\ finalizedUpto' = k

Finalize(k) ==
    /\ table' = Finalized(k)
    /\ pending' = pending - Cardinality({c \in PendingIn(table) : c[1] < k})
    /\ finalizedUpto' = k

-----------------------------------------------------------------------------
Init ==
    /\ submitAt \in Schedules
    /\ \E r \in Reservations : table = Reserved(r)
    /\ pending = Cardinality(PendingIn(table))
    /\ finalizedUpto = 1
    /\ queue = <<>>
    /\ results = [p \in {} |-> Valid]
    /\ newlyDeferred = <<>>
    /\ shutdown = FALSE
    /\ pc = "begin"
    /\ frontier = 1
    /\ submitted = [p \in Pos |-> FALSE]
    /\ deferCount = [p \in Pos |-> 0]
    /\ parked = [p \in Pos |-> <<>>]
    /\ todo = <<>>
    /\ drained = <<>>
    /\ notify = "none"
    /\ retrying = FALSE
    /\ thread = [t \in Thread |-> [pc |-> "poll", pos |-> 0, blocked |-> 0]]

-----------------------------------------------------------------------------
(* The pool threads. *)

\* next_task finds a task and the thread begins its replay.
NextTask(t) ==
    /\ thread[t].pc = "poll"
    /\ queue # <<>>
    /\ thread' = [thread EXCEPT ![t] = [pc |-> "run", pos |-> Head(queue), blocked |-> 0]]
    /\ queue' = Tail(queue)
    /\ UNCHANGED <<submitAt, tableVars, results, newlyDeferred, shutdown, coordVars, notify>>

\* next_task finds none: the thread exits on shutdown and waits otherwise.
NoTask(t) ==
    /\ thread[t].pc = "poll"
    /\ queue = <<>>
    /\ thread' = [thread EXCEPT ![t].pc = IF shutdown THEN "exited" ELSE "waiting"]
    /\ UNCHANGED <<submitAt, tableVars, poolVars, coordVars, notify>>

\* DeferralContext::check, after a lookup of x missed the committed store: the
\* replay remembers the latest publisher that blocks it.
Lookup(t, x) ==
    /\ thread[t].pc = "run"
    /\ \E p \in Pos :
        /\ IsVisibility(p, x, thread[t].pos)
        /\ p > thread[t].blocked
        /\ thread' = [thread EXCEPT ![t].blocked = p]
    /\ UNCHANGED <<submitAt, tableVars, poolVars, coordVars, notify>>

\* Mutant of Deliver: a deferral only goes to the worklist, not to results.
DeliverOnlyValid(t) ==
    /\ thread[t].pc = "run"
    /\ LET p == thread[t].pos
           b == thread[t].blocked
       IN  /\ results' = IF b = Valid
                         THEN [q \in DOMAIN results \cup {p} |-> IF q = p THEN b ELSE results[q]]
                         ELSE results
           /\ newlyDeferred' = IF b = Valid THEN newlyDeferred
                               ELSE Append(newlyDeferred, <<p, b>>)
    /\ thread' = [thread EXCEPT ![t].pc = "announce"]
    /\ UNCHANGED <<submitAt, tableVars, queue, shutdown, coordVars, notify>>

\* deliver: the latest delivery of a position wins.
Deliver(t) ==
    /\ thread[t].pc = "run"
    /\ LET p == thread[t].pos
           b == thread[t].blocked
       IN  /\ results' = [q \in DOMAIN results \cup {p} |-> IF q = p THEN b ELSE results[q]]
           /\ newlyDeferred' = IF b = Valid THEN newlyDeferred
                               ELSE Append(newlyDeferred, <<p, b>>)
    /\ thread' = [thread EXCEPT ![t].pc = "announce"]
    /\ UNCHANGED <<submitAt, tableVars, queue, shutdown, coordVars, notify>>

\* deliver's notify_all on result_ready.
Announce(t) ==
    /\ thread[t].pc = "announce"
    /\ pc' = IF pc = "waiting" THEN "take" ELSE pc
    /\ thread' = [thread EXCEPT ![t] = [pc |-> "poll", pos |-> 0, blocked |-> 0]]
    /\ UNCHANGED <<submitAt, tableVars, poolVars, frontier, submitted, deferCount,
                   parked, todo, drained, retrying, notify>>

-----------------------------------------------------------------------------
(* The coordinator: one iteration of its loop per position. *)

Sleeping == {t \in Thread : thread[t].pc = "waiting"}

Woken(T) == [t \in Thread |-> IF t \in T THEN [thread[t] EXCEPT !.pc = "poll"] ELSE thread[t]]

\* The notification that follows submit or shutdown.
Notify ==
    /\ notify # "none"
    /\ notify' = "none"
    /\ \/ notify = "one" /\ \E t \in Sleeping : thread' = Woken({t})
       \/ notify = "one" /\ Sleeping = {} /\ UNCHANGED thread
       \/ notify = "all" /\ thread' = Woken(Sleeping)
    /\ UNCHANGED <<submitAt, tableVars, poolVars, coordVars>>

\* Mutant of Enqueue: no thread is notified.
EnqueueSilent(p) ==
    /\ queue' = Append(queue, p)
    /\ UNCHANGED <<notify, results, newlyDeferred, shutdown>>

\* submit's critical section.
Enqueue(p) ==
    /\ queue' = Append(queue, p)
    /\ notify' = "one"
    /\ UNCHANGED <<results, newlyDeferred, shutdown>>

\* Step 1: the positions scheduled for this frontier are submitted in order.
Due == {p \in Pos : submitAt[p] = frontier /\ ~submitted[p]}

SubmitDue ==
    /\ pc = "begin" /\ notify = "none"
    /\ \E p \in Due : /\ \A q \in Due : p <= q
                      /\ Enqueue(p)
                      /\ submitted' = [submitted EXCEPT ![p] = TRUE]
    /\ UNCHANGED <<submitAt, tableVars, pc, frontier, deferCount, parked, todo, drained,
                   retrying, thread>>

\* Mutant of Released: parked positions are forgotten.
ReleasedNone == <<>>

\* The positions parked on the publisher that has just been committed.
Released == IF frontier = 1 THEN <<>> ELSE parked[frontier - 1]

\* Step 2: they are taken from where they are parked.
Wake ==
    /\ pc = "begin" /\ notify = "none"
    /\ Due = {}
    /\ todo' = Released
    /\ parked' = [q \in Pos |-> IF q = frontier - 1 THEN <<>> ELSE parked[q]]
    /\ pc' = "wake"
    /\ UNCHANGED <<submitAt, tableVars, poolVars, frontier, submitted, deferCount, drained,
                   retrying, notify, thread>>

\* Those ahead of the frontier are submitted again.
Resubmit ==
    /\ pc = "wake" /\ notify = "none"
    /\ todo # <<>>
    /\ todo' = Tail(todo)
    /\ \/ Head(todo) > frontier /\ Enqueue(Head(todo))
       \/ Head(todo) <= frontier /\ UNCHANGED <<poolVars, notify>>
    /\ UNCHANGED <<submitAt, tableVars, pc, frontier, submitted, deferCount, parked,
                   drained, retrying, thread>>

\* Step 3 begins: drain_newly_deferred.
Drain ==
    /\ pc = "wake" /\ notify = "none"
    /\ todo = <<>>
    /\ drained' = newlyDeferred
    /\ newlyDeferred' = <<>>
    /\ pc' = "route"
    /\ UNCHANGED <<submitAt, tableVars, queue, results, shutdown, frontier, submitted,
                   deferCount, parked, todo, retrying, notify, thread>>

\* A deferral is routed when its position is still ahead of the frontier and
\* has not deferred too often.
MayRequeue(p) == p > frontier /\ deferCount[p] < MaxDefers

RouteHead ==
    /\ pc = "route" /\ notify = "none"
    /\ drained # <<>>
    /\ drained' = Tail(drained)
    /\ LET p == Head(drained)[1] IN
        deferCount' = IF p > frontier THEN [deferCount EXCEPT ![p] = @ + 1] ELSE deferCount
    /\ UNCHANGED <<submitAt, tableVars, pc, frontier, submitted, todo, retrying, thread>>

\* Step 3: the deferral is dropped, and the position left to the inline
\* recheck at the frontier.
RouteDrop ==
    /\ RouteHead
    /\ ~MayRequeue(Head(drained)[1])
    /\ UNCHANGED <<poolVars, parked, notify>>

\* Step 3: the publisher is committed already, so the position is submitted.
RouteSubmit ==
    /\ RouteHead
    /\ MayRequeue(Head(drained)[1])
    /\ Head(drained)[2] < frontier
    /\ Enqueue(Head(drained)[1])
    /\ UNCHANGED parked

\* Mutant of RoutePark: the position is submitted as well as parked.
RouteParkEager ==
    /\ RouteHead
    /\ MayRequeue(Head(drained)[1])
    /\ Head(drained)[2] >= frontier
    /\ parked' = [parked EXCEPT ![Head(drained)[2]] = Append(@, Head(drained)[1])]
    /\ Enqueue(Head(drained)[1])

\* Step 3: the position is parked until its publisher commits.
RoutePark ==
    /\ RouteHead
    /\ MayRequeue(Head(drained)[1])
    /\ Head(drained)[2] >= frontier
    /\ parked' = [parked EXCEPT ![Head(drained)[2]] = Append(@, Head(drained)[1])]
    /\ UNCHANGED <<poolVars, notify>>

\* Mutant of RouteDone: the walk does not wait for the replay it submitted.
RouteDoneImpatient ==
    /\ pc = "route" /\ notify = "none"
    /\ drained = <<>>
    /\ frontier \in Active
    /\ pc' = "commit"
    /\ UNCHANGED <<submitAt, tableVars, poolVars, frontier, submitted, deferCount,
                   parked, todo, drained, retrying, notify, thread>>

\* Step 4: every deferral is routed; a submitted position is taken.
RouteDone ==
    /\ pc = "route" /\ notify = "none"
    /\ drained = <<>>
    /\ frontier \in Active
    /\ pc' = IF submitted[frontier] THEN "take" ELSE "commit"
    /\ UNCHANGED <<submitAt, tableVars, poolVars, frontier, submitted, deferCount,
                   parked, todo, drained, retrying, notify, thread>>

\* A position that does not take part (a file that is no module) is passed over.
SkipInactive ==
    /\ pc = "route" /\ notify = "none"
    /\ drained = <<>>
    /\ frontier \notin Active
    /\ frontier' = frontier + 1
    /\ pc' = IF frontier = N THEN "stop" ELSE "begin"
    /\ UNCHANGED <<submitAt, tableVars, poolVars, submitted, deferCount, parked, todo,
                   drained, retrying, notify, thread>>

\* Mutant of Take: the position is replayed until it no longer defers.
TakeUntilValid ==
    /\ pc = "take" /\ notify = "none"
    /\ \/ /\ frontier \in DOMAIN results /\ results[frontier] = Valid
          /\ results' = [q \in DOMAIN results \ {frontier} |-> results[q]]
          /\ pc' = "commit"
          /\ UNCHANGED <<queue, newlyDeferred, notify>>
       \/ /\ frontier \in DOMAIN results /\ results[frontier] # Valid
          /\ results' = [q \in DOMAIN results \ {frontier} |-> results[q]]
          /\ queue' = Append(queue, frontier)
          /\ newlyDeferred' = <<>>
          /\ notify' = "one"
          /\ UNCHANGED pc
       \/ /\ frontier \notin DOMAIN results
          /\ pc' = "waiting"
          /\ UNCHANGED <<results, queue, newlyDeferred, notify>>
    /\ UNCHANGED <<submitAt, tableVars, shutdown, frontier,
                   submitted, deferCount, parked, todo, drained, retrying, thread>>

\* take: the delivery is removed, or the coordinator waits for one.
Take ==
    /\ pc = "take" /\ notify = "none"
    /\ IF frontier \in DOMAIN results
       THEN /\ results' = [q \in DOMAIN results \ {frontier} |-> results[q]]
            /\ pc' = "commit"
       ELSE pc' = "waiting" /\ UNCHANGED results
    /\ UNCHANGED <<submitAt, tableVars, queue, newlyDeferred, shutdown, frontier,
                   submitted, deferCount, parked, todo, drained, retrying, notify, thread>>

\* commit_position finalizes the reservations below the position and commits
\* it: its worker's log, the replay it took, or an inline recheck.
Commit ==
    /\ pc = "commit"
    /\ Finalize(frontier)
    /\ frontier' = frontier + 1
    /\ pc' = IF frontier = N THEN "stop" ELSE "begin"
    /\ retrying' = FALSE
    /\ UNCHANGED <<submitAt, poolVars, submitted, deferCount, parked, todo, drained,
                   notify, thread>>

\* commit_position answers NeedsReplay: the position is submitted once more
\* and the coordinator waits for it.
CommitNeedsReplay ==
    /\ pc = "commit" /\ Retry /\ ~retrying
    /\ Finalize(frontier)
    /\ Enqueue(frontier)
    /\ pc' = "take"
    /\ retrying' = TRUE
    /\ UNCHANGED <<submitAt, frontier, submitted, deferCount, parked, todo, drained, thread>>

\* shutdown, with the notify_all that is to follow.
Shutdown ==
    /\ pc = "stop"
    /\ shutdown' = TRUE
    /\ notify' = "all"
    /\ pc' = "join"
    /\ UNCHANGED <<submitAt, tableVars, queue, results, newlyDeferred, frontier,
                   submitted, deferCount, parked, todo, drained, retrying, thread>>

\* The scope joins every thread; then the last reservations are finalized.
JoinThreads ==
    /\ pc = "join" /\ notify = "none"
    /\ \A t \in Thread : thread[t].pc = "exited"
    /\ Finalize(N + 1)
    /\ pc' = "done"
    /\ UNCHANGED <<submitAt, poolVars, frontier, submitted, deferCount, parked, todo,
                   drained, retrying, notify, thread>>

-----------------------------------------------------------------------------
Coordinate ==
    \/ Notify \/ SubmitDue \/ Wake \/ Resubmit \/ Drain
    \/ RouteDrop \/ RouteSubmit \/ RoutePark \/ RouteDone \/ SkipInactive
    \/ Take \/ Commit \/ CommitNeedsReplay \/ Shutdown \/ JoinThreads

Run(t) == NextTask(t) \/ NoTask(t) \/ Deliver(t) \/ Announce(t)

Terminated == pc = "done" /\ UNCHANGED vars

Next == \/ Coordinate
        \/ \E t \in Thread : Run(t) \/ \E x \in Key : Lookup(t, x)
        \/ Terminated

Spec == Init /\ [][Next]_vars

\* The coordinator and every pool thread keep running.
Fairness == WF_vars(Coordinate) /\ \A t \in Thread : WF_vars(Run(t))

FairSpec == Spec /\ Fairness

-----------------------------------------------------------------------------
(* Correctness. *)

InSeq(s, e) == \E i \in DOMAIN s : s[i] = e

Times(s, e) == Cardinality({i \in DOMAIN s : s[i] = e})

Replaying(p) == {t \in Thread : thread[t].pc = "run" /\ thread[t].pos = p}

\* An attempt at p is submitted, or about to be, and has not delivered.
Outstanding(p) == InSeq(todo, p) \/ InSeq(queue, p) \/ Replaying(p) # {}

\* The walk has yet to take p's delivery.
Untaken(p) ==
    \/ submitted[p] /\ (p > frontier \/ (p = frontier /\ pc # "commit"))
    \/ p = frontier /\ pc \in {"take", "waiting"}

\* replay.rs (take): the coordinator "blocks until a delivery for position is
\* available".  There always is, or will be, one: a position that the walk has
\* yet to take is queued, running or delivered, whatever was deferred, parked
\* or dropped in between.
DeliveryOwed ==
    \A p \in Pos : Untaken(p) =>
        InSeq(queue, p) \/ Replaying(p) # {} \/ p \in DOMAIN results

\* Deferring and requeueing never has two attempts of one position in the
\* pool before its turn, so what is delivered by then is the latest attempt's.
OneAttempt ==
    \A p \in Pos : p > frontier =>
        Times(todo, p) + Times(queue, p) + Cardinality(Replaying(p)) <= 1

\* replay.rs: a deferred replay is requeued when the blocking publisher
\* commits.  A position ahead of the frontier whose delivery is a deferral is
\* still to be routed, parked on a publisher the walk has yet to pass,
\* outstanding again, or out of defers.
DeferralsRouted ==
    \A p \in DOMAIN results : p > frontier /\ results[p] # Valid =>
        \/ InSeq(newlyDeferred \o drained, <<p, results[p]>>)
        \/ \E q \in Pos : /\ InSeq(parked[q], p)
                          /\ q >= frontier \/ (q = frontier - 1 /\ pc = "begin")
        \/ Outstanding(p)
        \/ deferCount[p] > MaxDefers

\* submit and deliver notify after they dropped the lock; no wake-up is lost: a
\* queued task has a thread awake or a notification coming, and a coordinator
\* that waits for a delivery that is there has a thread about to announce one.
WorkNeverSleeps ==
    /\ queue # <<>> => \/ notify # "none"
                       \/ \E t \in Thread : thread[t].pc \notin {"waiting", "exited"}
    /\ pc = "waiting" /\ frontier \in DOMAIN results =>
           \E t \in Thread : thread[t].pc = "announce"

\* reservation.rs (pending_count): the counter is the number of Pending
\* reservations, and "0 once the walk has finalized/cancelled every position".
PendingExact ==
    /\ pending = Cardinality(PendingIn(table))
    /\ pc = "done" => pending = 0

\* replay.rs: "the committed store never contains a position >= k while a
\* replay of k runs", as far as k was not requeued after a deferral: the
\* coordinator may take the deferral and pass k while the new attempt runs.
ReplaysAhead == \A p \in Pos : Replaying(p) # {} => p >= frontier \/ deferCount[p] > 0

\* The walk commits every position and every thread exits: no one waits for
\* ever for a task, for a delivery or for a thread.
Termination == <>(pc = "done")
=============================================================================
