--------------------------- MODULE ScheduledCheck ---------------------------
(***************************************************************************)
(* SpeculativeCheck with the replay schedule the code really uses.  Before *)
(* the walk, predict_conflicts guesses from the workers' logs which        *)
(* positions will conflict and compute_submit_schedule the frontier at     *)
(* which each one's replay is worth starting.  Correctness does not depend *)
(* on the schedule (SpeculativeCheck admits every one); what this module   *)
(* is about is whether the schedule does what it is for.                   *)
(***************************************************************************)
EXTENDS SpeculativeCheck

CONSTANT Mode    \* "off": SURGE_REPLAY_OFF, "eager": SURGE_DEFER, "deps": the default

ASSUME ModeAssumption == Mode \in {"off", "eager", "deps"}

VARIABLE submitAt    \* submit_at: [Pos -> 1..(N + 1)], N + 1 stands for never

scheduledVars == <<vars, submitAt>>

Never == N + 1

-----------------------------------------------------------------------------
\* The digests the worker's log of q inserts.
InsertedBy(q) == {Digest[log[q].inserts[i]] : i \in DOMAIN log[q].inserts}

\* Mutant of EarlierInserts: a position's own insertions are counted.
EarlierInsertsOwn(p) == UNION {InsertedBy(q) : q \in 1..p}

\* earlier_inserts when the loop of predict_conflicts is at p.
EarlierInserts(p) == UNION {InsertedBy(q) : q \in 1..(p - 1)}

\* The rule of predict_conflicts' loop: position p is predicted when an earlier
\* position inserts what it missed, or when it read from the overlay an entry
\* of an earlier position that is in P.
ConflictsGiven(P, p) ==
    \/ log[p].misses \cap EarlierInserts(p) # {}
    \/ log[p].deps \cap P \cap (1..(p - 1)) # {}

\* predict_conflicts: the loop runs through the positions in order, so what it
\* marks is the least set that is closed under its rule.
Predicted ==
    {p \in Pos : \A P \in SUBSET Pos :
        (\A q \in Pos : ConflictsGiven(P, q) => q \in P) => p \in P}

\* first_writer: q is the first position to insert digest d.
FirstWriter(q, d) == d \in InsertedBy(q) /\ d \notin EarlierInserts(q)

\* The positions whose commit p's replay should see: the first writers of what
\* its worker missed, and the producers of its overlay hits.
DepsOf(p) ==
    {q \in 1..(p - 1) : q \in log[p].deps \/ \E d \in log[p].misses : FirstWriter(q, d)}

\* The frontier just after the last of the positions in D has been committed.
AfterLast(D) == IF D = {} THEN 1 ELSE (CHOOSE q \in D : \A r \in D : r <= q) + 1

\* Mutants of SubmitSchedule: the replay is started one position late, or
\* while its last dependency is being committed.
SubmitScheduleLate ==
    [p \in Pos |-> IF p \notin Predicted \/ DepsOf(p) \cap Predicted # {}
                   THEN Never ELSE AfterLast(DepsOf(p)) + 1]

SubmitScheduleEarly ==
    [p \in Pos |-> IF p \notin Predicted \/ DepsOf(p) \cap Predicted # {}
                   THEN Never ELSE AfterLast({q - 1 : q \in DepsOf(p)})]

\* compute_submit_schedule: a predicted conflict none of whose dependencies is
\* itself predicted starts when the last of them is committed.
SubmitSchedule ==
    [p \in Pos |-> IF p \notin Predicted \/ DepsOf(p) \cap Predicted # {}
                   THEN Never ELSE AfterLast(DepsOf(p))]

\* The choice of submit_at in check_program_files_parallel.
ChosenSchedule ==
    CASE Mode = "off"   -> [p \in Pos |-> Never]
      [] Mode = "eager" -> [p \in Pos |-> IF p \in Predicted THEN 1 ELSE Never]
      [] Mode = "deps"  -> SubmitSchedule

-----------------------------------------------------------------------------
ScheduledInit == Init /\ submitAt = [p \in Pos |-> Never]

\* The workers have joined and the schedule is computed from their logs.
ScheduledJoin == Join /\ submitAt' = ChosenSchedule

\* Step 1 of the frontier loop: a position whose bucket is this frontier.
SubmitDue(p) ==
    /\ submitAt[p] = frontier
    /\ Submit(p)
    /\ UNCHANGED submitAt

\* The walk goes on once the bucket of this frontier is submitted.
ScheduledWalk ==
    /\ \A p \in Pos : submitAt[p] = frontier => p \in submitted
    /\ Walk
    /\ UNCHANGED submitAt

ScheduledNext ==
    \/ \E w \in Worker : Dispatch(w) /\ UNCHANGED submitAt
    \/ \E p \in Pos : (WorkerStep(p) \/ ReplayStep(p)) /\ UNCHANGED submitAt
    \/ \E p \in Pos : SubmitDue(p)
    \/ ScheduledJoin
    \/ ScheduledWalk
    \/ Terminated /\ UNCHANGED submitAt

ScheduledSpec == ScheduledInit /\ [][ScheduledNext]_scheduledVars

-----------------------------------------------------------------------------
(* Correctness. *)

\* No scheduled replay is skipped because the frontier reached its position
\* first: run_frontier_pipeline buckets a position by submit_at and visits a
\* bucket once, so an index beyond the position would submit a replay that is
\* never taken.
ScheduledInTime ==
    \A p \in Pos : p < frontier /\ submitAt[p] # Never => p \in submitted /\ submitAt[p] <= p

\* No position before p is predicted to conflict.
NoneEarlier(p) == \A q \in 1..(p - 1) : q \notin Predicted

\* predict_conflicts: "over-prediction only wastes a replay and
\* under-prediction only triggers an inline recompute".  Neither happens up to
\* and including the first predicted position: until a recomputed log departs
\* from its worker's, the prediction is the commit walk's verdict.
PredictionExact ==
    \A p \in Pos : p < frontier /\ NoneEarlier(p) => (p \in Predicted <=> p \in dirty)

\* compute_submit_schedule: launching a replay when its last publisher has
\* committed means it "reads a committed view already containing all of k's
\* dependencies".  The replay of the first conflict never misses again what
\* its worker's log says an earlier position publishes.
ReplaySeesDependencies ==
    \A p \in submitted : NoneEarlier(p) =>
        log[p].misses \cap replay[p].misses \cap EarlierInserts(p) = {}
=============================================================================
