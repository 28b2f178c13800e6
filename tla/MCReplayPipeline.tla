-------------------------- MODULE MCReplayPipeline --------------------------
(***************************************************************************)
(* Small instances of ReplayPipeline.                                      *)
(***************************************************************************)
EXTENDS ReplayPipeline

CONSTANTS x, y

\* SURGE_DEFER: the predicted conflicts are submitted at the first position.
EagerSchedules == [Pos -> {1, N + 1}]

\* The same, for the positions that take part.
ActiveSchedules == {s \in EagerSchedules : \A p \in Pos \ Active : s[p] = N + 1}

\* The first position reserves x, the last y and the others either of them.
SomeReservations == {r \in [Pos -> {{x}, {y}}] : r[1] = {x} /\ r[N] = {y}}

\* Every position takes part but the second.
AllButSecond == Pos \ {2}
=============================================================================
