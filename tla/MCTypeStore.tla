---------------------------- MODULE MCTypeStore -----------------------------
(* Small instances of the canonical type store. *)
EXTENDS TypeStore, TLC

CONSTANTS x, y, hashG, hashH

MCFingerprint ==
    [s \in {x, y} |-> [c \in Addr \cup {NoAddr} |-> IF s = y /\ c # NoAddr THEN hashH ELSE hashG]]

MCShardOf == [k \in {hashG, hashH} |-> 1]

MCMergeShape == (x :> (x :> y @@ y :> y)) @@ (y :> (x :> x @@ y :> y))

MCSymmetry == Permutations(Addr) \cup Permutations(Thread)
=============================================================================
