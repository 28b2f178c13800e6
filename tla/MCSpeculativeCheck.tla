------------------------- MODULE MCSpeculativeCheck -------------------------
(***************************************************************************)
(* Small programs for SpeculativeCheck.                                    *)
(*                                                                         *)
(* The keys are two instantiations of one generic declaration and one flat *)
(* entry.  A routine resolves a key the way the checker does: look it up;  *)
(* on a miss expand it, which may resolve another key first, and intern    *)
(* the expansion.  Every file runs one of the routines.                    *)
(***************************************************************************)
EXTENDS SerialReference, SpeculativeCheckInv, TLC

CONSTANTS a1, a2, f1

MCKey == {a1, a2, f1}

MCBucket == a1 :> "A" @@ a2 :> "A" @@ f1 :> "F"

\* A digest under which a2 and f1 collide.
CollidingDigest == a1 :> 1 @@ a2 :> 2 @@ f1 :> 2

\* A step <<kind, key, location on a hit, location on a miss>>.
Step(kind, k, hit, miss) == [kind |-> kind, key |-> k, hit |-> hit, miss |-> miss]

Code ==
    \* 1: resolve a1
    (1 :> Step("lookup", a1, 0, 2)) @@ (2 :> Step("intern", a1, 0, 0)) @@
    \* 3: resolve a2, whose expansion resolves a1
    (3 :> Step("lookup", a2, 0, 4)) @@ (4 :> Step("lookup", a1, 6, 5)) @@
    (5 :> Step("intern", a1, 6, 6)) @@ (6 :> Step("intern", a2, 0, 0)) @@
    \* 7: resolve f1 when a2 is known, and intern a2 without looking it up
    \*    otherwise, reading it back
    (7 :> Step("lookup", a2, 8, 10)) @@ (8 :> Step("lookup", f1, 0, 9)) @@
    (9 :> Step("intern", f1, 0, 0)) @@ (10 :> Step("intern", a2, 11, 11)) @@
    (11 :> Step("lookup", a2, 0, 0)) @@
    \* 12: intern f1, then read a1 without interning it
    (12 :> Step("intern", f1, 13, 13)) @@ (13 :> Step("lookup", a1, 0, 0)) @@
    \* 14: resolve a2, whose expansion needs nothing else
    (14 :> Step("lookup", a2, 0, 15)) @@ (15 :> Step("intern", a2, 0, 0)) @@
    \* 0: done
    (0 :> Step("done", a1, 0, 0))

MCLoc == DOMAIN Code
MCKind == [l \in MCLoc |-> Code[l].kind]
MCKeyAt == [l \in MCLoc |-> Code[l].key]
MCGoto == [l \in MCLoc |-> [a \in Answer |-> IF a = Miss THEN Code[l].miss ELSE Code[l].hit]]

Routines == {1, 3, 7, 12}
MCEntries == [Pos -> Routines]

\* Enough programs for every kind of conflict, for the slower temporal checks.
FewEntries == {<<1, 3, 7>>, <<3, 7, 7>>, <<12, 3, 1>>}

\* With a cap of one, the second file's entry finds the bucket filled by the
\* first one's, and the third file wants it.
CapEntries == {<<1, 14, 14>>}

WorkerSymmetry == Permutations(Worker)
=============================================================================
