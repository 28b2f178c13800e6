-------------------------- MODULE MCModuleAnalysis --------------------------
(* Small programs for ModuleAnalysis. *)
EXTENDS ModuleAnalysis, TLC

CONSTANTS c1, c2, u1, g1

MCKey == {c1, c2, u1, g1}

MCClass == c1 :> "cache" @@ c2 :> "cache" @@ u1 :> "utility" @@ g1 :> "global"

MCBucket == [k \in MCKey |-> k]

\* A digest under which the two cache keys collide.
MCDigest == c1 :> 1 @@ c2 :> 1 @@ u1 :> 2 @@ g1 :> 3

Step(kind, k, hit, miss) == [kind |-> kind, key |-> k, hit |-> hit, miss |-> miss]

Code ==
    \* 1: resolve c1; a hit is reported once
    (1 :> Step("lookup", c1, 3, 2)) @@ (2 :> Step("intern", c1, 0, 0)) @@
    \* 3: report u1 once, and resolve c2 if it was not reported before
    (3 :> Step("intern", u1, 0, 4)) @@ (4 :> Step("lookup", c2, 0, 5)) @@
    (5 :> Step("intern", c2, 0, 0)) @@
    \* 6: resolve c1, and c2 when c1 is known
    (6 :> Step("lookup", c1, 8, 7)) @@ (7 :> Step("intern", c1, 8, 8)) @@
    (8 :> Step("lookup", c2, 0, 9)) @@ (9 :> Step("intern", c2, 3, 3)) @@
    \* 10: declare the global g1
    (10 :> Step("intern", g1, 0, 0)) @@
    \* 11: read g1, and report u1 when it is not declared
    (11 :> Step("lookup", g1, 0, 12)) @@ (12 :> Step("intern", u1, 0, 0)) @@
    \* 0: done; also a file that is not a module
    (0 :> Step("done", c1, 0, 0))

MCLoc == DOMAIN Code
MCKind == [l \in MCLoc |-> Code[l].kind]
MCKeyAt == [l \in MCLoc |-> Code[l].key]
MCGoto == [l \in MCLoc |-> [a \in Answer |-> IF a = Miss THEN Code[l].miss ELSE Code[l].hit]]

MCGlobalBlock == {10}

\* The body a worker runs in the final pass: of 1 it resolves nothing that a value's
\* annotation names, of 6 only c2; the global block of 10 is not lowered.
Thinned == (0 :> 0) @@ (1 :> 0) @@ (6 :> 8) @@ (10 :> 0) @@ (11 :> 11)

Pass(isFinal, e, t) == [final |-> isFinal, entry |-> e, thin |-> t]

\* The preliminary pass lowers no global and is thin for everyone.
MCPasses == {Pass(FALSE, e, e) : e \in [Pos -> {0, 1, 3, 6}]}
            \cup {Pass(TRUE, e, [p \in Pos |-> Thinned[e[p]]]) : e \in [Pos -> {0, 1, 6, 10, 11}]}
=============================================================================
