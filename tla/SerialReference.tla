-------------------------- MODULE SerialReference ---------------------------
(***************************************************************************)
(* The serial run computed outright, as a reference for SpeculativeCheck:  *)
(* the cache operations of the serial path (no session active), iterated   *)
(* over a file's operations and over the files.                            *)
(***************************************************************************)
EXTENDS SpeculativeCheck

\* What position p, at location l with caches c, still observes and the
\* caches it leaves; seen holds the answers so far.
RECURSIVE RunFrom(_, _, _, _)
RunFrom(l, p, c, seen) ==
    IF Kind[l] = "done" THEN [answers |-> seen, caches |-> c]
    ELSE LET k == KeyAt[l]
             a == IF k \in DOMAIN c THEN c[k] ELSE Miss
             inserted == Kind[l] = "intern" /\ a = Miss /\ BucketLen(c, k) < Cap
         IN  RunFrom(Goto[l][a], p,
                     IF inserted THEN WithEntry(c, k, p) ELSE c,
                     Append(seen, a))

\* The serial run of position p after those before it.
RECURSIVE SerialRun(_)
SerialRun(p) ==
    RunFrom(entry[p], p, IF p = 1 THEN snapshot ELSE SerialRun(p - 1).caches, <<>>)

\* check_files.rs: "making the final diagnostics and cache contents
\* byte-identical to --jobs 1".  Every committed position observed the serial
\* run's answers, and the walk ends with the serial run's caches.
ByteIdentical ==
    /\ \A p \in Pos : p < frontier =>
         [i \in DOMAIN result[p] |-> result[p][i].answer] = SerialRun(p).answers
    /\ frontier = N + 1 => caches = SerialRun(N).caches
=============================================================================
