---------------------------- MODULE CheckProgram ----------------------------
(***************************************************************************)
(* What checking one file does to the six program-wide resolution caches,  *)
(* seen from the caches.                                                   *)
(*                                                                         *)
(* `check_program_file` is deterministic: which cache operation it makes   *)
(* next depends only on what the earlier ones answered.  A file's check is *)
(* therefore an automaton.  At location l it performs operation Kind[l] on *)
(* key KeyAt[l]; the answer (the publisher of the entry it hit, or Miss)   *)
(* selects the next location.  What a file's diagnostics can depend on is  *)
(* the sequence of answers, so that sequence stands for its result.        *)
(*                                                                         *)
(* A key is a cache together with the key in it.  The generic and the      *)
(* instantiation caches are maps of capped buckets; a flat cache is a map  *)
(* of buckets that hold one key each.  The entry of a key is identified by *)
(* the position that published it: two files may compute different values  *)
(* for one key (this is why the caches are order-visible).                 *)
(***************************************************************************)
EXTENDS Integers, Sequences, FiniteSets

CONSTANTS
    N,        \* number of files; position p of the serial order is in 1..N
    Key,      \* the cache keys
    Digest,   \* [Key -> ...]: the conflict digest of a key, not injective
    Bucket,   \* [Key -> ...]: the bucket a key lives in
    Cap,      \* generic_instantiation_bucket_cap()
    Loc,      \* locations of the check automaton
    Kind,     \* [Loc -> {"lookup", "intern", "done"}]
    KeyAt,    \* [Loc -> Key]
    Goto,     \* [Loc -> [Answer -> Loc]]
    Miss      \* the answer of a lookup that found nothing

Pos == 1..N

\* The tag of an entry that was in the caches before any file was checked.
BasePublisher == 0

Publisher == {BasePublisher} \cup Pos

Answer == Publisher \cup {Miss}

ASSUME NAssumption == N \in Nat \ {0}

ASSUME KeyAssumption ==
    /\ IsFiniteSet(Key)
    /\ Miss \notin Int

ASSUME ProgramAssumption ==
    /\ Kind \in [Loc -> {"lookup", "intern", "done"}]
    /\ KeyAt \in [Loc -> Key]
    /\ Goto \in [Loc -> [Answer -> Loc]]

ASSUME CapAssumption == Cap \in Nat

-----------------------------------------------------------------------------
\* The partial maps from Key to publishers: the contents of the caches.
Caches == UNION {[D -> Publisher] : D \in SUBSET Key}

Bucketmates(k) == {j \in Key : Bucket[j] = Bucket[k]}

\* Number of entries of k's bucket that are in cache c.
BucketLen(c, k) == Cardinality(Bucketmates(k) \cap DOMAIN c)

\* c with the entry k |-> p added.
WithEntry(c, k, p) ==
    [j \in DOMAIN c \cup {k} |-> IF j = k THEN p ELSE c[j]]

\* One observed cache operation: where, what it answered, and whether the
\* check's own value was kept in the cache.
Event == [loc : Loc, answer : Answer, kept : BOOLEAN]

\* t[j] put an entry for key k into the cache.
Kept(t, j, k) == t[j].kept /\ KeyAt[t[j].loc] = k

KeptKeys(t) == {k \in Key : \E j \in DOMAIN t : Kept(t, j, k)}

\* The location the automaton started at l is at after i events of t.
LocAfter(t, i, l) == IF i = 0 THEN l ELSE Goto[t[i].loc][t[i].answer]

-----------------------------------------------------------------------------
(***************************************************************************)
(* t is what checking position p, entered at location start, observes when *)
(* nothing else touches the caches and they hold c: an entry of c is hit,  *)
(* the file's own earlier insertions are hit, everything else misses, and  *)
(* an intern that misses inserts while its bucket has room.                *)
(***************************************************************************)
IsSerialRun(t, p, start, c) ==
    /\ \A i \in DOMAIN t :
        LET k    == KeyAt[t[i].loc]
            mine == {j \in Key : \E h \in 1..(i - 1) : Kept(t, h, j)}
        IN  /\ t[i].loc = LocAfter(t, i - 1, start)
            /\ Kind[t[i].loc] # "done"
            /\ t[i].answer = IF k \in DOMAIN c THEN c[k]
                             ELSE IF k \in mine THEN p ELSE Miss
            /\ t[i].kept =
                 (/\ Kind[t[i].loc] = "intern"
                  /\ t[i].answer = Miss
                  /\ Cardinality(Bucketmates(k) \cap (DOMAIN c \cup mine)) < Cap)
    /\ Kind[LocAfter(t, Len(t), start)] = "done"

\* The caches after position p's serial run t on c.
AfterRun(c, t, p) ==
    [k \in DOMAIN c \cup KeptKeys(t) |-> IF k \in DOMAIN c THEN c[k] ELSE p]
=============================================================================
