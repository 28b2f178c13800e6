----------------------------- MODULE TypeStore ------------------------------
(***************************************************************************)
(* The canonical type store: ProgramTypeStore, which interns function,     *)
(* parameter-list, union and property-map payloads so that equal types     *)
(* share one payload, and memoizes overload merges by payload id.          *)
(*                                                                         *)
(* The four interners are one protocol over four arrays of shards: hash    *)
(* the request, lock the shard, scan the bucket (dropping dead entries),   *)
(* answer a live equal payload, or else insert a new one and sweep the     *)
(* shard when it has grown enough.  A payload is a shape (everything that  *)
(* is compared by value) and a child, a payload that is hashed and         *)
(* compared by its address.  Entries hold Weak references: a payload lives *)
(* as long as someone holds it, and its address is not reused before the   *)
(* last weak reference is gone.  Handles are dropped without any lock.     *)
(***************************************************************************)
EXTENDS Integers, FiniteSets

CONSTANTS
    Thread,
    Addr,         \* the addresses payloads are allocated at
    NoAddr,       \* the child of a payload without one
    Shape,        \* what is compared by value
    Hash,         \* fingerprints: the keys of the bucket maps
    Fingerprint,  \* [Shape -> [Addr \cup {NoAddr} -> Hash]], not injective
    Shard,
    ShardOf,      \* [Hash -> Shard]: shard_index
    MergeShape,   \* [Shape -> [Shape -> Shape]]: the merged overload's shape
    MinSweep,     \* MIN_SWEEP_LEN
    IdSpace,      \* number of ids before the counter wraps; 2^32 in the code
    MaxMisses,    \* bound: payloads interned in one run
    MaxMerges,    \* bound: entries of the overload memo
    NoId,         \* the id of a payload outside the store
    NoReq,        \* a thread outside the interners
    DeadShape     \* any member of Shape: where no payload is

Id      == 0..(IdSpace - 1)
Entry   == [id : Id, addr : Addr]
Request == [shape : Shape, child : Addr \cup {NoAddr}, borrowed : BOOLEAN]
Merge   == [left : Id, right : Id, id : Id, addr : Addr]

ASSUME StoreAssumption ==
    /\ DeadShape \in Shape
    /\ NoReq \notin Request
    /\ NoAddr \notin Addr
    /\ Fingerprint \in [Shape -> [Addr \cup {NoAddr} -> Hash]]
    /\ ShardOf \in [Hash -> Shard]
    /\ MergeShape \in [Shape -> [Shape -> Shape]]
    /\ IsFiniteSet(Hash)
    /\ MinSweep \in Nat \ {0}
    /\ IdSpace \in Nat \ {0}
    /\ MaxMisses \in Nat
    /\ MaxMerges \in Nat
    /\ NoId \notin Nat

VARIABLES
    alive,    \* the addresses of payloads that have not been destroyed
    shape,    \* [Addr -> Shape]
    child,    \* [Addr -> Addr \cup {NoAddr}]
    ident,    \* [Addr -> id]: the id its store entry and its handles carry
    bucket,   \* [Hash -> SUBSET Entry]
    keys,     \* the hashes present in the bucket maps
    due,      \* [Shard -> Nat]: SweepThresholds
    merges,   \* overload_merges
    next,     \* the id counter (next_function, next_union, ...), before wrapping
    held,     \* [Thread -> SUBSET Addr]: the payloads a thread has handles of
    req,      \* [Thread -> Request \cup {NoReq}]: the request a thread serves,
              \* from locking the shard to unlocking it
    todo      \* [Thread -> SUBSET Entry]: the entries it has yet to scan

heapVars  == <<alive, shape, child, ident>>
tableVars == <<bucket, keys, due>>
vars == <<heapVars, tableVars, merges, next, held, req, todo>>

HashOf(r) == Fingerprint[r.shape][r.child]

Busy(t) == req[t] # NoReq

-----------------------------------------------------------------------------
(* Strong and weak references. *)

\* Arc::strong_count(a) > 0: a handle, or a payload that has not been
\* destroyed, refers to a.
Strong(a) ==
    \/ \E t \in Thread : a \in held[t]
    \/ \E b \in alive : child[b] = a

\* Some Weak entry refers to a.
Weak(a) == \/ \E h \in Hash : \E e \in bucket[h] : e.addr = a
           \/ \E m \in merges : m.addr = a

\* The last handle is gone: the payload's fields are dropped, its child's
\* reference among them.  What is left there is only an allocation.
Destroy(a) ==
    /\ a \in alive
    /\ ~Strong(a)
    /\ alive' = alive \ {a}
    /\ shape' = [shape EXCEPT ![a] = DeadShape]
    /\ child' = [child EXCEPT ![a] = NoAddr]
    /\ ident' = [ident EXCEPT ![a] = NoId]
    /\ UNCHANGED <<tableVars, merges, next, held, req, todo>>

\* A new payload may be put at a: the allocation of the last one was returned
\* when its last weak reference went.
Allocatable(a) == a \notin alive /\ ~Weak(a)

\* A payload for request r, with the given id, appears at a.
Allocate(a, r, id) ==
    /\ Allocatable(a)
    /\ alive' = alive \cup {a}
    /\ shape' = [shape EXCEPT ![a] = r.shape]
    /\ child' = [child EXCEPT ![a] = r.child]
    /\ ident' = [ident EXCEPT ![a] = id]

\* Thread t gets a handle of a.
Hold(t, a) == [held EXCEPT ![t] = @ \cup {a}]

\* A handle is cloned to another thread, through a cache or a result.
Share(t, u, a) ==
    /\ a \in held[t] \ held[u]
    /\ held' = Hold(u, a)
    /\ UNCHANGED <<heapVars, tableVars, merges, next, req, todo>>

\* A thread that is not inside the store drops a handle.
Drop(t, a) ==
    /\ ~Busy(t)
    /\ a \in held[t]
    /\ held' = [held EXCEPT ![t] = @ \ {a}]
    /\ UNCHANGED <<heapVars, tableVars, merges, next, req, todo>>

-----------------------------------------------------------------------------
(* Interning. *)

\* Mutant of LockFree: the shard is not locked.
LockFreeAlways(s) == TRUE

\* lock_shard waits until no thread is inside the shard; poisoning is ignored.
LockFree(s) == \A u \in Thread : Busy(u) => ShardOf[HashOf(req[u])] # s

\* The request is hashed, the shard locked and the bucket looked up, creating
\* it when it is missing.  The caller holds the child it passes.
Begin(t, r) ==
    LET h == HashOf(r) IN
    /\ ~Busy(t)
    /\ r.child = NoAddr \/ r.child \in held[t]
    /\ LockFree(ShardOf[h])
    /\ req' = [req EXCEPT ![t] = r]
    /\ keys' = keys \cup {h}
    /\ todo' = [todo EXCEPT ![t] = bucket[h]]
    /\ UNCHANGED <<heapVars, bucket, due, merges, next, held>>

\* canonical_types_equal: the child is compared by address.
Equal(a, r) == shape[a] = r.shape /\ child[a] = r.child

\* The answer is returned and the shard unlocked.
Finish(t) ==
    /\ req' = [req EXCEPT ![t] = NoReq]
    /\ todo' = [todo EXCEPT ![t] = {}]

\* An entry whose payload cannot be upgraded leaves the bucket.
ScanDead(t, e) ==
    /\ e \in todo[t]
    /\ ~Strong(e.addr)
    /\ bucket' = [bucket EXCEPT ![HashOf(req[t])] = @ \ {e}]
    /\ todo' = [todo EXCEPT ![t] = @ \ {e}]
    /\ UNCHANGED <<heapVars, keys, due, merges, next, held, req>>

\* A live entry of another payload with the same fingerprint.
ScanOther(t, e) ==
    /\ e \in todo[t]
    /\ Strong(e.addr)
    /\ ~Equal(e.addr, req[t])
    /\ todo' = [todo EXCEPT ![t] = @ \ {e}]
    /\ UNCHANGED <<heapVars, tableVars, merges, next, held, req>>

\* A live equal payload is answered; the entries behind it are not scanned.
ScanHit(t, e) ==
    /\ e \in todo[t]
    /\ Strong(e.addr)
    /\ Equal(e.addr, req[t])
    /\ held' = Hold(t, e.addr)
    /\ Finish(t)
    /\ UNCHANGED <<heapVars, tableVars, merges, next>>

\* intern_union_borrowed found nothing: the caller will intern the owned
\* members.  The bucket it may have created stays.
ProbeMiss(t) ==
    /\ Busy(t)
    /\ todo[t] = {}
    /\ req[t].borrowed
    /\ Finish(t)
    /\ UNCHANGED <<heapVars, tableVars, merges, next, held>>

ShardKeys(K, s) == {h \in K : ShardOf[h] = s}

\* retain_live_entries: the entries that a sweep keeps.
LiveEntries(E) == {e \in E : Strong(e.addr)}

\* sweep_if_due's test.
SweepDue(s) == Cardinality(ShardKeys(keys, s)) >= due[s]

LargerOf(a, b) == IF a > b THEN a ELSE b

\* sweep_if_due: entry e has just been pushed in the bucket of h, and the
\* shard of h is swept if it has grown enough.  The new payload is alive.
PushAndSweep(h, e) ==
    LET s == ShardOf[h]
        kept == [k \in Hash |->
                    IF ShardOf[k] # s THEN bucket[k]
                    ELSE LiveEntries(bucket[k]) \cup (IF k = h THEN {e} ELSE {})]
        full == {k \in ShardKeys(keys, s) : kept[k] # {}}
    IN
    \/ /\ ~SweepDue(s)
       /\ bucket' = [bucket EXCEPT ![h] = @ \cup {e}]
       /\ UNCHANGED <<keys, due>>
    \/ /\ SweepDue(s)
       /\ bucket' = kept
       /\ keys' = (keys \ ShardKeys(keys, s)) \cup full
       /\ due' = [due EXCEPT ![s] = LargerOf(2 * Cardinality(full), MinSweep)]

\* Mutants of FreshId: the id does not wrap; the id is the number of payloads.
FreshIdUnwrapped == next
FreshIdByCount == Cardinality(alive) % IdSpace

\* fetch_add on the interner's counter, a 32-bit integer in the code.
FreshId == next % IdSpace

\* A miss: the payload is allocated at a with a fresh id and entered, and the
\* shard swept if it is due.  All of it under the shard's lock.
Insert(t, a) ==
    LET id == FreshId IN
    /\ Busy(t)
    /\ todo[t] = {}
    /\ ~req[t].borrowed
    /\ next <= MaxMisses
    /\ Allocate(a, req[t], id)
    /\ next' = next + 1
    /\ held' = Hold(t, a)
    /\ PushAndSweep(HashOf(req[t]), [id |-> id, addr |-> a])
    /\ Finish(t)
    /\ UNCHANGED merges

\* A type with no fingerprint (an unresolved part, or over budget): the
\* payload is private to its handles.
Fallback(t, a, r) ==
    /\ ~Busy(t)
    /\ ~r.borrowed
    /\ r.child = NoAddr \/ r.child \in held[t]
    /\ Allocate(a, r, NoId)
    /\ held' = Hold(t, a)
    /\ UNCHANGED <<tableVars, merges, next, req, todo>>

-----------------------------------------------------------------------------
(* Overload merges, memoized by the ids of the merged pair. *)

\* Mutant of MergeOf: the pair is looked up in either order.
MergeOfUnordered(l, r) ==
    {m \in merges : {m.left, m.right} = {ident[l], ident[r]}}

MergeOf(l, r) == {m \in merges : m.left = ident[l] /\ m.right = ident[r]}

\* Thread t, not inside an interner, has canonical handles of l and r.
Canonical(t, l, r) ==
    /\ ~Busy(t)
    /\ l \in held[t] /\ r \in held[t]
    /\ ident[l] # NoId /\ ident[r] # NoId

\* lookup_overload_merge answers a merge that is still alive.
LookupMerge(t, l, r) ==
    /\ Canonical(t, l, r)
    /\ \E m \in MergeOf(l, r) :
        /\ Strong(m.addr)
        /\ held' = Hold(t, m.addr)
    /\ UNCHANGED <<heapVars, tableVars, merges, next, req, todo>>

\* lookup_overload_merge finds a dead one and removes it.
LookupStaleMerge(t, l, r) ==
    /\ Canonical(t, l, r)
    /\ \E m \in MergeOf(l, r) :
        /\ ~Strong(m.addr)
        /\ merges' = merges \ {m}
    /\ UNCHANGED <<heapVars, tableVars, next, held, req, todo>>

\* record_overload_merge: t merged l and r into a.  A merge another thread
\* recorded meanwhile is answered instead; otherwise the entry is replaced
\* and the dead merges may be swept.
RecordMerge(t, l, r, a) ==
    LET old == MergeOf(l, r)
        new == [left |-> ident[l], right |-> ident[r], id |-> ident[a], addr |-> a]
    IN
    /\ Canonical(t, l, r)
    /\ a \in held[t] /\ ident[a] # NoId
    /\ shape[a] = MergeShape[shape[l]][shape[r]] /\ child[a] = NoAddr
    /\ \/ \E m \in old :
            /\ Strong(m.addr)
            /\ held' = Hold(t, m.addr)
            /\ UNCHANGED merges
       \/ /\ \A m \in old : ~Strong(m.addr)
          /\ merges' \in {(merges \ old) \cup {new},
                          {m \in merges \ old : Strong(m.addr)} \cup {new}}
          /\ Cardinality(merges') <= MaxMerges
          /\ UNCHANGED held
    /\ UNCHANGED <<heapVars, tableVars, next, req, todo>>

-----------------------------------------------------------------------------
(* The specification. *)

\* ProgramTypeStore::new: nothing interned, ids start at 1.
Init ==
    /\ alive = {}
    /\ shape = [a \in Addr |-> DeadShape]
    /\ child = [a \in Addr |-> NoAddr]
    /\ ident = [a \in Addr |-> NoId]
    /\ bucket = [h \in Hash |-> {}]
    /\ keys = {}
    /\ due = [s \in Shard |-> MinSweep]
    /\ merges = {}
    /\ next = 1
    /\ held = [t \in Thread |-> {}]
    /\ req = [t \in Thread |-> NoReq]
    /\ todo = [t \in Thread |-> {}]

Intern(t) ==
    \/ \E r \in Request : Begin(t, r)
    \/ \E e \in todo[t] : ScanDead(t, e) \/ ScanOther(t, e) \/ ScanHit(t, e)
    \/ ProbeMiss(t)
    \/ \E a \in Addr : Insert(t, a)

MergeStep(t) ==
    \E l, r \in Addr :
        \/ LookupMerge(t, l, r)
        \/ LookupStaleMerge(t, l, r)
        \/ \E a \in Addr : RecordMerge(t, l, r, a)

Next ==
    \/ \E a \in Addr : Destroy(a)
    \/ \E t \in Thread :
        \/ Intern(t)
        \/ MergeStep(t)
        \/ \E a \in Addr : Drop(t, a)
        \/ \E u \in Thread, a \in Addr : Share(t, u, a)
        \/ \E a \in Addr, r \in Request : Fallback(t, a, r)

Spec == Init /\ [][Next]_vars

-----------------------------------------------------------------------------
(* Properties. *)

\* The types of the heap, the tables and the threads' requests.
TypeOK ==
    /\ alive \in SUBSET Addr
    /\ shape \in [Addr -> Shape]
    /\ child \in [Addr -> Addr \cup {NoAddr}]
    /\ ident \in [Addr -> Id \cup {NoId}]
    /\ bucket \in [Hash -> SUBSET Entry]
    /\ keys \in SUBSET Hash
    /\ due \in [Shard -> Nat]
    /\ merges \in SUBSET Merge
    /\ next \in Nat
    /\ held \in [Thread -> SUBSET Addr]
    /\ req \in [Thread -> Request \cup {NoReq}]
    /\ todo \in [Thread -> SUBSET Entry]

\* Payloads of the store that are reachable.
Interned == {a \in Addr : Strong(a) /\ ident[a] # NoId}

\* Two reachable payloads of the store that are equal are one payload: pointer
\* comparison of interned types is type equality, however the threads' scans,
\* drops, sweeps and address reuse interleave (intern_function, intern_union,
\* intern_property_map, intern_parameter_list).
OneLivePayload ==
    \A a, b \in Interned : shape[a] = shape[b] /\ child[a] = child[b] => a = b

\* Two payloads that are alive never carry the same id: the id comparisons
\* that stand in for payload comparisons are exact.  It holds while the
\* counter has not wrapped.
IdsDistinct ==
    \A a, b \in Interned : ident[a] = ident[b] => a = b

\* What lookup_overload_merge answers for a pair of live functions is their
\* merge, although the memo outlives the functions it was recorded for and is
\* keyed by nothing but their ids.
MergeFaithful ==
    \A l, r \in Interned : \A m \in MergeOf(l, r) :
        Strong(m.addr) => shape[m.addr] = MergeShape[shape[l]][shape[r]]

=============================================================================
