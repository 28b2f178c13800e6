-------------------------- MODULE TypeStoreProofs ---------------------------
(***************************************************************************)
(* Proofs about the canonical type store, for every number of threads,     *)
(* addresses, shapes, fingerprints and shards.                             *)
(***************************************************************************)
EXTENDS TypeStore, FiniteSetTheorems, TLAPS

(* The inductive invariant. *)

\* A handle, and the child of a payload that a handle can reach, is a payload
\* that has not been destroyed: an upgraded entry is never one whose drop has
\* already begun.
HandlesAlive ==
    /\ \A t \in Thread : \A a \in held[t] : a \in alive
    /\ \A a \in alive : child[a] # NoAddr => child[a] \in alive

\* Every reachable payload of the store has its entry, in its own bucket.
Entered ==
    \A a \in alive : Strong(a) /\ ident[a] # NoId =>
        \E e \in bucket[Fingerprint[shape[a]][child[a]]] : e.addr = a

\* What a thread has scanned and not answered is dead or another type.
Scanned ==
    \A t \in Thread : Busy(t) =>
        \A e \in bucket[HashOf(req[t])] \ todo[t] :
            Strong(e.addr) => ~Equal(e.addr, req[t])

\* A thread scans what is still in its bucket, and only while it serves a
\* request, whose child it holds; no two threads are in one shard.
Exclusive ==
    /\ \A t \in Thread : ~Busy(t) => todo[t] = {}
    /\ \A t \in Thread : Busy(t) => /\ todo[t] \subseteq bucket[HashOf(req[t])]
                                    /\ req[t].child \in held[t] \cup {NoAddr}
    /\ \A t, u \in Thread :
        Busy(t) /\ Busy(u) /\ ShardOf[HashOf(req[t])] = ShardOf[HashOf(req[u])] => t = u

SafeInv == TypeOK /\ HandlesAlive /\ Entered /\ Scanned /\ Exclusive /\ OneLivePayload

\* Ids are handed out in order.
IdsBelow ==
    /\ \A a \in alive : ident[a] # NoId => ident[a] < next
    /\ \A m \in merges : m.left < next /\ m.right < next

\* Distinct even among payloads whose destruction has not begun.
IdsUnique == \A a, b \in alive : ident[a] # NoId /\ ident[a] = ident[b] => a = b

\* A memoized merge, while its result is reachable.
MergesRight ==
    \A m \in merges : \A l, r \in alive :
        ident[l] = m.left /\ ident[r] = m.right /\ Strong(m.addr)
            => shape[m.addr] = MergeShape[shape[l]][shape[r]]

IdInv == SafeInv /\ IdsBelow /\ IdsUnique /\ MergesRight

-----------------------------------------------------------------------------
(* How each step changes what is reachable. *)

\* Cloning a handle of something reachable makes nothing else reachable.
LEMMA HoldStrong ==
    ASSUME TypeOK, NEW t \in Thread, NEW a \in Addr, Strong(a),
           held' = Hold(t, a), UNCHANGED <<alive, child>>
    PROVE  \A b \in Addr : Strong(b)' => Strong(b)
BY DEF TypeOK, Strong, Hold

\* A step that changes handles only, without making anything reachable, keeps
\* the invariant.
LEMMA HandleStep ==
    ASSUME SafeInv, held' \in [Thread -> SUBSET Addr],
           \A t \in Thread : held'[t] \subseteq alive,
           \A t \in Thread : Busy(t) => held[t] \subseteq held'[t],
           \A b \in Addr : Strong(b)' => Strong(b),
           merges' \in SUBSET Merge,
           UNCHANGED <<heapVars, tableVars, next, req, todo>>
    PROVE  SafeInv'
<1> USE DEF heapVars, tableVars
<1>1. TypeOK'
  BY DEF SafeInv, TypeOK
<1>2. HandlesAlive'
  BY DEF SafeInv, HandlesAlive
<1>3. Entered'
  BY DEF SafeInv, TypeOK, Entered
<1>4. Scanned'
  <2>1. \A t \in Thread, e \in Entry : e.addr \in Addr /\ (Equal(e.addr, req[t])' <=> Equal(e.addr, req[t]))
    BY DEF Equal, Entry
  <2>2. \A t \in Thread : Busy(t) => HashOf(req[t]) \in Hash
    BY StoreAssumption DEF SafeInv, TypeOK, Busy, HashOf, Request
  <2> QED
    BY <2>1, <2>2 DEF SafeInv, TypeOK, Scanned, Busy, HashOf
<1>5. Exclusive'
  BY DEF SafeInv, Exclusive, Busy, HashOf
<1>6. OneLivePayload'
  BY DEF SafeInv, OneLivePayload, Interned
<1> QED
  BY <1>1, <1>2, <1>3, <1>4, <1>5, <1>6 DEF SafeInv

\* Inside an interner, a thread's request is a request and its bucket exists.
LEMMA BusyTypes ==
    ASSUME TypeOK, NEW t \in Thread, Busy(t)
    PROVE  req[t] \in Request /\ HashOf(req[t]) \in Hash
BY StoreAssumption DEF TypeOK, Busy, HashOf, Request

\* A new payload, held by the thread that asked for it and whose child that
\* thread holds, is the only one that becomes reachable.
LEMMA AllocateStrong ==
    ASSUME TypeOK, HandlesAlive, NEW t \in Thread, NEW a \in Addr, NEW r \in Request,
           NEW id \in Id \cup {NoId},
           r.child \in held[t] \cup {NoAddr}, Allocate(a, r, id), held' = Hold(t, a)
    PROVE  /\ \A b \in Addr \ {a} : Strong(b)' => Strong(b)
           /\ ~Strong(a) /\ ~Weak(a) /\ a \notin alive
           /\ alive' = alive \cup {a}
           /\ shape' \in [Addr -> Shape] /\ shape'[a] = r.shape
           /\ child' \in [Addr -> Addr \cup {NoAddr}] /\ child'[a] = r.child
           /\ ident' \in [Addr -> Id \cup {NoId}] /\ ident'[a] = id
           /\ \A b \in Addr \ {a} : /\ shape'[b] = shape[b]
                                    /\ child'[b] = child[b]
                                    /\ ident'[b] = ident[b]
<1>1. a \notin alive /\ ~Weak(a)
  BY DEF Allocate, Allocatable
<1>2. ~Strong(a)
  BY <1>1, StoreAssumption DEF HandlesAlive, Strong
<1>3. /\ alive' = alive \cup {a}
      /\ shape' \in [Addr -> Shape] /\ shape'[a] = r.shape
      /\ child' \in [Addr -> Addr \cup {NoAddr}] /\ child'[a] = r.child
      /\ ident' \in [Addr -> Id \cup {NoId}] /\ ident'[a] = id
      /\ \A b \in Addr \ {a} : /\ shape'[b] = shape[b]
                               /\ child'[b] = child[b]
                               /\ ident'[b] = ident[b]
  BY DEF TypeOK, Allocate, Request
<1>4. ASSUME NEW b \in Addr \ {a}, Strong(b)' PROVE Strong(b)
  <2>1. CASE \E u \in Thread : b \in held'[u]
    BY <2>1 DEF TypeOK, Hold, Strong
  <2>2. CASE \E c \in alive' : child'[c] = b
    BY <2>2, <1>3, <1>1, StoreAssumption DEF TypeOK, Strong
  <2> QED
    BY <1>4, <2>1, <2>2 DEF Strong
<1> QED
  BY <1>1, <1>2, <1>3, <1>4

-----------------------------------------------------------------------------
(* Each action keeps the safety invariant. *)

LEMMA BeginSafe ==
    ASSUME SafeInv, NEW t \in Thread, NEW r \in Request, Begin(t, r)
    PROVE  SafeInv'
<1> USE DEF heapVars
<1>1. TypeOK /\ HandlesAlive /\ Entered /\ Scanned /\ Exclusive /\ OneLivePayload
  BY DEF SafeInv
<1>2. HashOf(r) \in Hash /\ r # NoReq
  BY StoreAssumption DEF HashOf, Request
<1>3. /\ req'[t] = r /\ todo'[t] = bucket[HashOf(r)]
      /\ \A u \in Thread \ {t} : req'[u] = req[u] /\ todo'[u] = todo[u]
  BY <1>1 DEF TypeOK, Begin
<1>4. /\ UNCHANGED <<alive, shape, child, ident, bucket, due, merges, next, held>>
      /\ ~Busy(t) /\ r.child \in held[t] \cup {NoAddr}
      /\ LockFree(ShardOf[HashOf(r)])
  BY DEF Begin
<1>5. TypeOK'
  BY <1>1, <1>2 DEF TypeOK, Begin
<1>6. HandlesAlive' /\ Entered' /\ OneLivePayload'
  BY <1>1, <1>4 DEF HandlesAlive, Entered, OneLivePayload, Interned, Strong
<1>7. Scanned'
  BY <1>1, <1>3, <1>4 DEF Scanned, Busy, HashOf, Equal, Strong
<1>8. Exclusive'
  BY <1>1, <1>2, <1>3, <1>4 DEF Exclusive, LockFree, Busy, HashOf
<1> QED
  BY <1>5, <1>6, <1>7, <1>8 DEF SafeInv

LEMMA ScanDeadSafe ==
    ASSUME SafeInv, NEW t \in Thread, NEW e \in todo[t], ScanDead(t, e)
    PROVE  SafeInv'
<1> USE DEF heapVars
<1>1. TypeOK /\ HandlesAlive /\ Entered /\ Scanned /\ Exclusive /\ OneLivePayload
  BY DEF SafeInv
<1>2. Busy(t) /\ e \in Entry /\ e.addr \in Addr
  BY <1>1 DEF Exclusive, TypeOK, Entry
<1> DEFINE k == HashOf(req[t])
<1>3. k \in Hash
  BY <1>1, <1>2, BusyTypes
<1>4. /\ UNCHANGED <<alive, shape, child, ident, keys, due, merges, next, held, req>>
      /\ bucket' = [bucket EXCEPT ![k] = @ \ {e}]
      /\ todo' = [todo EXCEPT ![t] = @ \ {e}]
      /\ ~Strong(e.addr)
  BY DEF ScanDead
<1>5. /\ bucket'[k] = bucket[k] \ {e} /\ todo'[t] = todo[t] \ {e}
      /\ \A h \in Hash \ {k} : bucket'[h] = bucket[h]
      /\ \A u \in Thread \ {t} : todo'[u] = todo[u]
  BY <1>1, <1>3, <1>4 DEF TypeOK
<1>6. \A b : Strong(b)' <=> Strong(b)
  BY <1>4 DEF Strong
<1>7. TypeOK'
  BY <1>1, <1>4 DEF TypeOK
<1>8. HandlesAlive' /\ OneLivePayload'
  BY <1>1, <1>4, <1>6 DEF HandlesAlive, OneLivePayload, Interned
<1>9. Entered'
  <2> SUFFICES ASSUME NEW a \in alive, Strong(a), ident[a] # NoId
               PROVE  \E f \in bucket'[Fingerprint[shape[a]][child[a]]] : f.addr = a
    BY <1>4, <1>6 DEF Entered
  <2>1. PICK f \in bucket[Fingerprint[shape[a]][child[a]]] : f.addr = a
    BY <1>1 DEF Entered
  <2>2. f # e
    BY <2>1, <1>4
  <2>3. Fingerprint[shape[a]][child[a]] \in Hash
    BY <1>1, StoreAssumption DEF TypeOK
  <2> QED
    BY <2>1, <2>2, <2>3, <1>5
<1>10. \A u \in Thread : Busy(u) /\ u # t => HashOf(req[u]) # k /\ HashOf(req[u]) \in Hash
  BY <1>1, <1>2, BusyTypes DEF Exclusive
<1>11. Scanned'
  BY <1>1, <1>3, <1>4, <1>5, <1>6, <1>10 DEF Scanned, Busy, HashOf, Equal
<1>12. Exclusive'
  BY <1>1, <1>2, <1>4, <1>5, <1>10 DEF Exclusive, Busy, HashOf
<1> QED
  BY <1>7, <1>8, <1>9, <1>11, <1>12 DEF SafeInv

LEMMA ScanOtherSafe ==
    ASSUME SafeInv, NEW t \in Thread, NEW e \in todo[t], ScanOther(t, e)
    PROVE  SafeInv'
<1> USE DEF heapVars, tableVars
<1>1. TypeOK /\ HandlesAlive /\ Entered /\ Scanned /\ Exclusive /\ OneLivePayload
  BY DEF SafeInv
<1>2. /\ UNCHANGED <<alive, shape, child, ident, bucket, keys, due, merges, next, held, req>>
      /\ ~Equal(e.addr, req[t])
  BY DEF ScanOther
<1>3. todo'[t] = todo[t] \ {e} /\ \A u \in Thread \ {t} : todo'[u] = todo[u]
  BY <1>1 DEF TypeOK, ScanOther
<1>4. TypeOK'
  BY <1>1, <1>2 DEF TypeOK, ScanOther
<1>5. HandlesAlive' /\ Entered' /\ OneLivePayload'
  BY <1>1, <1>2 DEF HandlesAlive, Entered, OneLivePayload, Interned, Strong
<1>6. Scanned'
  BY <1>1, <1>2, <1>3 DEF Scanned, Busy, HashOf, Equal, Strong
<1>7. Exclusive'
  BY <1>1, <1>2, <1>3 DEF Exclusive, Busy, HashOf
<1> QED
  BY <1>4, <1>5, <1>6, <1>7 DEF SafeInv

\* A thread leaves the interner with a handle of something reachable, or with
\* nothing.
LEMMA FinishSafe ==
    ASSUME SafeInv, NEW t \in Thread, Finish(t),
           held' \in [Thread -> SUBSET Addr],
           \A u \in Thread : held[u] \subseteq held'[u] /\ held'[u] \subseteq alive,
           \A b \in Addr : Strong(b)' => Strong(b),
           UNCHANGED <<heapVars, tableVars, merges, next>>
    PROVE  SafeInv'
<1> USE DEF heapVars, tableVars
<1>1. TypeOK /\ HandlesAlive /\ Entered /\ Scanned /\ Exclusive /\ OneLivePayload
  BY DEF SafeInv
<1>2. /\ req'[t] = NoReq /\ todo'[t] = {}
      /\ \A u \in Thread \ {t} : req'[u] = req[u] /\ todo'[u] = todo[u]
  BY <1>1 DEF TypeOK, Finish
<1>3. TypeOK'
  BY <1>1 DEF TypeOK, Finish
<1>4. HandlesAlive' /\ Entered' /\ OneLivePayload'
  BY <1>1 DEF TypeOK, HandlesAlive, Entered, OneLivePayload, Interned
<1>5. Scanned'
  <2> SUFFICES ASSUME NEW u \in Thread, Busy(u)',
                      NEW e \in bucket[HashOf(req[u])] \ todo[u], Strong(e.addr)'
               PROVE  ~Equal(e.addr, req[u]) /\ u # t
    BY <1>2 DEF Scanned, Busy, HashOf, Equal
  <2>1. u # t /\ Busy(u)
    BY <1>2 DEF Busy
  <2>2. e.addr \in Addr
    BY <1>1, <2>1, BusyTypes DEF TypeOK, Entry
  <2> QED
    BY <1>1, <2>1, <2>2 DEF Scanned
<1>6. Exclusive'
  BY <1>1, <1>2 DEF Exclusive, Busy, HashOf
<1> QED
  BY <1>3, <1>4, <1>5, <1>6 DEF SafeInv

LEMMA DestroySafe ==
    ASSUME SafeInv, NEW a \in Addr, Destroy(a)
    PROVE  SafeInv'
<1> USE DEF heapVars, tableVars
<1>1. TypeOK /\ HandlesAlive /\ Entered /\ Scanned /\ Exclusive /\ OneLivePayload
  BY DEF SafeInv
<1>2. /\ a \in alive /\ ~Strong(a) /\ alive' = alive \ {a}
      /\ UNCHANGED <<bucket, keys, due, merges, next, held, req, todo>>
      /\ \A b \in Addr \ {a} : /\ shape'[b] = shape[b]
                               /\ child'[b] = child[b]
                               /\ ident'[b] = ident[b]
  BY <1>1 DEF TypeOK, Destroy
<1>3. TypeOK'
  BY <1>1, StoreAssumption DEF TypeOK, Destroy
<1>4. \A b \in Addr : Strong(b)' => Strong(b) /\ b # a
  BY <1>1, <1>2 DEF TypeOK, Strong
<1>5. HandlesAlive'
  BY <1>1, <1>2 DEF TypeOK, HandlesAlive, Strong
<1>6. Entered' /\ OneLivePayload'
  BY <1>1, <1>2, <1>4 DEF TypeOK, Entered, OneLivePayload, Interned
<1>7. Scanned'
  <2> SUFFICES ASSUME NEW u \in Thread, Busy(u),
                      NEW e \in bucket[HashOf(req[u])] \ todo[u], Strong(e.addr)'
               PROVE  ~Equal(e.addr, req[u])'
    BY <1>2 DEF Scanned, Busy, HashOf
  <2>1. e.addr \in Addr
    BY <1>1, BusyTypes DEF TypeOK, Entry
  <2> QED
    BY <1>1, <1>2, <1>4, <2>1 DEF Scanned, Equal
<1>8. Exclusive'
  BY <1>1, <1>2 DEF Exclusive, Busy, HashOf
<1> QED
  BY <1>3, <1>5, <1>6, <1>7, <1>8 DEF SafeInv

\* Pushing an entry and sweeping keeps every entry of a reachable payload, adds
\* no other, and leaves the other shards alone.
LEMMA PushAndSweepKeeps ==
    ASSUME TypeOK, NEW h \in Hash, NEW e \in Entry, PushAndSweep(h, e)
    PROVE  /\ bucket' \in [Hash -> SUBSET Entry]
           /\ keys' \in SUBSET Hash /\ due' \in [Shard -> Nat]
           /\ e \in bucket'[h]
           /\ \A k \in Hash : \A f \in bucket[k] : Strong(f.addr) => f \in bucket'[k]
           /\ \A k \in Hash : ShardOf[k] # ShardOf[h] => bucket'[k] = bucket[k]
<1> DEFINE s == ShardOf[h]
           kept == [k \in Hash |->
                       IF ShardOf[k] # s THEN bucket[k]
                       ELSE LiveEntries(bucket[k]) \cup (IF k = h THEN {e} ELSE {})]
           full == {k \in ShardKeys(keys, s) : kept[k] # {}}
<1>1. CASE /\ bucket' = [bucket EXCEPT ![h] = @ \cup {e}]
           /\ UNCHANGED <<keys, due>>
  BY <1>1 DEF TypeOK
<1>2. CASE /\ bucket' = kept
           /\ keys' = (keys \ ShardKeys(keys, s)) \cup full
           /\ due' = [due EXCEPT ![s] = LargerOf(2 * Cardinality(full), MinSweep)]
  <2>1. kept \in [Hash -> SUBSET Entry]
    BY DEF TypeOK, LiveEntries
  <2>2. full \in SUBSET Hash /\ (keys \ ShardKeys(keys, s)) \cup full \in SUBSET Hash
    BY DEF TypeOK, ShardKeys
  <2>3. Cardinality(full) \in Nat
    BY <2>2, StoreAssumption, FS_Subset, FS_CardinalityType
  <2>4. LargerOf(2 * Cardinality(full), MinSweep) \in Nat
    BY <2>3, StoreAssumption DEF LargerOf
  <2>5. due' \in [Shard -> Nat]
    BY <1>2, <2>4 DEF TypeOK
  <2>6. e \in kept[h]
    OBVIOUS
  <2>7. \A k \in Hash : \A f \in bucket[k] : Strong(f.addr) => f \in kept[k]
    BY DEF LiveEntries
  <2>8. \A k \in Hash : ShardOf[k] # s => kept[k] = bucket[k]
    OBVIOUS
  <2> HIDE DEF kept, full
  <2> QED
    BY <1>2, <2>1, <2>2, <2>5, <2>6, <2>7, <2>8
<1> QED
  BY <1>1, <1>2 DEF PushAndSweep

LEMMA InsertSafe ==
    ASSUME SafeInv, NEW t \in Thread, NEW a \in Addr, Insert(t, a)
    PROVE  SafeInv'
<1> DEFINE r == req[t]
           h == HashOf(r)
           e == [id |-> FreshId, addr |-> a]
<1>1. TypeOK /\ HandlesAlive /\ Entered /\ Scanned /\ Exclusive /\ OneLivePayload
  BY DEF SafeInv
<1>2. /\ Busy(t) /\ todo[t] = {}
      /\ Allocate(a, r, FreshId)
      /\ next' = next + 1
      /\ held' = Hold(t, a)
      /\ PushAndSweep(h, e)
      /\ Finish(t)
      /\ merges' = merges
  BY DEF Insert
<1>3. r \in Request /\ h \in Hash /\ r.child \in held[t] \cup {NoAddr}
  BY <1>1, <1>2, BusyTypes DEF Exclusive
<1>4. FreshId \in Id /\ e \in Entry
  BY <1>1, StoreAssumption DEF TypeOK, FreshId, Id, Entry
<1> HIDE DEF r, h, e
<1>5. /\ \A b \in Addr \ {a} : Strong(b)' => Strong(b)
      /\ ~Strong(a) /\ ~Weak(a) /\ a \notin alive
      /\ alive' = alive \cup {a}
      /\ shape' \in [Addr -> Shape] /\ shape'[a] = r.shape
      /\ child' \in [Addr -> Addr \cup {NoAddr}] /\ child'[a] = r.child
      /\ ident' \in [Addr -> Id \cup {NoId}] /\ ident'[a] = FreshId
      /\ \A b \in Addr \ {a} : /\ shape'[b] = shape[b]
                               /\ child'[b] = child[b]
                               /\ ident'[b] = ident[b]
  BY <1>1, <1>2, <1>3, <1>4, AllocateStrong
<1>6. /\ bucket' \in [Hash -> SUBSET Entry]
      /\ keys' \in SUBSET Hash /\ due' \in [Shard -> Nat]
      /\ e \in bucket'[h]
      /\ \A k \in Hash : \A f \in bucket[k] : Strong(f.addr) => f \in bucket'[k]
      /\ \A k \in Hash : ShardOf[k] # ShardOf[h] => bucket'[k] = bucket[k]
  BY <1>1, <1>2, <1>3, <1>4, PushAndSweepKeeps
<1>7. /\ req'[t] = NoReq /\ todo'[t] = {}
      /\ req' \in [Thread -> Request \cup {NoReq}] /\ todo' \in [Thread -> SUBSET Entry]
      /\ \A u \in Thread \ {t} : req'[u] = req[u] /\ todo'[u] = todo[u]
  BY <1>1, <1>2 DEF TypeOK, Finish
<1>8. /\ held' \in [Thread -> SUBSET Addr] /\ held'[t] = held[t] \cup {a}
      /\ \A u \in Thread \ {t} : held'[u] = held[u]
  BY <1>1, <1>2 DEF TypeOK, Hold
<1>9. TypeOK'
  BY <1>1, <1>2, <1>5, <1>6, <1>7, <1>8 DEF TypeOK
<1>10. HandlesAlive'
  BY <1>1, <1>3, <1>5, <1>8 DEF TypeOK, HandlesAlive
<1>11. Entered'
  <2> SUFFICES ASSUME NEW b \in alive', Strong(b)', ident'[b] # NoId
               PROVE  \E f \in bucket'[Fingerprint[shape'[b]][child'[b]]] : f.addr = b
    BY DEF Entered
  <2>1. CASE b = a
    BY <2>1, <1>5, <1>6 DEF e, h, HashOf
  <2>2. CASE b # a
    <3>1. b \in alive /\ b \in Addr /\ Strong(b)
      BY <2>2, <1>1, <1>5 DEF TypeOK
    <3>2. PICK f \in bucket[Fingerprint[shape[b]][child[b]]] : f.addr = b
      BY <3>1, <2>2, <1>1, <1>5 DEF Entered
    <3>3. Fingerprint[shape[b]][child[b]] \in Hash
      BY <3>1, <1>1, StoreAssumption DEF TypeOK
    <3> QED
      BY <3>1, <3>2, <3>3, <2>2, <1>5, <1>6
  <2> QED
    BY <2>1, <2>2
<1>12. \A b \in Interned : ~(shape[b] = r.shape /\ child[b] = r.child)
  <2> SUFFICES ASSUME NEW b \in Interned, shape[b] = r.shape, child[b] = r.child
               PROVE  FALSE
    OBVIOUS
  <2>1. b \in Addr /\ Strong(b) /\ ident[b] # NoId
    BY DEF Interned
  <2>2. b \in alive
    BY <2>1, <1>1, StoreAssumption DEF HandlesAlive, TypeOK, Strong
  <2>3. PICK f \in bucket[h] : f.addr = b
    BY <2>1, <2>2, <1>1 DEF Entered, h, HashOf
  <2> QED
    BY <2>1, <2>3, <1>1, <1>2 DEF Scanned, Equal, h, r
<1>13. OneLivePayload'
  BY <1>1, <1>5, <1>12 DEF OneLivePayload, Interned
<1>14. \A u \in Thread : Busy(u)' => /\ Busy(u) /\ u # t /\ HashOf(req[u]) \in Hash
                                      /\ req'[u] = req[u] /\ todo'[u] = todo[u]
                                      /\ bucket'[HashOf(req[u])] = bucket[HashOf(req[u])]
  BY <1>1, <1>2, <1>6, <1>7, BusyTypes DEF Exclusive, Busy, h, r
<1>15. Scanned'
  <2> SUFFICES ASSUME NEW u \in Thread, Busy(u)',
                      NEW f \in bucket[HashOf(req[u])] \ todo[u], Strong(f.addr)'
               PROVE  ~Equal(f.addr, req[u])'
    BY <1>14 DEF Scanned, HashOf
  <2>1. f.addr \in Addr
    BY <1>1, <1>14 DEF TypeOK, Entry
  <2>2. f.addr # a
    BY <1>5, <1>14 DEF Weak
  <2>3. ~Equal(f.addr, req[u])
    BY <2>1, <2>2, <1>1, <1>5, <1>14 DEF Scanned
  <2> QED
    BY <2>1, <2>2, <2>3, <1>5, <1>14 DEF Equal
<1>16. Exclusive'
  <2>1. \A u \in Thread : held[u] \subseteq held'[u]
    BY <1>8
  <2> QED
    BY <2>1, <1>1, <1>7, <1>14 DEF Exclusive, HashOf, Busy
<1> QED
  BY <1>9, <1>10, <1>11, <1>13, <1>15, <1>16 DEF SafeInv

LEMMA FallbackSafe ==
    ASSUME SafeInv, NEW t \in Thread, NEW a \in Addr, NEW r \in Request, Fallback(t, a, r)
    PROVE  SafeInv'
<1>1. TypeOK /\ HandlesAlive /\ Entered /\ Scanned /\ Exclusive /\ OneLivePayload
  BY DEF SafeInv
<1>2. /\ ~Busy(t) /\ r.child \in held[t] \cup {NoAddr}
      /\ Allocate(a, r, NoId)
      /\ held' = Hold(t, a)
      /\ UNCHANGED <<bucket, keys, due, merges, next, req, todo>>
  BY DEF Fallback, tableVars
<1>3. /\ \A b \in Addr \ {a} : Strong(b)' => Strong(b)
      /\ ~Strong(a) /\ ~Weak(a) /\ a \notin alive
      /\ alive' = alive \cup {a}
      /\ shape' \in [Addr -> Shape] /\ shape'[a] = r.shape
      /\ child' \in [Addr -> Addr \cup {NoAddr}] /\ child'[a] = r.child
      /\ ident' \in [Addr -> Id \cup {NoId}] /\ ident'[a] = NoId
      /\ \A b \in Addr \ {a} : /\ shape'[b] = shape[b]
                               /\ child'[b] = child[b]
                               /\ ident'[b] = ident[b]
  BY <1>1, <1>2, AllocateStrong
<1>4. /\ held' \in [Thread -> SUBSET Addr] /\ held'[t] = held[t] \cup {a}
      /\ \A u \in Thread \ {t} : held'[u] = held[u]
  BY <1>1, <1>2 DEF TypeOK, Hold
<1>5. TypeOK'
  BY <1>1, <1>2, <1>3, <1>4 DEF TypeOK
<1>6. HandlesAlive'
  BY <1>1, <1>2, <1>3, <1>4 DEF TypeOK, HandlesAlive
<1>7. Entered' /\ OneLivePayload'
  BY <1>1, <1>2, <1>3 DEF TypeOK, Entered, OneLivePayload, Interned
<1>8. Scanned'
  <2> SUFFICES ASSUME NEW u \in Thread, Busy(u),
                      NEW f \in bucket[HashOf(req[u])] \ todo[u], Strong(f.addr)'
               PROVE  ~Equal(f.addr, req[u])'
    BY <1>2 DEF Scanned, Busy, HashOf
  <2>1. f.addr \in Addr /\ f.addr # a
    BY <1>1, <1>3, BusyTypes DEF TypeOK, Entry, Weak
  <2> QED
    BY <1>1, <1>2, <1>3, <2>1 DEF Scanned, Equal
<1>9. Exclusive'
  <2>1. \A u \in Thread : held[u] \subseteq held'[u]
    BY <1>4
  <2> QED
    BY <2>1, <1>1, <1>2 DEF Exclusive, Busy, HashOf
<1> QED
  BY <1>5, <1>6, <1>7, <1>8, <1>9 DEF SafeInv

\* What is reachable has not been destroyed.
LEMMA StrongAlive ==
    ASSUME TypeOK, HandlesAlive, NEW a \in Addr, Strong(a)
    PROVE  a \in alive
BY StoreAssumption DEF TypeOK, HandlesAlive, Strong

\* Cloning a handle of something reachable keeps the invariant.
LEMMA HoldSafe ==
    ASSUME SafeInv, NEW t \in Thread, NEW a \in Addr, Strong(a), held' = Hold(t, a),
           UNCHANGED <<heapVars, tableVars, merges, next>>
    PROVE  /\ UNCHANGED <<req, todo>> => SafeInv'
           /\ Finish(t) => SafeInv'
<1>1. TypeOK /\ HandlesAlive
  BY DEF SafeInv
<1>2. a \in alive
  BY <1>1, StrongAlive
<1>3. \A b \in Addr : Strong(b)' => Strong(b)
  BY <1>1, HoldStrong DEF heapVars
<1>4. /\ held' \in [Thread -> SUBSET Addr]
      /\ \A u \in Thread : held[u] \subseteq held'[u] /\ held'[u] \subseteq alive
  BY <1>1, <1>2 DEF TypeOK, Hold, HandlesAlive
<1>5. ASSUME UNCHANGED <<req, todo>> PROVE SafeInv'
  <2>1. merges' \in SUBSET Merge
    BY <1>1 DEF TypeOK
  <2> QED
    BY <1>3, <1>4, <1>5, <2>1, HandleStep
<1>6. ASSUME Finish(t) PROVE SafeInv'
  BY <1>3, <1>4, <1>6, FinishSafe
<1> QED
  BY <1>5, <1>6

\* The memo of merges does not bear on the interners.
LEMMA MergesOnlySafe ==
    ASSUME SafeInv, merges' \in SUBSET Merge,
           UNCHANGED <<heapVars, tableVars, next, held, req, todo>>
    PROVE  SafeInv'
<1>1. \A b \in Addr : Strong(b)' => Strong(b)
  BY DEF Strong, heapVars
<1>2. held' \in [Thread -> SUBSET Addr] /\ \A t \in Thread : held'[t] \subseteq alive
  BY DEF SafeInv, TypeOK, HandlesAlive
<1> QED
  BY <1>1, <1>2, HandleStep

LEMMA MergeStepSafe ==
    ASSUME SafeInv, NEW t \in Thread, MergeStep(t)
    PROVE  SafeInv'
<1>1. TypeOK
  BY DEF SafeInv
<1>2. PICK l \in Addr, r \in Addr :
        \/ LookupMerge(t, l, r)
        \/ LookupStaleMerge(t, l, r)
        \/ \E a \in Addr : RecordMerge(t, l, r, a)
  BY DEF MergeStep
<1>3. \A m \in MergeOf(l, r) : m \in merges /\ m.addr \in Addr
  BY <1>1 DEF TypeOK, MergeOf, Merge
<1>4. CASE LookupMerge(t, l, r)
  BY <1>3, <1>4, HoldSafe DEF LookupMerge
<1>5. CASE LookupStaleMerge(t, l, r)
  <2>1. merges' \in SUBSET Merge
    BY <1>1, <1>5 DEF TypeOK, LookupStaleMerge
  <2> QED
    BY <1>5, <2>1, MergesOnlySafe DEF LookupStaleMerge
<1>6. ASSUME NEW a \in Addr, RecordMerge(t, l, r, a)
      PROVE  SafeInv'
  <2> DEFINE new == [left |-> ident[l], right |-> ident[r], id |-> ident[a], addr |-> a]
  <2>1. new \in Merge
    BY <1>1, <1>6 DEF TypeOK, RecordMerge, Canonical, Merge
  <2>2. CASE \E m \in MergeOf(l, r) : /\ Strong(m.addr)
                                     /\ held' = Hold(t, m.addr)
                                     /\ UNCHANGED merges
    BY <1>3, <1>6, <2>2, HoldSafe DEF RecordMerge
  <2>3. CASE /\ merges' \in {(merges \ MergeOf(l, r)) \cup {new},
                             {m \in merges \ MergeOf(l, r) : Strong(m.addr)} \cup {new}}
             /\ UNCHANGED held
    <3>1. merges' \in SUBSET Merge
      BY <1>1, <2>1, <2>3 DEF TypeOK
    <3> QED
      BY <1>6, <2>3, <3>1, MergesOnlySafe DEF RecordMerge
  <2> QED
    BY <1>6, <2>2, <2>3 DEF RecordMerge
<1> QED
  BY <1>2, <1>4, <1>5, <1>6

LEMMA SafeInit == Init => SafeInv
<1> SUFFICES ASSUME Init PROVE SafeInv
  OBVIOUS
<1>1. TypeOK
  BY StoreAssumption DEF Init, TypeOK
<1>2. HandlesAlive /\ Entered /\ Scanned /\ Exclusive
  BY DEF Init, HandlesAlive, Entered, Scanned, Exclusive, Busy
<1>3. OneLivePayload
  BY DEF Init, OneLivePayload, Interned, Strong
<1> QED
  BY <1>1, <1>2, <1>3 DEF SafeInv

LEMMA SafeNext == SafeInv /\ [Next]_vars => SafeInv'
<1> SUFFICES ASSUME SafeInv, [Next]_vars PROVE SafeInv'
  OBVIOUS
<1>1. TypeOK /\ Exclusive
  BY DEF SafeInv
<1>2. CASE \E a \in Addr : Destroy(a)
  BY <1>2, DestroySafe
<1>3. ASSUME NEW t \in Thread, Intern(t) PROVE SafeInv'
  <2>1. CASE \E r \in Request : Begin(t, r)
    BY <2>1, BeginSafe
  <2>2. CASE \E e \in todo[t] : ScanDead(t, e)
    BY <2>2, ScanDeadSafe
  <2>3. CASE \E e \in todo[t] : ScanOther(t, e)
    BY <2>3, ScanOtherSafe
  <2>4. CASE \E e \in todo[t] : ScanHit(t, e)
    <3>1. \A e \in todo[t] : e.addr \in Addr
      BY <1>1 DEF TypeOK, Entry
    <3> QED
      BY <2>4, <3>1, HoldSafe DEF ScanHit
  <2>5. CASE ProbeMiss(t)
    <3>1. \A b \in Addr : Strong(b)' => Strong(b)
      BY <2>5 DEF ProbeMiss, Strong, heapVars
    <3>2. /\ held' \in [Thread -> SUBSET Addr]
          /\ \A u \in Thread : held[u] \subseteq held'[u] /\ held'[u] \subseteq alive
      BY <2>5 DEF ProbeMiss, SafeInv, TypeOK, HandlesAlive
    <3> QED
      BY <2>5, <3>1, <3>2, FinishSafe DEF ProbeMiss
  <2>6. CASE \E a \in Addr : Insert(t, a)
    BY <2>6, InsertSafe
  <2> QED
    BY <1>3, <2>1, <2>2, <2>3, <2>4, <2>5, <2>6 DEF Intern
<1>4. ASSUME NEW t \in Thread, MergeStep(t) PROVE SafeInv'
  BY <1>4, MergeStepSafe
<1>5. ASSUME NEW t \in Thread, NEW a \in Addr, Drop(t, a) PROVE SafeInv'
  <2>1. \A b \in Addr : Strong(b)' => Strong(b)
    BY <1>1, <1>5 DEF TypeOK, Drop, Strong, heapVars
  <2>2. /\ held' \in [Thread -> SUBSET Addr] /\ merges' \in SUBSET Merge
        /\ \A u \in Thread : held'[u] \subseteq alive
        /\ \A u \in Thread : Busy(u) => held[u] \subseteq held'[u]
    BY <1>5 DEF SafeInv, TypeOK, HandlesAlive, Drop
  <2> QED
    BY <1>5, <2>1, <2>2, HandleStep DEF Drop
<1>6. ASSUME NEW t \in Thread, NEW u \in Thread, NEW a \in Addr, Share(t, u, a)
      PROVE  SafeInv'
  <2>1. Strong(a)
    BY <1>6 DEF Share, Strong
  <2> QED
    BY <1>6, <2>1, HoldSafe DEF Share
<1>7. ASSUME NEW t \in Thread, NEW a \in Addr, NEW r \in Request, Fallback(t, a, r)
      PROVE  SafeInv'
  BY <1>7, FallbackSafe
<1>8. CASE UNCHANGED vars
  BY <1>8, <1>1, MergesOnlySafe DEF vars, TypeOK
<1> QED
  BY <1>2, <1>3, <1>4, <1>5, <1>6, <1>7, <1>8 DEF Next

LEMMA SafeAlways == Spec => []SafeInv
BY SafeInit, SafeNext, PTL DEF Spec

\* Every reachable state of the store has the types of TypeOK.
THEOREM TypeStoreTypeCorrect == Spec => []TypeOK
<1>1. SafeInv => TypeOK
  BY DEF SafeInv
<1> QED
  BY SafeAlways, <1>1, PTL

\* However many threads intern, drop and sweep, no handle and no payload refers
\* to a destroyed payload: what upgrade answers is alive (HandlesAlive).
THEOREM HandlesStayAlive == Spec => []HandlesAlive
<1>1. SafeInv => HandlesAlive
  BY DEF SafeInv
<1> QED
  BY SafeAlways, <1>1, PTL

\* For any threads, shards and fingerprint collisions, two equal interned types
\* that are reachable are one payload (OneLivePayload): the interners never
\* duplicate a payload that a scan could have found, nor sweep one in use.
THEOREM InternedOnce == Spec => []OneLivePayload
<1>1. SafeInv => OneLivePayload
  BY DEF SafeInv
<1> QED
  BY SafeAlways, <1>1, PTL

-----------------------------------------------------------------------------
(* Ids and merges, as long as the id counter does not wrap. *)

\* A step that interns and memoizes nothing, and makes nothing reachable, keeps
\* the ids and the memo right.
LEMMA QuietIds ==
    ASSUME IdInv, SafeInv', alive' \subseteq alive, next' = next, merges' \subseteq merges,
           \A b \in alive' : shape'[b] = shape[b] /\ ident'[b] = ident[b],
           \A b \in Addr : Strong(b)' => Strong(b) /\ b \in alive'
    PROVE  IdInv'
<1>1. TypeOK /\ IdsBelow /\ IdsUnique /\ MergesRight
  BY DEF IdInv, SafeInv
<1>2. IdsBelow' /\ IdsUnique'
  BY <1>1 DEF IdsBelow, IdsUnique
<1>3. MergesRight'
  <2> SUFFICES ASSUME NEW m \in merges', NEW l \in alive', NEW r \in alive',
                      ident'[l] = m.left, ident'[r] = m.right, Strong(m.addr)'
               PROVE  shape'[m.addr] = MergeShape[shape'[l]][shape'[r]]
    BY DEF MergesRight
  <2>1. m \in merges /\ m.addr \in Addr
    BY <1>1 DEF TypeOK, Merge
  <2> QED
    BY <2>1, <1>1 DEF MergesRight
<1> QED
  BY <1>2, <1>3 DEF IdInv

\* A new payload, with an id nobody has or with none, keeps them right.
LEMMA AllocateIds ==
    ASSUME IdInv, SafeInv', NEW t \in Thread, NEW a \in Addr, NEW r \in Request,
           NEW id \in Id \cup {NoId},
           r.child \in held[t] \cup {NoAddr}, Allocate(a, r, id), held' = Hold(t, a),
           (id = NoId /\ next' = next) \/ (id = next /\ next' = next + 1),
           merges' = merges
    PROVE  IdInv'
<1>1. TypeOK /\ HandlesAlive /\ IdsBelow /\ IdsUnique /\ MergesRight
  BY DEF IdInv, SafeInv
<1>2. /\ \A b \in Addr \ {a} : Strong(b)' => Strong(b)
      /\ ~Weak(a) /\ a \notin alive
      /\ alive' = alive \cup {a}
      /\ ident'[a] = id
      /\ \A b \in Addr \ {a} : shape'[b] = shape[b] /\ ident'[b] = ident[b]
  BY <1>1, AllocateStrong
<1>3. /\ \A b \in alive : b \in Addr /\ b # a /\ (ident[b] # NoId => ident[b] \in Nat /\ ident[b] < next)
      /\ next \in Nat /\ NoId \notin Nat
  BY <1>1, <1>2, StoreAssumption DEF TypeOK, IdsBelow, Id
<1>4. \A m \in merges : /\ m.left \in Nat /\ m.right \in Nat
                        /\ m.left < next /\ m.right < next
                        /\ m.addr \in Addr /\ m.addr # a
  BY <1>1, <1>2, StoreAssumption DEF TypeOK, Merge, Id, IdsBelow, Weak
<1>5. IdsBelow'
  BY <1>2, <1>3, <1>4 DEF IdsBelow
<1>6. IdsUnique'
  BY <1>1, <1>2, <1>3 DEF IdsUnique
<1>7. MergesRight'
  <2> SUFFICES ASSUME NEW m \in merges, NEW l \in alive', NEW q \in alive',
                      ident'[l] = m.left, ident'[q] = m.right, Strong(m.addr)'
               PROVE  shape'[m.addr] = MergeShape[shape'[l]][shape'[q]]
    BY DEF MergesRight
  <2>1. l \in alive /\ q \in alive
    BY <1>2, <1>3, <1>4
  <2> QED
    BY <2>1, <1>1, <1>2, <1>3, <1>4 DEF MergesRight
<1> QED
  BY <1>5, <1>6, <1>7 DEF IdInv

\* Below IdSpace the counter is the id.
LEMMA FreshIdExact ==
    ASSUME TypeOK, MaxMisses < IdSpace, next <= MaxMisses
    PROVE  FreshId = next /\ FreshId \in Id
<1>1. next \in Nat /\ IdSpace \in Nat \ {0} /\ MaxMisses \in Nat
  BY StoreAssumption DEF TypeOK
<1>2. \A n \in Nat, s \in Nat \ {0} : n < s => n % s = n /\ n \in 0..(s - 1)
  OBVIOUS
<1> QED
  BY <1>1, <1>2 DEF FreshId, Id

LEMMA RecordMergeIds ==
    ASSUME IdInv, SafeInv', NEW t \in Thread, NEW l \in Addr, NEW r \in Addr, NEW a \in Addr,
           RecordMerge(t, l, r, a)
    PROVE  IdInv'
<1> DEFINE new == [left |-> ident[l], right |-> ident[r], id |-> ident[a], addr |-> a]
<1> USE DEF heapVars
<1>1. TypeOK /\ HandlesAlive /\ IdsBelow /\ IdsUnique /\ MergesRight
  BY DEF IdInv, SafeInv
<1>2. UNCHANGED <<alive, shape, child, ident, next>>
  BY DEF RecordMerge
<1>3. CASE \E m \in MergeOf(l, r) : /\ Strong(m.addr)
                                   /\ held' = Hold(t, m.addr)
                                   /\ UNCHANGED merges
  <2>1. \A m \in MergeOf(l, r) : m.addr \in Addr
    BY <1>1 DEF TypeOK, MergeOf, Merge
  <2>2. \A b \in Addr : Strong(b)' => Strong(b)
    BY <1>1, <1>2, <1>3, <2>1, HoldStrong
  <2> QED
    BY <1>1, <1>2, <1>3, <2>2, StrongAlive, QuietIds
<1>4. CASE /\ merges' \subseteq merges \cup {new}
           /\ UNCHANGED held
  <2>1. /\ l \in held[t] /\ r \in held[t]
        /\ ident[l] # NoId /\ ident[r] # NoId
        /\ shape[a] = MergeShape[shape[l]][shape[r]]
    BY DEF RecordMerge, Canonical
  <2>2. l \in alive /\ r \in alive
    BY <1>1, <2>1 DEF HandlesAlive
  <2>3. IdsBelow' /\ IdsUnique'
    BY <1>1, <1>2, <1>4, <2>1, <2>2 DEF IdsBelow, IdsUnique
  <2>4. MergesRight'
    BY <1>1, <1>2, <1>4, <2>1, <2>2 DEF MergesRight, IdsUnique, Strong
  <2> QED
    BY <2>3, <2>4 DEF IdInv
<1> QED
  BY <1>3, <1>4 DEF RecordMerge

LEMMA IdInvNext ==
    ASSUME MaxMisses < IdSpace
    PROVE  IdInv /\ [Next]_vars => IdInv'
<1> SUFFICES ASSUME IdInv, [Next]_vars PROVE IdInv'
  OBVIOUS
<1> USE DEF heapVars, tableVars
<1>1. SafeInv /\ SafeInv' /\ TypeOK /\ HandlesAlive /\ Exclusive
  BY SafeNext DEF IdInv, SafeInv
<1>2. ASSUME UNCHANGED <<alive, shape, child, ident, next>>, merges' \subseteq merges,
             \A b \in Addr : Strong(b)' => Strong(b)
      PROVE  IdInv'
  BY <1>1, <1>2, StrongAlive, QuietIds
<1>3. ASSUME NEW t \in Thread, NEW a \in Addr, Strong(a), held' = Hold(t, a),
             UNCHANGED <<alive, shape, child, ident, next, merges>>
      PROVE  IdInv'
  BY <1>1, <1>2, <1>3, HoldStrong
<1>4. ASSUME UNCHANGED <<alive, shape, child, ident, next, held>>, merges' \subseteq merges
      PROVE  IdInv'
  BY <1>2, <1>4 DEF Strong
<1>5. ASSUME NEW a \in Addr, Destroy(a) PROVE IdInv'
  <2>1. /\ a \in alive /\ ~Strong(a) /\ alive' = alive \ {a}
        /\ UNCHANGED <<merges, next, held>>
        /\ \A b \in Addr \ {a} : /\ shape'[b] = shape[b]
                                 /\ child'[b] = child[b]
                                 /\ ident'[b] = ident[b]
    BY <1>1, <1>5 DEF TypeOK, Destroy
  <2>2. \A b \in Addr : Strong(b)' => Strong(b) /\ b # a
    BY <1>1, <2>1 DEF TypeOK, Strong
  <2>3. \A b \in Addr : Strong(b)' => Strong(b) /\ b \in alive'
    BY <1>1, <2>1, <2>2, StrongAlive
  <2> QED
    BY <1>1, <2>1, <2>3, QuietIds DEF TypeOK
<1>6. ASSUME NEW t \in Thread, Intern(t) PROVE IdInv'
  <2>1. CASE \E q \in Request : Begin(t, q)
    BY <1>4, <2>1 DEF Begin
  <2>2. CASE \E e \in todo[t] : ScanDead(t, e) \/ ScanOther(t, e)
    BY <1>4, <2>2 DEF ScanDead, ScanOther
  <2>3. CASE \E e \in todo[t] : ScanHit(t, e)
    <3>1. \A e \in todo[t] : e.addr \in Addr
      BY <1>1 DEF TypeOK, Entry
    <3> QED
      BY <1>3, <2>3, <3>1 DEF ScanHit
  <2>4. CASE ProbeMiss(t)
    BY <1>4, <2>4 DEF ProbeMiss
  <2>5. ASSUME NEW a \in Addr, Insert(t, a) PROVE IdInv'
    <3>1. /\ Busy(t) /\ next <= MaxMisses /\ Allocate(a, req[t], FreshId)
          /\ next' = next + 1 /\ held' = Hold(t, a) /\ merges' = merges
      BY <2>5 DEF Insert
    <3>2. req[t] \in Request /\ req[t].child \in held[t] \cup {NoAddr}
      BY <1>1, <3>1, BusyTypes DEF Exclusive
    <3>3. FreshId = next /\ FreshId \in Id
      BY <1>1, <3>1, FreshIdExact
    <3>4. FreshId \in Id \cup {NoId}
      BY <3>3
    <3> QED
      BY <1>1, <3>1, <3>2, <3>3, <3>4, AllocateIds
  <2> QED
    BY <1>6, <2>1, <2>2, <2>3, <2>4, <2>5 DEF Intern
<1>7. ASSUME NEW t \in Thread, MergeStep(t) PROVE IdInv'
  <2>1. ASSUME NEW l \in Addr, NEW r \in Addr, LookupMerge(t, l, r) PROVE IdInv'
    <3>1. \A m \in MergeOf(l, r) : m.addr \in Addr
      BY <1>1 DEF TypeOK, MergeOf, Merge
    <3> QED
      BY <1>3, <2>1, <3>1 DEF LookupMerge
  <2>2. ASSUME NEW l \in Addr, NEW r \in Addr, LookupStaleMerge(t, l, r) PROVE IdInv'
    BY <1>4, <2>2 DEF LookupStaleMerge
  <2>3. ASSUME NEW l \in Addr, NEW r \in Addr, NEW a \in Addr, RecordMerge(t, l, r, a)
        PROVE  IdInv'
    BY <1>1, <2>3, RecordMergeIds
  <2> QED
    BY <1>7, <2>1, <2>2, <2>3 DEF MergeStep
<1>8. ASSUME NEW t \in Thread, NEW a \in Addr, Drop(t, a) PROVE IdInv'
  <2>1. \A b \in Addr : Strong(b)' => Strong(b)
    BY <1>1, <1>8 DEF TypeOK, Drop, Strong
  <2> QED
    BY <1>2, <1>8, <2>1 DEF Drop
<1>9. ASSUME NEW t \in Thread, NEW u \in Thread, NEW a \in Addr, Share(t, u, a)
      PROVE  IdInv'
  <2>1. Strong(a)
    BY <1>9 DEF Share, Strong
  <2> QED
    BY <1>3, <1>9, <2>1 DEF Share
<1>10. ASSUME NEW t \in Thread, NEW a \in Addr, NEW q \in Request, Fallback(t, a, q)
       PROVE  IdInv'
  <2>1. /\ q.child \in held[t] \cup {NoAddr} /\ Allocate(a, q, NoId)
        /\ next' = next /\ held' = Hold(t, a) /\ merges' = merges
    BY <1>10 DEF Fallback
  <2>2. PICK id \in Id \cup {NoId} : id = NoId /\ Allocate(a, q, id)
    BY <2>1
  <2> QED
    BY <1>1, <2>1, <2>2, AllocateIds
<1>11. CASE UNCHANGED vars
  BY <1>4, <1>11 DEF vars
<1> QED
  BY <1>5, <1>6, <1>7, <1>8, <1>9, <1>10, <1>11 DEF Next

LEMMA IdInvAlways ==
    ASSUME MaxMisses < IdSpace
    PROVE  Spec => []IdInv
<1>1. Init => IdInv
  BY SafeInit DEF Init, IdInv, IdsBelow, IdsUnique, MergesRight
<1>2. IdInv /\ [Next]_vars => IdInv'
  BY IdInvNext
<1> QED
  BY <1>1, <1>2, PTL DEF Spec

\* While the 32-bit counter has not wrapped, two reachable payloads of the
\* store never carry the same id (IdsDistinct).
THEOREM IdsNeverShared ==
    ASSUME MaxMisses < IdSpace
    PROVE  Spec => []IdsDistinct
<1>1. IdInv => IdsDistinct
  BY StrongAlive DEF IdInv, SafeInv, IdsUnique, IdsDistinct, Interned
<1>2. Spec => []IdInv
  BY IdInvAlways
<1> QED
  BY <1>1, <1>2, PTL

\* While the counter has not wrapped, a merge remembered by the ids of two
\* functions is the merge of the functions that now carry those ids, whatever
\* was dropped and interned again since it was recorded (MergeFaithful).
THEOREM MergesStayFaithful ==
    ASSUME MaxMisses < IdSpace
    PROVE  Spec => []MergeFaithful
<1>1. IdInv => MergeFaithful
  BY StrongAlive DEF IdInv, SafeInv, MergesRight, MergeFaithful, Interned, MergeOf
<1>2. Spec => []IdInv
  BY IdInvAlways
<1> QED
  BY <1>1, <1>2, PTL
=============================================================================
