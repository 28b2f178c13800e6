-------------------------- MODULE CheckProgramProofs ------------------------
(***************************************************************************)
(* Facts about the operators of CheckProgram that the proofs about file    *)
(* checks and about module analyses both use.                              *)
(***************************************************************************)
EXTENDS CheckProgram, FiniteSetTheorems, WellFoundedInduction, TLAPS

\* Appending an event adds its key to the kept keys iff the event kept it.
LEMMA KeptAppend ==
    ASSUME NEW t \in Seq(Event), NEW e \in Event
    PROVE  /\ \A i \in 1..Len(t) : Append(t, e)[i] = t[i]
           /\ Append(t, e)[Len(t) + 1] = e
           /\ KeptKeys(Append(t, e)) =
                KeptKeys(t) \cup {k \in Key : e.kept /\ KeyAt[e.loc] = k}
<1> DEFINE u == Append(t, e)
<1>1. /\ u \in Seq(Event) /\ Len(u) = Len(t) + 1
      /\ \A i \in 1..Len(t) : u[i] = t[i]
      /\ u[Len(t) + 1] = e
      /\ Len(t) \in Nat
  OBVIOUS
<1>2. DOMAIN u = 1..(Len(t) + 1) /\ DOMAIN t = 1..Len(t)
  BY <1>1
<1> HIDE DEF u
<1>3. ASSUME NEW k \in Key
      PROVE  (\E j \in DOMAIN u : Kept(u, j, k)) <=>
                (\E j \in DOMAIN t : Kept(t, j, k)) \/ (e.kept /\ KeyAt[e.loc] = k)
  <2>1. \A j \in DOMAIN t : j \in DOMAIN u /\ (Kept(u, j, k) <=> Kept(t, j, k))
    BY <1>1, <1>2 DEF Kept
  <2>2. \A j \in DOMAIN u : j \in DOMAIN t \/ j = Len(t) + 1
    BY <1>1, <1>2
  <2>3. Len(t) + 1 \in DOMAIN u /\ (Kept(u, Len(t) + 1, k) <=> e.kept /\ KeyAt[e.loc] = k)
    BY <1>1, <1>2 DEF Kept
  <2>4. QED BY <2>1, <2>2, <2>3
<1>4. KeptKeys(u) = KeptKeys(t) \cup {k \in Key : e.kept /\ KeyAt[e.loc] = k}
  BY <1>3 DEF KeptKeys
<1>5. QED BY <1>1, <1>4 DEF u

\* The part of k's bucket in a set without k is smaller than the bucket.
LEMMA BucketBelow ==
    ASSUME NEW k \in Key
    PROVE  /\ Cardinality(Bucketmates(k)) \in Nat
           /\ \A Z \in SUBSET Key : k \notin Z =>
                /\ IsFiniteSet(Bucketmates(k) \cap Z)
                /\ Cardinality(Bucketmates(k) \cap Z) \in Nat
                /\ Cardinality(Bucketmates(k) \cap Z) < Cardinality(Bucketmates(k))
<1> DEFINE B == Bucketmates(k)
<1>1. k \in B /\ B \subseteq Key
  BY DEF Bucketmates
<1>2. IsFiniteSet(B)
  BY <1>1, FS_Subset, KeyAssumption
<1>3. ASSUME NEW Z \in SUBSET Key, k \notin Z
      PROVE  /\ IsFiniteSet(B \cap Z) /\ Cardinality(B \cap Z) \in Nat
             /\ Cardinality(B \cap Z) < Cardinality(B)
  <2>1. B \cap Z \subseteq B /\ B \cap Z # B
    BY <1>1, <1>3
  <2>2. QED BY <2>1, <1>2, FS_Subset, FS_CardinalityType
<1>4. Cardinality(B) \in Nat
  BY <1>2, FS_CardinalityType
<1>5. QED BY <1>3, <1>4

\* What it means to be the contents of the caches.
LEMMA CachesElim ==
    ASSUME NEW c \in Caches
    PROVE  /\ DOMAIN c \subseteq Key
           /\ \A k \in DOMAIN c : c[k] \in Publisher
           /\ c = [k \in DOMAIN c |-> c[k]]
BY DEF Caches

\* Adding an entry to the caches gives caches.
LEMMA WithEntryType ==
    ASSUME NEW c \in Caches, NEW k \in Key, NEW p \in Publisher
    PROVE  /\ WithEntry(c, k, p) \in Caches
           /\ DOMAIN WithEntry(c, k, p) = DOMAIN c \cup {k}
           /\ WithEntry(c, k, p)[k] = p
           /\ \A j \in DOMAIN c : j # k => WithEntry(c, k, p)[j] = c[j]
<1>1. DOMAIN c \subseteq Key /\ \A j \in DOMAIN c : c[j] \in Publisher
  BY CachesElim
<1>2. WithEntry(c, k, p) \in [DOMAIN c \cup {k} -> Publisher]
  BY <1>1 DEF WithEntry
<1>3. DOMAIN c \cup {k} \in SUBSET Key
  BY <1>1
<1>4. WithEntry(c, k, p) \in Caches
  BY <1>2, <1>3 DEF Caches
<1>5. QED BY <1>4 DEF WithEntry

\* Publishers are integers and Miss is none of them.
LEMMA MissIsNoPublisher ==
    Pos \subseteq Nat /\ Publisher \subseteq Nat /\ Miss \notin Publisher
BY NAssumption, KeyAssumption DEF Pos, Publisher, BasePublisher

\* A number below a position is a position, and an earlier one.
LEMMA EarlierPos ==
    \A p \in Pos : \A q \in 1..(p - 1) : q \in Pos /\ q < p
BY NAssumption DEF Pos

\* A non-empty set of positions has a last one.
LEMMA LastExists ==
    ASSUME NEW n \in Nat, NEW D \in SUBSET (1..n), D # {}
    PROVE  \E q \in D : \A r \in D : r <= q
<1> DEFINE T == {n - q : q \in D}
           R == OpToRel(<, Nat)
<1>1. T \subseteq Nat /\ T # {}
  <2>1. \A q \in D : n - q \in Nat
    OBVIOUS
  <2>2. T # {}
    OBVIOUS
  <2>3. QED BY <2>1, <2>2
<1>2. IsWellFoundedOn(R, Nat)
  BY NatLessThanWellFounded
<1> HIDE DEF T, R
<1>3. PICK x \in T : \A y \in T : ~(<<y, x>> \in R)
  BY <1>1, <1>2, WFMin
<1>4. \A y \in T : ~(y < x)
  BY <1>1, <1>3 DEF R, OpToRel
<1>5. PICK q \in D : x = n - q
  BY DEF T
<1>6. \A r \in D : n - r \in T
  BY DEF T
<1>7. \A r \in D : r <= q
  BY <1>4, <1>5, <1>6
<1>8. QED BY <1>7
=============================================================================
