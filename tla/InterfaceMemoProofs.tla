------------------------ MODULE InterfaceMemoProofs -------------------------
(***************************************************************************)
(* What the expansions kept for reuse promise, for every set of            *)
(* declarations and any number of references: one that lacks an inherited  *)
(* member is open, what the program shares lacks none where nothing        *)
(* resolved later can overwrite its register, and no declaration stays     *)
(* marked in flight.  None of this depends on the values of the registers. *)
(* What a module's memo keeps does: of a declaration whose line is generic *)
(* and resolves nothing after its heritage it keeps complete expansions    *)
(* only, which is shown last, with an invariant of its own.                *)
(***************************************************************************)
EXTENDS InterfaceMemo, SequenceTheorems, FiniteSetTheorems, WellFoundedInduction, TLAPS

(* The registers are compared and never bounded here. *)
AnyContext == [low : Int, unk : Int, noted : SUBSET Decl]

AnyFrame == [decl : Decl, via : {"named", "peel"},
             phase : {"bases", "members", "sigs"}, todo : Seq(Decl),
             val : Value, err : BOOLEAN,
             taint : SUBSET {"emitted", "degraded", "inflight"},
             low : Int, unk : Int, heritage : Int, outer : AnyContext]

Typed ==
    /\ program \in [plain : SUBSET Decl, bases : [Decl -> Seq(Decl)],
                    members : [Decl -> Seq(Decl)], sigs : [Decl -> Seq(Decl)]]
    /\ named \in [Decl -> Answer \cup {Absent, Resolving}]
    /\ memo \in [Decl -> Answer \cup {Absent}]
    /\ shared \in [Decl -> Value \cup {Absent}]
    /\ interned \in [Decl -> Value \cup {Absent}]
    /\ want \in Ref \cup {None}
    /\ answer \in Answer \cup {None}
    /\ stack \in Seq(AnyFrame)
    /\ ctx \in AnyContext
    /\ last \in [low : Int, unk : Int, open : BOOLEAN]
    /\ requests \in Nat

-----------------------------------------------------------------------------
(* The values. *)

\* The marks are neither answers nor values.
LEMMA MarksDiffer ==
    /\ Absent \notin Answer /\ Resolving \notin Answer /\ Absent # Resolving
    /\ Absent \notin Value
<1>1. DOMAIN Absent = {"state"} /\ DOMAIN Resolving = {"state"}
  BY DEF Absent, Resolving
<1>2. \A a \in Answer : DOMAIN a = {"decl", "ty", "val", "err"}
  BY DEF Answer
<1>3. \A v \in Value : DOMAIN v = {"heirs", "cut", "open"}
  BY DEF Value
<1>4. {"state"} # {"decl", "ty", "val", "err"} /\ {"state"} # {"heirs", "cut", "open"}
  OBVIOUS
<1>5. Absent.state # Resolving.state
  BY DEF Absent, Resolving
<1>6. QED BY <1>1, <1>2, <1>3, <1>4, <1>5

LEMMA ObjectType ==
    ASSUME NEW d \in Decl, NEW v \in Value, NEW e \in BOOLEAN
    PROVE  /\ Object(d, v, e) \in Answer /\ Object(d, v, e).decl = d
           /\ Object(d, v, e).ty = "object" /\ Object(d, v, e).val = v
BY DEF Object, Answer

LEMMA MemberlessTypes ==
    ASSUME NEW d \in Decl
    PROVE  /\ Lazy(d) \in Answer /\ Lazy(d).decl = d /\ Lazy(d).ty = "lazy"
           /\ Unknown(d, TRUE) \in Answer /\ Unknown(d, TRUE).decl = d
           /\ Unknown(d, TRUE).ty = "unknown"
           /\ Unknown(d, FALSE) \in Answer /\ Unknown(d, FALSE).decl = d
           /\ Unknown(d, FALSE).ty = "unknown"
<1>1. NoMembers \in Value
  BY DEF NoMembers, Value
<1>2. QED BY <1>1 DEF Lazy, Unknown, Answer

\* A non-empty set of indices has a greatest one.
LEMMA GreatestExists ==
    ASSUME NEW n \in Nat, NEW D \in SUBSET (1..n), D # {}
    PROVE  \E i \in D : \A j \in D : i >= j
<1> DEFINE T == {n - i : i \in D}
           R == OpToRel(<, Nat)
<1>1. T \subseteq Nat /\ T # {}
  <2>1. \A i \in D : n - i \in Nat
    OBVIOUS
  <2>2. T # {}
    OBVIOUS
  <2>3. QED BY <2>1, <2>2
<1>2. IsWellFoundedOn(R, Nat)
  BY NatLessThanWellFounded
<1> HIDE DEF T, R
<1>3. PICK x \in T : \A y \in T : ~(<<y, x>> \in R)
  BY <1>1, <1>2, WFMin
<1>4. \A y \in T : ~(y < x)
  BY <1>1, <1>3 DEF R, OpToRel
<1>5. PICK i \in D : x = n - i
  BY DEF T
<1>6. \A j \in D : n - j \in T
  BY DEF T
<1>7. \A j \in D : i >= j
  BY <1>4, <1>5, <1>6
<1>8. QED BY <1>7

\* The frames of the current context begin at an index of the stack, and a
\* declaration that is open among them has an index.
LEMMA SegmentIndex ==
    ASSUME stack \in Seq(AnyFrame)
    PROVE  /\ SegmentStart \in Int
           /\ \A d : OnStack(d) => Index(d) \in Int
           /\ Depth \in Int
<1>1. Len(stack) \in Nat /\ DOMAIN stack = 1..Len(stack)
  OBVIOUS
<1>2. SegmentStart \in Int
  <2> DEFINE D == {1} \cup {i \in DOMAIN stack : stack[i].via = "peel"}
  <2>1. D \in SUBSET (1..(Len(stack) + 1)) /\ D # {} /\ Len(stack) + 1 \in Nat
    BY <1>1
  <2> HIDE DEF D
  <2>2. \E i \in D : \A j \in D : i >= j
    BY <2>1, GreatestExists
  <2>3. Max(D) \in D
    BY <2>2 DEF Max
  <2>4. QED BY <2>1, <2>3 DEF SegmentStart, D
<1>3. ASSUME NEW d, OnStack(d) PROVE Index(d) \in Int
  <2> DEFINE i == CHOOSE i \in SegmentStart..Len(stack) : stack[i].decl = d
  <2>1. i \in SegmentStart..Len(stack)
    BY <1>3 DEF OnStack
  <2>2. i \in Int
    BY <1>1, <1>2, <2>1
  <2> HIDE DEF i
  <2>3. i - SegmentStart \in Int
    BY <1>2, <2>2
  <2>4. QED BY <2>3 DEF Index, i
<1>4. QED BY <1>1, <1>2, <1>3 DEF Depth

LEMMA LeastInt == \A a, b \in Int : Least(a, b) \in Int
BY DEF Least

-----------------------------------------------------------------------------
(* The stack. *)

\* Tainting frames changes nothing else of them.
LEMMA TaintedFrames ==
    ASSUME NEW s \in Seq(AnyFrame), NEW lo, NEW t \in {"emitted", "degraded", "inflight"}
    PROVE  /\ Tainted(s, lo, t) \in Seq(AnyFrame)
           /\ Len(Tainted(s, lo, t)) = Len(s)
           /\ \A i \in 1..Len(s) :
                LET f == s[i]
                    g == Tainted(s, lo, t)[i]
                IN  /\ g.decl = f.decl /\ g.via = f.via /\ g.phase = f.phase
                    /\ g.todo = f.todo /\ g.val = f.val /\ g.err = f.err
<1> DEFINE u == Tainted(s, lo, t)
           T(f) == [f EXCEPT !.taint = @ \cup {t}]
<1>1. ASSUME NEW f \in AnyFrame
      PROVE  /\ T(f) \in AnyFrame
             /\ T(f).decl = f.decl /\ T(f).via = f.via /\ T(f).phase = f.phase
             /\ T(f).todo = f.todo /\ T(f).val = f.val /\ T(f).err = f.err
  BY DEF AnyFrame
<1>2. u = [i \in 1..Len(s) |-> IF i < lo THEN s[i] ELSE T(s[i])]
  BY DEF Tainted
<1> HIDE DEF T
<1>3. \A i \in 1..Len(s) : s[i] \in AnyFrame
  OBVIOUS
<1>4. u \in [1..Len(s) -> AnyFrame]
  BY <1>1, <1>2, <1>3
<1>5. u \in Seq(AnyFrame) /\ Len(u) = Len(s)
  BY <1>4, IsASeq
<1>6. QED BY <1>1, <1>2, <1>3, <1>5

\* Replacing the innermost frame.
LEMMA TopReplaced ==
    ASSUME stack \in Seq(AnyFrame), stack # <<>>, NEW f \in AnyFrame, SetTop(f)
    PROVE  /\ stack' \in Seq(AnyFrame)
           /\ Len(stack') = Len(stack)
           /\ Len(stack) \in 1..Len(stack)
           /\ stack'[Len(stack)] = f
           /\ \A i \in 1..Len(stack) : i # Len(stack) => stack'[i] = stack[i]
<1>1. Len(stack) \in 1..Len(stack)
  OBVIOUS
<1>2. QED BY <1>1, ExceptSeq DEF SetTop

LEMMA TopFrame ==
    ASSUME stack \in Seq(AnyFrame), stack # <<>>
    PROVE  Top \in AnyFrame /\ Len(stack) \in 1..Len(stack) /\ Top = stack[Len(stack)]
<1>1. Len(stack) \in 1..Len(stack)
  OBVIOUS
<1>2. QED BY <1>1, ElementOfSeq DEF Top

\* Removing it.
LEMMA TopRemoved ==
    ASSUME stack \in Seq(AnyFrame), stack # <<>>
    PROVE  /\ Front(stack) \in Seq(AnyFrame)
           /\ Len(Front(stack)) = Len(stack) - 1
           /\ \A i \in 1..(Len(stack) - 1) : Front(stack)[i] = stack[i]
<1>1. Len(stack) \in Nat /\ Len(stack) >= 1
  OBVIOUS
<1>2. \A i \in 1..(Len(stack) - 1) : stack[i] \in AnyFrame
  <2>1. \A i \in 1..(Len(stack) - 1) : i \in 1..Len(stack)
    BY <1>1
  <2>2. QED BY <2>1, ElementOfSeq
<1> DEFINE n == Len(stack) - 1
<1>3. n \in Int /\ 1 \in Int /\ n >= 0 /\ n - 1 + 1 = n
  BY <1>1
<1>4. /\ SubSeq(stack, 1, n) \in Seq(AnyFrame)
      /\ Len(SubSeq(stack, 1, n)) = IF 1 <= n THEN n - 1 + 1 ELSE 0
      /\ \A i \in 1..(n - 1 + 1) : SubSeq(stack, 1, n)[i] = stack[1 + i - 1]
  BY <1>2, <1>3, SubSeqProperties
<1>5. \A i \in 1..n : 1 + i - 1 = i
  BY <1>3
<1> HIDE DEF n
<1>6. /\ Len(SubSeq(stack, 1, n)) = n
      /\ \A i \in 1..n : SubSeq(stack, 1, n)[i] = stack[i]
  BY <1>3, <1>4, <1>5
<1>7. QED BY <1>4, <1>6 DEF Front, n

-----------------------------------------------------------------------------
(* Heritage. *)

\* The line of d has d and the bases of its members, and is the least such set.
LEMMA LineLeast ==
    ASSUME Typed, NEW d \in Decl
    PROVE  /\ Line(d) \subseteq Decl /\ d \in Line(d)
           /\ \A y \in Line(d) : ToSet(program.bases[y]) \subseteq Line(d)
           /\ \A S \in SUBSET Decl :
                (d \in S /\ \A y \in S : ToSet(program.bases[y]) \subseteq S) => Line(d) \subseteq S
<1>1. \A y \in Decl : ToSet(program.bases[y]) \subseteq Decl
  BY DEF Typed, ToSet
<1>2. ASSUME NEW y \in Line(d), NEW b \in ToSet(program.bases[y]) PROVE b \in Line(d)
  <2>1. y \in Decl /\ b \in Decl
    BY <1>1 DEF Line
  <2>2. QED BY <2>1 DEF Line
<1>3. QED BY <1>2 DEF Line

\* What d inherits is what its bases have.
LEMMA LineUnfolds ==
    ASSUME Typed, NEW d \in Decl
    PROVE  /\ \A b \in ToSet(program.bases[d]) : b \in Decl /\ Line(b) \subseteq Line(d)
           /\ \A H : (d \in H /\ \A b \in ToSet(program.bases[d]) : Line(b) \subseteq H)
                        => Line(d) \subseteq H
<1>1. \A b \in ToSet(program.bases[d]) : b \in Decl
  BY DEF Typed, ToSet
<1>2. ASSUME NEW b \in ToSet(program.bases[d]) PROVE Line(b) \subseteq Line(d)
  <2>1. b \in Line(d) /\ Line(d) \in SUBSET Decl
    BY LineLeast
  <2>2. QED BY <1>1, <2>1, LineLeast
<1>3. ASSUME NEW H, d \in H, \A b \in ToSet(program.bases[d]) : Line(b) \subseteq H
      PROVE  Line(d) \subseteq H
  <2> DEFINE S == {d} \cup UNION {Line(b) : b \in ToSet(program.bases[d])}
  <2>1. S \in SUBSET Decl /\ d \in S
    BY <1>1, LineLeast
  <2>2. ASSUME NEW y \in S PROVE ToSet(program.bases[y]) \subseteq S
    <3>1. CASE y = d
      BY <1>1, <3>1, LineLeast
    <3>2. CASE y # d
      <4>1. PICK b \in ToSet(program.bases[d]) : y \in Line(b)
        BY <3>2
      <4>2. ToSet(program.bases[y]) \subseteq Line(b)
        BY <1>1, <4>1, LineLeast
      <4>3. QED BY <4>2
    <3>3. QED BY <3>1, <3>2
  <2>3. Line(d) \subseteq S
    <3> HIDE DEF S
    <3>1. QED BY <2>1, <2>2, LineLeast
  <2>4. QED BY <1>3, <2>3
<1>4. QED BY <1>1, <1>2, <1>3

-----------------------------------------------------------------------------
(* The invariant. *)

\* v is an expansion of d: it has d's own members and no stranger's, and lacks
\* an inherited member only if it is open.
Sound(d, v) ==
    /\ d \in v.heirs /\ v.heirs \subseteq Line(d)
    /\ v.open \/ v.heirs = Line(d)

SoundAnswer(a) == a.ty = "object" => Sound(a.decl, a.val)

\* Everything that is kept, and the answer on its way, is sound.
KeptSound ==
    /\ \A d \in Decl : named[d] \in Answer => named[d].decl = d /\ SoundAnswer(named[d])
    /\ \A d \in Decl : memo[d] # Absent => /\ memo[d].decl = d /\ memo[d].ty = "object"
                                           /\ SoundAnswer(memo[d])
    /\ \A d \in Decl : shared[d] # Absent => Sound(d, shared[d])
    /\ \A d \in Decl : interned[d] # Absent => Sound(d, interned[d])
    /\ answer # None => SoundAnswer(answer)
    /\ want = None \/ answer = None

\* What the i-th frame is waiting for: the frame above it, or the reference
\* being resolved or answered.
Pending(i) == IF i < Len(stack) THEN {stack[i + 1].decl}
              ELSE {x.decl : x \in {want, answer} \ {None}}

\* An expansion in progress, waiting for P, has the whole line of each base
\* unless the base is still to come or has left the expansion open.
FrameOK(f, P) ==
    LET bases == ToSet(program.bases[f.decl])
    IN  /\ f.decl \in f.val.heirs /\ f.val.heirs \subseteq Line(f.decl)
        /\ f.phase = "bases" =>
             /\ ToSet(f.todo) \subseteq bases
             /\ P \subseteq bases
             /\ \A b \in bases : \/ b \in ToSet(f.todo) \/ b \in P
                                 \/ f.val.open \/ Line(b) \subseteq f.val.heirs
        /\ f.phase # "bases" => Sound(f.decl, f.val)

FrameSound(i) == FrameOK(stack[i], Pending(i))

StackSound == \A i \in 1..Len(stack) : FrameSound(i)

\* A declaration marked in flight is being expanded by name.
MarkInv ==
    \A d \in Decl : named[d] = Resolving =>
        d \in Plain /\ \E i \in 1..Len(stack) : stack[i].decl = d /\ stack[i].via = "named"

\* An expansion without signatures finishes right after its openness has been
\* published.
RegisterInv ==
    \A i \in 1..Len(stack) :
        (stack[i].phase = "sigs" /\ program.sigs[stack[i].decl] = <<>>) =>
            /\ i = Len(stack) /\ want = None /\ answer = None
            /\ stack[i].todo = <<>> /\ last.open = stack[i].val.open

IInv == Typed /\ KeptSound /\ StackSound /\ MarkInv /\ RegisterInv /\ SharedComplete

\* Two stacks that differ in taints and registers only.
SameFrames(s, t) ==
    /\ Len(s) = Len(t)
    /\ \A i \in 1..Len(t) : /\ s[i].decl = t[i].decl /\ s[i].via = t[i].via
                            /\ s[i].phase = t[i].phase /\ s[i].todo = t[i].todo
                            /\ s[i].val = t[i].val /\ s[i].err = t[i].err

\* The program never changes, so neither does what it says of soundness.
LEMMA ProgramConstant ==
    ASSUME program' = program
    PROVE  /\ \A d : Line(d)' = Line(d)
           /\ \A d, v : Sound(d, v)' <=> Sound(d, v)
           /\ \A a : SoundAnswer(a)' <=> SoundAnswer(a)
           /\ Plain' = Plain
<1>1. \A d : Line(d)' = Line(d)
  BY DEF Line
<1>2. \A d, v : Sound(d, v)' <=> Sound(d, v)
  BY <1>1 DEF Sound
<1>3. QED BY <1>1, <1>2 DEF SoundAnswer, Plain

\* A reference is not None, and neither is an answer.
LEMMA NotNone ==
    /\ \A d \in Decl, how \in {"named", "peel"} :
            /\ [decl |-> d, via |-> how] \in Ref
            /\ Wanted(d, how) => want \in Ref /\ want.decl = d
    /\ \A r \in Ref : r # None
    /\ \A a \in Answer : a # None
<1>1. \A d \in Decl, how \in {"named", "peel"} : [decl |-> d, via |-> how] \in Ref
  BY DEF Ref
<1>2. QED BY <1>1, NoneAssumption DEF Wanted

\* A frame's soundness depends on what it has, what is left of it and what it
\* waits for.
LEMMA FrameKept ==
    ASSUME program' = program, NEW i, FrameSound(i), Pending(i)' = Pending(i),
           stack'[i].decl = stack[i].decl, stack'[i].phase = stack[i].phase,
           stack'[i].todo = stack[i].todo, stack'[i].val = stack[i].val
    PROVE  FrameSound(i)'
<1>1. \A d : Line(d)' = Line(d)
  BY ProgramConstant
<1>2. \A d, v : Sound(d, v)' <=> Sound(d, v)
  BY ProgramConstant
<1>3. QED BY <1>1, <1>2 DEF FrameSound, FrameOK

LEMMA FrameReplaced ==
    ASSUME program' = program, NEW i, NEW f, NEW P, FrameOK(f, P),
           stack'[i] = f, Pending(i)' = P
    PROVE  FrameSound(i)'
<1>1. \A d : Line(d)' = Line(d)
  BY ProgramConstant
<1>2. \A d, v : Sound(d, v)' <=> Sound(d, v)
  BY ProgramConstant
<1>3. QED BY <1>1, <1>2 DEF FrameSound, FrameOK

-----------------------------------------------------------------------------
(* A reference is answered. *)

\* The reference to d is answered with the stack as it is.
Settled(d) ==
    /\ program' = program /\ memo' = memo /\ shared' = shared
    /\ want \in Ref /\ want.decl = d /\ d \in Decl
    /\ want' = None /\ answer' \in Answer /\ answer'.decl = d /\ SoundAnswer(answer')
    /\ stack' \in Seq(AnyFrame) /\ SameFrames(stack', stack)
    /\ named' \in [Decl -> Answer \cup {Absent, Resolving}]
    /\ \A x \in Decl : named'[x] = named[x] \/ (x = d /\ named'[x] = answer')
    /\ interned' \in [Decl -> Value \cup {Absent}]
    /\ \A x \in Decl : interned'[x] = interned[x] \/ Sound(x, interned'[x])
    /\ ctx' \in AnyContext
    /\ last' \in [low : Int, unk : Int, open : BOOLEAN]
    /\ requests' = requests

LEMMA SettledStep ==
    ASSUME IInv, NEW d, Settled(d)
    PROVE  IInv'
<1>1. /\ program' = program /\ memo' = memo /\ shared' = shared
      /\ want \in Ref /\ want.decl = d /\ d \in Decl
      /\ want' = None /\ answer' \in Answer /\ answer'.decl = d /\ SoundAnswer(answer')
      /\ stack' \in Seq(AnyFrame)
      /\ named' \in [Decl -> Answer \cup {Absent, Resolving}]
      /\ \A x \in Decl : named'[x] = named[x] \/ (x = d /\ named'[x] = answer')
      /\ interned' \in [Decl -> Value \cup {Absent}]
      /\ \A x \in Decl : interned'[x] = interned[x] \/ Sound(x, interned'[x])
      /\ requests' = requests
  BY DEF Settled
<1>2. SameFrames(stack', stack)
  BY DEF Settled
<1>3. Typed'
  BY DEF Settled, IInv, Typed
<1>4. want # None /\ answer = None /\ answer' # None
  BY <1>1, NotNone DEF IInv, KeptSound
<1>5. KeptSound'
  <2>1. \A x, v : Sound(x, v)' <=> Sound(x, v)
    BY <1>1, ProgramConstant
  <2>2. \A a : SoundAnswer(a)' <=> SoundAnswer(a)
    BY <1>1, ProgramConstant
  <2>3. QED BY <1>1, <2>1, <2>2 DEF IInv, KeptSound
<1>6. StackSound'
  <2> SUFFICES ASSUME NEW i \in 1..Len(stack') PROVE FrameSound(i)'
    BY DEF StackSound
  <2>1. i \in 1..Len(stack) /\ FrameSound(i) /\ Len(stack') = Len(stack)
    BY <1>2 DEF SameFrames, IInv, StackSound
  <2>2. Pending(i)' = Pending(i)
    <3>1. CASE i < Len(stack)
      <4>1. i + 1 \in 1..Len(stack)
        BY <2>1, <3>1 DEF IInv, Typed
      <4>2. stack'[i + 1].decl = stack[i + 1].decl
        BY <4>1, <1>2 DEF SameFrames
      <4>3. QED BY <2>1, <3>1, <4>2 DEF Pending
    <3>2. CASE ~(i < Len(stack))
      <4>1. {x.decl : x \in {want', answer'} \ {None}} = {x.decl : x \in {want, answer} \ {None}}
        BY <1>1, <1>4
      <4>2. QED BY <2>1, <3>2, <4>1 DEF Pending
    <3>3. QED BY <3>1, <3>2
  <2>3. QED BY <1>1, <1>2, <2>1, <2>2, FrameKept DEF SameFrames
<1>7. MarkInv'
  <2> SUFFICES ASSUME NEW x \in Decl, named'[x] = Resolving
               PROVE  /\ x \in Plain'
                      /\ \E i \in 1..Len(stack') : stack'[i].decl = x /\ stack'[i].via = "named"
    BY DEF MarkInv
  <2>1. named[x] = Resolving
    BY <1>1, MarksDiffer
  <2>2. x \in Plain /\ \E i \in 1..Len(stack) : stack[i].decl = x /\ stack[i].via = "named"
    BY <2>1 DEF IInv, MarkInv
  <2>3. QED BY <1>1, <1>2, <2>2 DEF SameFrames, Plain
<1>8. RegisterInv'
  <2> SUFFICES ASSUME NEW i \in 1..Len(stack'), stack'[i].phase = "sigs",
                      program'.sigs[stack'[i].decl] = <<>>
               PROVE  FALSE
    BY DEF RegisterInv
  <2>1. i \in 1..Len(stack) /\ stack[i].phase = "sigs" /\ program.sigs[stack[i].decl] = <<>>
    BY <1>1, <1>2 DEF SameFrames
  <2>2. QED BY <1>4, <2>1 DEF IInv, RegisterInv
<1>9. SharedComplete'
  <2>1. \A x : Line(x)' = Line(x)
    BY <1>1, ProgramConstant
  <2>2. QED BY <1>1, <2>1 DEF IInv, SharedComplete, Complete
<1>10. QED BY <1>3, <1>5, <1>6, <1>7, <1>8, <1>9 DEF IInv

LEMMA SameFramesReflexive == \A s : SameFrames(s, s)
BY DEF SameFrames

LEMMA TaintedSame ==
    ASSUME NEW s \in Seq(AnyFrame), NEW lo, NEW t \in {"emitted", "degraded", "inflight"}
    PROVE  Tainted(s, lo, t) \in Seq(AnyFrame) /\ SameFrames(Tainted(s, lo, t), s)
BY TaintedFrames DEF SameFrames

LEMMA UnsetInt == Unset \in Int
<1>1. Cardinality(Decl) \in Nat
  BY InterfaceMemoAssumption, FS_CardinalityType
<1>2. QED BY <1>1 DEF Unset

LEMMA AskedType ==
    ASSUME Typed, NEW d
    PROVE  Asked(d) \in [low : Int, unk : Int, open : BOOLEAN]
BY UnsetInt DEF Asked, Typed

\* What the caller of resolve_interface does settles the reference, when the
\* result is sound and the stack is what the reference found.
LEMMA CompletedFacts ==
    ASSUME Typed, KeptSound, NEW d \in Decl, NEW how \in {"named", "peel"}, NEW v \in Value,
           NEW e \in BOOLEAN, NEW c, NEW rest \in Seq(AnyFrame),
           Sound(d, v), Completed(d, how, v, e, c, rest)
    PROVE  /\ want' = None /\ answer' \in Answer /\ answer'.decl = d /\ SoundAnswer(answer')
           /\ answer'.ty = "object"
           /\ stack' \in Seq(AnyFrame) /\ SameFrames(stack', rest)
           /\ named' \in [Decl -> Answer \cup {Absent, Resolving}]
           /\ \A x \in Decl : named'[x] = named[x] \/ (x = d /\ named'[x] = answer')
           /\ how = "named" /\ d \in Plain => named'[d] = answer'
           /\ interned' \in [Decl -> Value \cup {Absent}]
           /\ \A x \in Decl : interned'[x] = interned[x] \/ Sound(x, interned'[x])
<1> DEFINE keeps == ~ e /\ (d \in Plain \/ how = "peel" \/ c)
           kept  == IF interned[d] # Absent THEN interned[d] ELSE v
           w     == IF keeps THEN kept ELSE v
           b     == how = "named" /\ e
           a     == Object(d, w, b)
<1>1. /\ interned' = IF keeps THEN [interned EXCEPT ![d] = kept] ELSE interned
      /\ named' = IF how = "named" /\ d \in Plain THEN [named EXCEPT ![d] = a] ELSE named
      /\ stack' = IF how = "peel" /\ e THEN Tainted(rest, 1, "degraded") ELSE rest
      /\ answer' = a /\ want' = None
  BY DEF Completed, Answered
<1>2. kept \in Value /\ Sound(d, kept)
  BY DEF Typed, KeptSound
<1>3. w \in Value /\ Sound(d, w)
  BY <1>2
<1> HIDE DEF keeps, kept, w
<1>4. a \in Answer /\ a.decl = d /\ a.ty = "object" /\ a.val = w
  <2>1. b \in BOOLEAN
    OBVIOUS
  <2> HIDE DEF b
  <2>2. QED BY <1>3, <2>1, ObjectType
<1>5. SoundAnswer(a)
  BY <1>3, <1>4 DEF SoundAnswer
<1> HIDE DEF a
<1>6. stack' \in Seq(AnyFrame) /\ SameFrames(stack', rest)
  BY <1>1, TaintedSame, SameFramesReflexive
<1>7. /\ named' \in [Decl -> Answer \cup {Absent, Resolving}]
      /\ \A x \in Decl : named'[x] = named[x] \/ (x = d /\ named'[x] = a)
      /\ how = "named" /\ d \in Plain => named'[d] = a
  BY <1>1, <1>4 DEF Typed
<1>8. /\ interned' \in [Decl -> Value \cup {Absent}]
      /\ \A x \in Decl : interned'[x] = interned[x] \/ Sound(x, interned'[x])
  BY <1>1, <1>2 DEF Typed
<1>9. QED BY <1>1, <1>4, <1>5, <1>6, <1>7, <1>8

\* Every way a reference is answered without a new expansion.
LEMMA AnsweredStep ==
    ASSUME IInv, NEW d \in Decl,
           \/ NamedHit(d) \/ NamedInFlight(d) \/ InternedHit(d)
           \/ ReenterLazily(d) \/ ReenterUnknown(d)
           \/ MemoHit(d, "named") \/ MemoHit(d, "peel") \/ PeelBlocked(d)
    PROVE  Settled(d)
<1>1. /\ Typed /\ KeptSound
      /\ named \in [Decl -> Answer \cup {Absent, Resolving}]
      /\ interned \in [Decl -> Value \cup {Absent}]
      /\ stack \in Seq(AnyFrame) /\ ctx \in AnyContext
      /\ last \in [low : Int, unk : Int, open : BOOLEAN]
  BY DEF IInv, Typed
<1>2. Wanted(d, "named") \/ Wanted(d, "peel")
  BY DEF NamedHit, NamedInFlight, InternedHit, ReenterLazily, ReenterUnknown, MemoHit,
         PeelBlocked, Unresolved, Expandable
<1>3. want \in Ref /\ want.decl = d
  BY <1>2, NotNone
<1>4. SameFrames(stack, stack)
  BY SameFramesReflexive
<1>5. Asked(d) \in [low : Int, unk : Int, open : BOOLEAN]
  BY <1>1, AskedType
<1>6. CASE NamedHit(d)
  <2>1. named[d] \in Answer /\ named[d].decl = d /\ SoundAnswer(named[d])
    BY <1>1, <1>6 DEF NamedHit, KeptSound
  <2>2. answer' = named[d] /\ want' = None
    BY <1>6 DEF NamedHit, Answered
  <2>3. QED BY <1>1, <1>3, <1>4, <1>6, <2>1, <2>2 DEF NamedHit, Settled, caches
<1>7. CASE NamedInFlight(d)
  <2>1. answer' = Unknown(d, TRUE) /\ want' = None /\ stack' = Tainted(stack, 1, "inflight")
    BY <1>7 DEF NamedInFlight, Answered
  <2>2. answer' \in Answer /\ answer'.decl = d /\ answer'.ty = "unknown"
    BY <2>1, MemberlessTypes
  <2>3. SoundAnswer(answer')
    BY <2>2 DEF SoundAnswer
  <2>4. stack' \in Seq(AnyFrame) /\ SameFrames(stack', stack)
    BY <1>1, <2>1, TaintedSame
  <2>5. QED BY <1>1, <1>3, <1>7, <2>1, <2>2, <2>3, <2>4 DEF NamedInFlight, Settled, caches
<1>8. CASE InternedHit(d)
  <2>1. interned[d] \in Value /\ Sound(d, interned[d])
    BY <1>1, <1>8 DEF InternedHit, KeptSound
  <2>2. answer' = Object(d, interned[d], FALSE) /\ want' = None
    BY <1>8 DEF InternedHit, Answered
  <2>3. /\ answer' \in Answer /\ answer'.decl = d /\ answer'.ty = "object"
        /\ answer'.val = interned[d]
    BY <2>1, <2>2 DEF Object, Answer
  <2>4. SoundAnswer(answer')
    BY <2>1, <2>3 DEF SoundAnswer
  <2>5. QED BY <1>1, <1>3, <1>4, <1>8, <2>2, <2>3, <2>4 DEF InternedHit, Settled, caches
<1>9. CASE ReenterLazily(d)
  <2>1. /\ answer' = Lazy(d) /\ want' = None /\ stack' = stack /\ OnStack(d)
        /\ named' = IF d \in Plain THEN [named EXCEPT ![d] = Lazy(d)] ELSE named
        /\ ctx' = [ctx EXCEPT !.low = Least(@, Index(d))]
        /\ last' = Asked(d)
    BY <1>9 DEF ReenterLazily, Answered
  <2>2. answer' \in Answer /\ answer'.decl = d /\ answer'.ty = "lazy"
    BY <2>1, MemberlessTypes
  <2>3. SoundAnswer(answer')
    BY <2>2 DEF SoundAnswer
  <2>4. Index(d) \in Int /\ ctx.low \in Int
    BY <1>1, <2>1, SegmentIndex DEF AnyContext
  <2>5. Least(ctx.low, Index(d)) \in Int
    BY <2>4, LeastInt
  <2>6. ctx' \in AnyContext
    BY <1>1, <2>1, <2>5 DEF AnyContext
  <2>7. /\ named' \in [Decl -> Answer \cup {Absent, Resolving}]
        /\ \A x \in Decl : named'[x] = named[x] \/ (x = d /\ named'[x] = answer')
    BY <1>1, <2>1, <2>2
  <2>8. QED BY <1>1, <1>3, <1>4, <1>5, <1>9, <2>1, <2>2, <2>3, <2>6, <2>7
            DEF ReenterLazily, Settled
<1>10. CASE ReenterUnknown(d)
  <2>1. /\ answer' = Unknown(d, FALSE) /\ want' = None /\ OnStack(d)
        /\ stack' = IF d \in ctx.noted THEN stack ELSE Tainted(stack, SegmentStart, "emitted")
        /\ ctx' = [low   |-> Least(ctx.low, Index(d)),
                   unk   |-> Least(ctx.unk, Index(d)),
                   noted |-> ctx.noted \cup {d}]
        /\ last' = Asked(d)
    BY <1>10 DEF ReenterUnknown, Answered
  <2>2. answer' \in Answer /\ answer'.decl = d /\ answer'.ty = "unknown"
    BY <2>1, MemberlessTypes
  <2>3. SoundAnswer(answer')
    BY <2>2 DEF SoundAnswer
  <2>4. stack' \in Seq(AnyFrame) /\ SameFrames(stack', stack)
    BY <1>1, <1>4, <2>1, TaintedSame
  <2>5. Index(d) \in Int /\ ctx.low \in Int /\ ctx.unk \in Int /\ ctx.noted \subseteq Decl
    BY <1>1, <2>1, SegmentIndex DEF AnyContext
  <2>6. Least(ctx.low, Index(d)) \in Int /\ Least(ctx.unk, Index(d)) \in Int
    BY <2>5, LeastInt
  <2>7. ctx' \in AnyContext
    BY <2>1, <2>5, <2>6 DEF AnyContext
  <2>8. QED BY <1>1, <1>3, <1>5, <1>10, <2>1, <2>2, <2>3, <2>4, <2>7
            DEF ReenterUnknown, Settled, caches
<1>11. ASSUME NEW how \in {"named", "peel"}, MemoHit(d, how) PROVE Settled(d)
  <2> DEFINE v == Recalled(d).val
             e == Recalled(d).err
             c == TRUE
  <2>1. Completed(d, how, v, e, c, stack) /\ Memoized(d)
    BY <1>11 DEF MemoHit
  <2>2. v \in Value /\ e \in BOOLEAN /\ Sound(d, v)
    <3>1. CASE memo[d] # Absent
      <4>1. memo[d] \in Answer /\ SoundAnswer(memo[d]) /\ memo[d].ty = "object" /\ memo[d].decl = d
        BY <1>1, <3>1 DEF Typed, KeptSound
      <4>2. QED BY <3>1, <4>1 DEF Recalled, Answer, SoundAnswer
    <3>2. CASE memo[d] = Absent
      <4>1. shared[d] \in Value /\ Sound(d, shared[d])
        BY <1>1, <2>1, <3>2 DEF Typed, KeptSound, Memoized
      <4>2. Recalled(d) = Object(d, shared[d], FALSE)
        BY <3>2 DEF Recalled
      <4>3. QED BY <4>1, <4>2 DEF Object
    <3>3. QED BY <3>1, <3>2
  <2> HIDE DEF v, e, c
  <2>3. /\ want' = None /\ answer' \in Answer /\ answer'.decl = d /\ SoundAnswer(answer')
        /\ stack' \in Seq(AnyFrame) /\ SameFrames(stack', stack)
        /\ named' \in [Decl -> Answer \cup {Absent, Resolving}]
        /\ \A x \in Decl : named'[x] = named[x] \/ (x = d /\ named'[x] = answer')
        /\ interned' \in [Decl -> Value \cup {Absent}]
        /\ \A x \in Decl : interned'[x] = interned[x] \/ Sound(x, interned'[x])
    BY <1>1, <2>1, <2>2, CompletedFacts
  <2>4. /\ last' \in [low : Int, unk : Int, open : BOOLEAN]
        /\ program' = program /\ memo' = memo /\ shared' = shared /\ ctx' = ctx
        /\ requests' = requests
    BY <1>1, <1>5, <1>11 DEF MemoHit
  <2>5. QED BY <1>1, <1>3, <2>3, <2>4 DEF Settled
<1>12. CASE PeelBlocked(d)
  <2>1. answer' = Unknown(d, FALSE) /\ want' = None /\ stack' = Tainted(stack, 1, "degraded")
    BY <1>12 DEF PeelBlocked, Answered
  <2>2. answer' \in Answer /\ answer'.decl = d /\ answer'.ty = "unknown"
    BY <2>1, MemberlessTypes
  <2>3. SoundAnswer(answer')
    BY <2>2 DEF SoundAnswer
  <2>4. stack' \in Seq(AnyFrame) /\ SameFrames(stack', stack)
    BY <1>1, <2>1, TaintedSame
  <2>5. QED BY <1>1, <1>3, <1>12, <2>1, <2>2, <2>3, <2>4 DEF PeelBlocked, Settled, caches
<1>13. QED BY <1>6, <1>7, <1>8, <1>9, <1>10, <1>11, <1>12

-----------------------------------------------------------------------------
(* The other steps. *)

\* The declarations that a reference and an answer are about.
Awaited(w, a) == {x.decl : x \in {w, a} \ {None}}

\* A step that leaves the caches alone.
LEMMA CachesKept ==
    ASSUME IInv, program' = program, UNCHANGED caches,
           answer' # None => SoundAnswer(answer'),
           want' = None \/ answer' = None
    PROVE  KeptSound' /\ SharedComplete'
<1>1. UNCHANGED <<named, memo, shared, interned>>
  BY DEF caches
<1>2. \A x, v : Sound(x, v)' <=> Sound(x, v)
  BY ProgramConstant
<1>3. \A a : SoundAnswer(a)' <=> SoundAnswer(a)
  BY ProgramConstant
<1>4. \A x : Line(x)' = Line(x)
  BY ProgramConstant
<1>5. KeptSound'
  BY <1>1, <1>2, <1>3 DEF IInv, KeptSound
<1>6. SharedComplete'
  BY <1>1, <1>4 DEF IInv, SharedComplete, Complete
<1>7. QED BY <1>5, <1>6

\* A step that changes the innermost frame only.
LEMMA TopStep ==
    ASSUME IInv, stack # <<>>, program' = program, named' = named,
           NEW f \in AnyFrame, SetTop(f), f.decl = Top.decl, f.via = Top.via,
           FrameOK(f, Awaited(want', answer')),
           (f.phase = "sigs" /\ program.sigs[f.decl] = <<>>) =>
               want' = None /\ answer' = None /\ f.todo = <<>> /\ last'.open = f.val.open
    PROVE  stack' \in Seq(AnyFrame) /\ StackSound' /\ MarkInv' /\ RegisterInv'
<1>1. stack \in Seq(AnyFrame)
  BY DEF IInv, Typed
<1>2. /\ stack' \in Seq(AnyFrame) /\ Len(stack') = Len(stack)
      /\ Len(stack) \in 1..Len(stack) /\ stack'[Len(stack)] = f
      /\ \A i \in 1..Len(stack) : i # Len(stack) => stack'[i] = stack[i]
  BY <1>1, TopReplaced
<1>3. \A i \in 1..Len(stack) : stack'[i].decl = stack[i].decl /\ stack'[i].via = stack[i].via
  BY <1>2 DEF Top
<1>4. StackSound'
  <2> SUFFICES ASSUME NEW i \in 1..Len(stack') PROVE FrameSound(i)'
    BY DEF StackSound
  <2>1. i \in 1..Len(stack) /\ FrameSound(i)
    BY <1>2 DEF IInv, StackSound
  <2>2. CASE i # Len(stack)
    <3>1. i < Len(stack) /\ i + 1 \in 1..Len(stack)
      BY <1>2, <2>1, <2>2
    <3>2. Pending(i)' = Pending(i)
      BY <1>2, <1>3, <3>1 DEF Pending
    <3>3. QED BY <1>2, <2>1, <2>2, <3>2, FrameKept
  <2>3. CASE i = Len(stack)
    <3> DEFINE P == Awaited(want', answer')
    <3>1. Pending(i)' = P
      BY <1>2, <2>3 DEF Pending, Awaited
    <3>2. FrameOK(f, P) /\ stack'[i] = f
      BY <1>2, <2>3
    <3> HIDE DEF P
    <3>3. QED BY <3>1, <3>2, FrameReplaced
  <2>4. QED BY <2>2, <2>3
<1>5. MarkInv'
  BY <1>2, <1>3 DEF IInv, MarkInv, Plain
<1>6. RegisterInv'
  <2> SUFFICES ASSUME NEW i \in 1..Len(stack'), stack'[i].phase = "sigs",
                      program'.sigs[stack'[i].decl] = <<>>
               PROVE  /\ i = Len(stack') /\ want' = None /\ answer' = None
                      /\ stack'[i].todo = <<>> /\ last'.open = stack'[i].val.open
    BY DEF RegisterInv
  <2>1. CASE i # Len(stack)
    <3>1. i \in 1..Len(stack) /\ stack'[i] = stack[i]
      BY <1>2, <2>1
    <3>2. QED BY <2>1, <3>1 DEF IInv, RegisterInv
  <2>2. CASE i = Len(stack)
    BY <1>2, <2>2
  <2>3. QED BY <2>1, <2>2
<1>7. QED BY <1>2, <1>4, <1>5, <1>6

\* What is known of the innermost frame.
LEMMA TopSound ==
    ASSUME IInv, stack # <<>>
    PROVE  /\ Top \in AnyFrame /\ FrameOK(Top, Awaited(want, answer))
           /\ (Top.phase = "sigs" /\ program.sigs[Top.decl] = <<>>) =>
                 /\ want = None /\ answer = None
                 /\ Top.todo = <<>> /\ last.open = Top.val.open
<1>1. Top \in AnyFrame /\ Len(stack) \in 1..Len(stack) /\ Top = stack[Len(stack)]
  BY TopFrame DEF IInv, Typed
<1>2. FrameSound(Len(stack))
  BY <1>1 DEF IInv, StackSound
<1>3. Pending(Len(stack)) = Awaited(want, answer)
  BY <1>1 DEF Pending, Awaited
<1>4. QED BY <1>1, <1>2, <1>3 DEF FrameSound, IInv, RegisterInv

LEMMA AwaitedCases ==
    /\ Awaited(None, None) = {}
    /\ \A x : x # None => Awaited(x, None) = {x.decl} /\ Awaited(None, x) = {x.decl}
<1>1. {None, None} \ {None} = {}
  OBVIOUS
<1>2. ASSUME NEW x, x # None
      PROVE  {x, None} \ {None} = {x} /\ {None, x} \ {None} = {x}
  BY <1>2
<1>3. QED BY <1>1, <1>2 DEF Awaited

\* A list is its head and its tail.
LEMMA HeadAndTail ==
    ASSUME NEW q \in Seq(Decl), q # <<>>
    PROVE  /\ Head(q) \in Decl /\ Tail(q) \in Seq(Decl)
           /\ ToSet(q) = {Head(q)} \cup ToSet(Tail(q))
<1>1. /\ Head(q) \in Decl /\ Tail(q) \in Seq(Decl) /\ Len(Tail(q)) = Len(q) - 1
      /\ \A i \in 1..Len(Tail(q)) : Tail(q)[i] = q[i + 1]
      /\ Len(q) \in Nat /\ Len(q) >= 1 /\ Head(q) = q[1]
  BY HeadTailProperties
<1>2. \A i \in 1..Len(q) : i = 1 \/ (i - 1 \in 1..Len(Tail(q)) /\ q[i] = Tail(q)[i - 1])
  BY <1>1
<1>3. \A i \in 1..Len(Tail(q)) : i + 1 \in 1..Len(q)
  BY <1>1
<1>4. DOMAIN q = 1..Len(q) /\ DOMAIN Tail(q) = 1..Len(Tail(q)) /\ 1 \in 1..Len(q)
  BY <1>1
<1>5. ASSUME NEW x \in ToSet(q) PROVE x \in {Head(q)} \cup ToSet(Tail(q))
  <2>1. PICK i \in 1..Len(q) : x = q[i]
    BY <1>4 DEF ToSet
  <2>2. CASE i = 1
    BY <1>1, <2>1, <2>2
  <2>3. CASE i # 1
    <3>1. i - 1 \in DOMAIN Tail(q) /\ x = Tail(q)[i - 1]
      BY <1>2, <1>4, <2>1, <2>3
    <3>2. QED BY <3>1 DEF ToSet
  <2>4. QED BY <2>2, <2>3
<1>6. {Head(q)} \cup ToSet(Tail(q)) \subseteq ToSet(q)
  BY <1>1, <1>3, <1>4 DEF ToSet
<1>7. QED BY <1>1, <1>5, <1>6

LEMMA ReferenceStep ==
    ASSUME IInv, Reference
    PROVE  IInv'
<1> DEFINE f == [Top EXCEPT !.todo = Tail(@)]
           w == [decl |-> Head(Top.todo), via |-> "named"]
<1>1. /\ want = None /\ answer = None /\ stack # <<>> /\ Top.todo # <<>>
      /\ want' = w /\ SetTop(f) /\ program' = program /\ UNCHANGED caches
      /\ answer' = answer /\ ctx' = ctx /\ last' = last /\ requests' = requests
  BY DEF Reference
<1>2. /\ Top \in AnyFrame /\ FrameOK(Top, {})
      /\ ~(Top.phase = "sigs" /\ program.sigs[Top.decl] = <<>>)
  BY <1>1, TopSound, AwaitedCases
<1>3. /\ Head(Top.todo) \in Decl /\ Tail(Top.todo) \in Seq(Decl)
      /\ ToSet(Top.todo) = {Head(Top.todo)} \cup ToSet(Tail(Top.todo))
  BY <1>1, <1>2, HeadAndTail DEF AnyFrame
<1>4. w \in Ref /\ w # None /\ w.decl = Head(Top.todo)
  BY <1>3, NotNone
<1>5. /\ f \in AnyFrame /\ f.decl = Top.decl /\ f.via = Top.via /\ f.phase = Top.phase
      /\ f.val = Top.val /\ f.todo = Tail(Top.todo)
  BY <1>2, <1>3 DEF AnyFrame
<1>6. Awaited(want', answer') = {Head(Top.todo)}
  BY <1>1, <1>4, AwaitedCases
<1> HIDE DEF f, w
<1>7. FrameOK(f, {Head(Top.todo)})
  BY <1>2, <1>3, <1>5 DEF FrameOK
<1>8. named' = named
  BY <1>1 DEF caches
<1>9. stack' \in Seq(AnyFrame) /\ StackSound' /\ MarkInv' /\ RegisterInv'
  BY <1>1, <1>2, <1>5, <1>6, <1>7, <1>8, TopStep
<1>10. KeptSound' /\ SharedComplete'
  BY <1>1, CachesKept
<1>11. Typed'
  BY <1>1, <1>4, <1>9 DEF IInv, Typed, caches
<1>12. QED BY <1>9, <1>10, <1>11 DEF IInv

\* A base's answer makes the innermost expansion have the base's line or be open.
LEMMA InheritedSound ==
    ASSUME IInv, stack # <<>>, want = None, answer # None, Top.phase = "bases",
           answer.ty # "lazy",
           NEW f, f.decl = Top.decl, f.phase = Top.phase, f.todo = Top.todo,
           f.val = Inherited(Top.val, answer)
    PROVE  f.val \in Value /\ FrameOK(f, {})
<1> DEFINE d == Top.decl
           b == answer.decl
           v == Top.val
           a == answer
<1>1. Top \in AnyFrame /\ FrameOK(Top, {b})
  BY TopSound, AwaitedCases
<1>2. a \in Answer /\ SoundAnswer(a) /\ d \in Decl /\ v \in Value
  BY <1>1 DEF IInv, Typed, KeptSound, AnyFrame
<1>3. b \in ToSet(program.bases[d])
  BY <1>1 DEF FrameOK
<1>4. b \in Decl /\ Line(b) \subseteq Line(d)
  BY <1>2, <1>3, LineUnfolds DEF IInv
<1>5. CASE a.ty = "unknown"
  <2>1. f.val = [v EXCEPT !.open = TRUE]
    BY <1>5 DEF Inherited
  <2>2. f.val \in Value /\ f.val.heirs = v.heirs /\ f.val.open
    BY <1>2, <2>1 DEF Value
  <2>3. QED BY <1>1, <2>2 DEF FrameOK
<1>6. CASE a.ty = "object"
  <2>1. f.val = [heirs |-> v.heirs \cup a.val.heirs, cut |-> v.cut \cup a.val.cut,
                 open |-> v.open \/ a.val.open \/ a.err]
    BY <1>6 DEF Inherited
  <2>2. a.val \in Value /\ a.err \in BOOLEAN
    BY <1>2 DEF Answer
  <2>3. /\ f.val \in Value /\ f.val.heirs = v.heirs \cup a.val.heirs
        /\ f.val.open <=> v.open \/ a.val.open \/ a.err
    BY <1>2, <2>1, <2>2 DEF Value
  <2>4. a.val.heirs \subseteq Line(b) /\ (a.val.open \/ a.val.heirs = Line(b))
    BY <1>2, <1>6 DEF SoundAnswer, Sound
  <2>5. f.val.heirs \subseteq Line(d) /\ d \in f.val.heirs
    BY <1>1, <1>4, <2>3, <2>4 DEF FrameOK
  <2>6. f.val.open \/ Line(b) \subseteq f.val.heirs
    BY <2>3, <2>4
  <2>7. (v.open => f.val.open) /\ v.heirs \subseteq f.val.heirs
    BY <2>3
  <2> HIDE DEF b, v, a
  <2>8. QED BY <1>1, <2>3, <2>5, <2>6, <2>7 DEF FrameOK, v, d
<1>7. QED BY <1>2, <1>5, <1>6 DEF Answer

LEMMA AbsorbBaseStep ==
    ASSUME IInv, AbsorbBase
    PROVE  IInv'
<1>1. /\ answer # None /\ stack # <<>> /\ Top.phase = "bases" /\ answer' = None
      /\ program' = program /\ UNCHANGED caches /\ ctx' = ctx /\ last' = last
      /\ requests' = requests
  BY DEF AbsorbBase
<1>2. want = None /\ answer \in Answer /\ answer.decl \in Decl /\ answer.err \in BOOLEAN
  BY <1>1 DEF IInv, KeptSound, Typed, Answer
<1>3. CASE answer.ty = "lazy"
  <2> DEFINE w == [decl |-> answer.decl, via |-> "peel"]
  <2>1. want' = w /\ stack' = stack
    BY <1>3 DEF AbsorbBase
  <2>2. w \in Ref /\ w # None /\ w.decl = answer.decl
    BY <1>2, NotNone
  <2> HIDE DEF w
  <2>3. Awaited(want', answer') = Awaited(want, answer)
    BY <1>1, <1>2, <2>1, <2>2, AwaitedCases
  <2>4. ASSUME NEW i \in 1..Len(stack) PROVE FrameSound(i)'
    <3>1. Pending(i)' = Pending(i)
      BY <2>1, <2>3 DEF Pending, Awaited
    <3>2. QED BY <1>1, <2>1, <3>1, FrameKept DEF IInv, StackSound
  <2>5. StackSound'
    BY <2>1, <2>4 DEF StackSound
  <2>6. MarkInv'
    BY <1>1, <2>1 DEF IInv, MarkInv, Plain, caches
  <2>7. RegisterInv'
    BY <1>1, <2>1 DEF IInv, RegisterInv
  <2>8. KeptSound' /\ SharedComplete'
    BY <1>1, CachesKept
  <2>9. Typed'
    BY <1>1, <2>1, <2>2 DEF IInv, Typed, caches
  <2>10. QED BY <2>5, <2>6, <2>7, <2>8, <2>9 DEF IInv
<1>4. CASE answer.ty # "lazy"
  <2> DEFINE f == [Top EXCEPT !.val = Inherited(@, answer), !.err = @ \/ answer.err]
  <2>1. want' = None /\ SetTop(f)
    BY <1>4 DEF AbsorbBase
  <2>2. Top \in AnyFrame
    BY <1>1, TopSound
  <2>3. /\ f.decl = Top.decl /\ f.via = Top.via /\ f.phase = Top.phase
        /\ f.todo = Top.todo /\ f.val = Inherited(Top.val, answer)
        /\ f.val \in Value => f \in AnyFrame
    BY <1>2, <2>2 DEF AnyFrame
  <2> HIDE DEF f
  <2>4. f.val \in Value /\ FrameOK(f, {})
    BY <1>1, <1>2, <1>4, <2>3, InheritedSound
  <2>5. Awaited(want', answer') = {} /\ named' = named
    BY <1>1, <2>1, AwaitedCases DEF caches
  <2>6. stack' \in Seq(AnyFrame) /\ StackSound' /\ MarkInv' /\ RegisterInv'
    BY <1>1, <2>1, <2>3, <2>4, <2>5, TopStep
  <2>7. KeptSound' /\ SharedComplete'
    BY <1>1, CachesKept
  <2>8. Typed'
    BY <1>1, <2>1, <2>6 DEF IInv, Typed, caches
  <2>9. QED BY <2>6, <2>7, <2>8 DEF IInv
<1>5. QED BY <1>3, <1>4

LEMMA AbsorbMemberStep ==
    ASSUME IInv, AbsorbMember
    PROVE  IInv'
<1> DEFINE cut == IF answer.ty = "unknown" THEN {<<Top.decl, answer.decl>>} ELSE {}
           v == [Top.val EXCEPT !.cut = @ \cup cut]
           f == [Top EXCEPT !.val = v, !.err = @ \/ answer.err]
<1>1. /\ answer # None /\ stack # <<>> /\ Top.phase # "bases" /\ answer' = None
      /\ program' = program /\ UNCHANGED caches /\ ctx' = ctx /\ last' = last
      /\ requests' = requests /\ want' = want /\ SetTop(f)
  BY DEF AbsorbMember
<1>2. want = None /\ answer \in Answer /\ answer.decl \in Decl /\ answer.err \in BOOLEAN
  BY <1>1 DEF IInv, KeptSound, Typed, Answer
<1>3. /\ Top \in AnyFrame /\ FrameOK(Top, Awaited(want, answer))
      /\ ~(Top.phase = "sigs" /\ program.sigs[Top.decl] = <<>>)
      /\ Top.val \in Value /\ Top.decl \in Decl
  BY <1>1, TopSound DEF AnyFrame
<1>4. cut \subseteq Decl \X Decl
  BY <1>2, <1>3
<1> HIDE DEF cut
<1>5. v \in Value /\ v.heirs = Top.val.heirs /\ v.open = Top.val.open
  BY <1>3, <1>4 DEF Value
<1> HIDE DEF v
<1>6. /\ f \in AnyFrame /\ f.decl = Top.decl /\ f.via = Top.via /\ f.phase = Top.phase
      /\ f.todo = Top.todo /\ f.val = v
  BY <1>2, <1>3, <1>5 DEF AnyFrame
<1> HIDE DEF f
<1>7. FrameOK(f, {})
  BY <1>1, <1>3, <1>5, <1>6 DEF FrameOK, Sound
<1>8. Awaited(want', answer') = {} /\ named' = named
  BY <1>1, <1>2, AwaitedCases DEF caches
<1>9. stack' \in Seq(AnyFrame) /\ StackSound' /\ MarkInv' /\ RegisterInv'
  BY <1>1, <1>3, <1>6, <1>7, <1>8, TopStep
<1>10. KeptSound' /\ SharedComplete'
  BY <1>1, CachesKept
<1>11. Typed'
  BY <1>1, <1>9 DEF IInv, Typed, caches
<1>12. QED BY <1>9, <1>10, <1>11 DEF IInv

LEMMA EndBasesStep ==
    ASSUME IInv, EndBases
    PROVE  IInv'
<1> DEFINE f == [Top EXCEPT !.phase = "members", !.todo = program.members[Top.decl],
                            !.heritage = ctx.unk]
           d == Top.decl
<1>1. /\ want = None /\ answer = None /\ stack # <<>> /\ Top.phase = "bases"
      /\ Top.todo = <<>> /\ SetTop(f) /\ program' = program /\ UNCHANGED caches
      /\ want' = want /\ answer' = answer /\ requests' = requests
      /\ last' = [last EXCEPT !.low = ctx.low]
      /\ ctx' = [ctx EXCEPT !.unk = Least(Top.unk, @)]
  BY DEF EndBases, PhaseOver
<1>2. Top \in AnyFrame /\ FrameOK(Top, {}) /\ d \in Decl /\ Top.unk \in Int /\ Top.val \in Value
  BY <1>1, TopSound, AwaitedCases DEF AnyFrame
<1>3. /\ program.members[d] \in Seq(Decl) /\ ctx \in AnyContext
      /\ ctx.unk \in Int /\ ctx.low \in Int /\ last \in [low : Int, unk : Int, open : BOOLEAN]
  BY <1>2 DEF IInv, Typed, AnyContext
<1>4. /\ f \in AnyFrame /\ f.decl = d /\ f.via = Top.via /\ f.phase = "members"
      /\ f.val = Top.val
  BY <1>2, <1>3 DEF AnyFrame
<1> HIDE DEF f
<1>5. Sound(d, Top.val)
  <2>1. /\ d \in Top.val.heirs /\ Top.val.heirs \subseteq Line(d)
        /\ \A b \in ToSet(program.bases[d]) : Top.val.open \/ Line(b) \subseteq Top.val.heirs
    <3>1. ToSet(Top.todo) = {}
      BY <1>1 DEF ToSet
    <3>2. QED BY <1>1, <1>2, <3>1 DEF FrameOK
  <2>2. Top.val.open \/ Line(d) \subseteq Top.val.heirs
    BY <1>2, <2>1, LineUnfolds DEF IInv
  <2>3. QED BY <2>1, <2>2 DEF Sound
<1>6. FrameOK(f, {})
  BY <1>4, <1>5 DEF FrameOK, Sound
<1>7. Awaited(want', answer') = {} /\ named' = named
  BY <1>1, AwaitedCases DEF caches
<1>8. stack' \in Seq(AnyFrame) /\ StackSound' /\ MarkInv' /\ RegisterInv'
  BY <1>1, <1>4, <1>6, <1>7, TopStep
<1>9. KeptSound' /\ SharedComplete'
  BY <1>1, CachesKept
<1>10. Least(Top.unk, ctx.unk) \in Int
  BY <1>2, <1>3, LeastInt
<1>11. ctx' \in AnyContext /\ last' \in [low : Int, unk : Int, open : BOOLEAN]
  BY <1>1, <1>3, <1>10 DEF AnyContext
<1>12. Typed'
  BY <1>1, <1>8, <1>11 DEF IInv, Typed, caches
<1>13. QED BY <1>8, <1>9, <1>12 DEF IInv

LEMMA EndMembersStep ==
    ASSUME IInv, EndMembers
    PROVE  IInv'
<1> DEFINE f == [Top EXCEPT !.phase = "sigs", !.todo = program.sigs[Top.decl]]
           d == Top.decl
<1>1. /\ want = None /\ answer = None /\ stack # <<>> /\ Top.phase = "members"
      /\ SetTop(f) /\ program' = program /\ UNCHANGED caches
      /\ want' = want /\ answer' = answer /\ requests' = requests /\ ctx' = ctx
      /\ last' = [last EXCEPT !.open = Top.val.open, !.unk = Top.heritage]
  BY DEF EndMembers, PhaseOver
<1>2. /\ Top \in AnyFrame /\ FrameOK(Top, {}) /\ d \in Decl /\ Top.heritage \in Int
      /\ Top.val.open \in BOOLEAN
  BY <1>1, TopSound, AwaitedCases DEF AnyFrame, Value
<1>3. program.sigs[d] \in Seq(Decl) /\ last \in [low : Int, unk : Int, open : BOOLEAN]
  BY <1>2 DEF IInv, Typed
<1>4. /\ f \in AnyFrame /\ f.decl = d /\ f.via = Top.via /\ f.phase = "sigs"
      /\ f.val = Top.val /\ f.todo = program.sigs[d]
  BY <1>2, <1>3 DEF AnyFrame
<1> HIDE DEF f
<1>5. FrameOK(f, {})
  BY <1>1, <1>2, <1>4 DEF FrameOK
<1>6. Awaited(want', answer') = {} /\ named' = named
  BY <1>1, AwaitedCases DEF caches
<1>7. /\ last' \in [low : Int, unk : Int, open : BOOLEAN]
      /\ last'.open = Top.val.open
  BY <1>1, <1>2, <1>3
<1>8. stack' \in Seq(AnyFrame) /\ StackSound' /\ MarkInv' /\ RegisterInv'
  BY <1>1, <1>4, <1>5, <1>6, <1>7, TopStep
<1>9. KeptSound' /\ SharedComplete'
  BY <1>1, CachesKept
<1>10. Typed'
  BY <1>1, <1>7, <1>8 DEF IInv, Typed, caches
<1>11. QED BY <1>8, <1>9, <1>10 DEF IInv

\* The reference gets a frame of its own.
LEMMA ExpandStep ==
    ASSUME IInv, NEW d \in Decl, NEW how \in {"named", "peel"}, Expand(d, how)
    PROVE  IInv'
<1> DEFINE v == [NoMembers EXCEPT !.heirs = {d}]
           f == [decl |-> d, via |-> how, phase |-> "bases", todo |-> program.bases[d],
                 val |-> v, err |-> FALSE, taint |-> {},
                 low |-> ctx.low, unk |-> ctx.unk, heritage |-> Unset, outer |-> ctx]
           n == Len(stack)
<1>1. /\ want' = None /\ answer' = answer /\ stack' = Append(stack, f)
      /\ program' = program /\ memo' = memo /\ shared' = shared /\ interned' = interned
      /\ requests' = requests
      /\ ctx' = IF how = "peel" THEN FreshContext
                ELSE [ctx EXCEPT !.low = Unset, !.unk = Unset]
      /\ named' = IF how = "named" /\ d \in Plain
                  THEN [named EXCEPT ![d] = Resolving] ELSE named
      /\ last' = IF how = "named" THEN Asked(d) ELSE last
  BY DEF Expand
<1>2. Wanted(d, "named") \/ Wanted(d, "peel")
  BY DEF Expand, Expandable, Unresolved
<1>3. want \in Ref /\ want.decl = d /\ want # None
  BY <1>2, NotNone
<1>4. answer = None /\ stack \in Seq(AnyFrame) /\ ctx \in AnyContext
      /\ program.bases[d] \in Seq(Decl)
      /\ named \in [Decl -> Answer \cup {Absent, Resolving}]
  BY <1>3 DEF IInv, KeptSound, Typed
<1>5. v \in Value /\ v.heirs = {d}
  BY DEF NoMembers, Value
<1> HIDE DEF v
<1>6. /\ f \in AnyFrame /\ f.decl = d /\ f.via = how /\ f.phase = "bases"
      /\ f.todo = program.bases[d] /\ f.val = v
  <2>1. ctx.low \in Int /\ ctx.unk \in Int /\ Unset \in Int
    BY <1>4, UnsetInt DEF AnyContext
  <2>2. QED BY <1>4, <1>5, <2>1 DEF AnyFrame
<1> HIDE DEF f
<1>7. /\ stack' \in Seq(AnyFrame) /\ Len(stack') = n + 1 /\ n \in Nat
      /\ \A i \in 1..n : stack'[i] = stack[i]
      /\ stack'[n + 1] = f
  BY <1>1, <1>4, <1>6, AppendProperties
<1>8. StackSound'
  <2> SUFFICES ASSUME NEW i \in 1..Len(stack') PROVE FrameSound(i)'
    BY DEF StackSound
  <2>1. CASE i = n + 1
    <3>1. FrameOK(f, {})
      BY <1>5, <1>6, LineLeast DEF FrameOK, IInv
    <3>2. Pending(i)' = {}
      <4>1. ~(i < Len(stack'))
        BY <1>7, <2>1
      <4>2. {want', answer'} \ {None} = {}
        BY <1>1, <1>4
      <4>3. QED BY <4>1, <4>2 DEF Pending
    <3>3. QED BY <1>1, <1>7, <2>1, <3>1, <3>2, FrameReplaced
  <2>2. CASE i # n + 1
    <3>1. i \in 1..n /\ FrameSound(i) /\ i < Len(stack')
      <4>1. i \in 1..n /\ i < Len(stack')
        BY <1>7, <2>2
      <4>2. QED BY <4>1 DEF IInv, StackSound
    <3>2. Pending(i)' = Pending(i)
      <4>1. CASE i = n
        <5>1. Pending(i)' = {d}
          BY <1>6, <1>7, <3>1, <4>1 DEF Pending
        <5>2. {want, answer} \ {None} = {want} /\ ~(i < n)
          BY <1>3, <1>4, <1>7, <4>1
        <5>3. Pending(i) = {d}
          BY <1>3, <5>2 DEF Pending
        <5>4. QED BY <5>1, <5>3
      <4>2. CASE i # n
        <5>1. i < n /\ i + 1 \in 1..n
          BY <1>7, <3>1, <4>2
        <5>2. QED BY <1>7, <3>1, <5>1 DEF Pending
      <4>3. QED BY <4>1, <4>2
    <3>3. QED BY <1>1, <1>7, <3>1, <3>2, FrameKept
  <2>3. QED BY <2>1, <2>2
<1>9. MarkInv'
  <2> SUFFICES ASSUME NEW x \in Decl, named'[x] = Resolving
               PROVE  /\ x \in Plain'
                      /\ \E i \in 1..Len(stack') : stack'[i].decl = x /\ stack'[i].via = "named"
    BY DEF MarkInv
  <2>1. CASE named[x] = Resolving
    <3>1. x \in Plain /\ \E i \in 1..n : stack[i].decl = x /\ stack[i].via = "named"
      BY <2>1 DEF IInv, MarkInv
    <3>2. \A i \in 1..n : i \in 1..Len(stack')
      BY <1>7
    <3>3. QED BY <1>1, <1>7, <3>1, <3>2 DEF Plain
  <2>2. CASE named[x] # Resolving
    <3>1. x = d /\ how = "named" /\ d \in Plain
      BY <1>1, <1>4, <2>2
    <3>2. n + 1 \in 1..Len(stack')
      BY <1>7
    <3>3. QED BY <1>1, <1>6, <1>7, <3>1, <3>2 DEF Plain
  <2>3. QED BY <2>1, <2>2
<1>10. RegisterInv'
  <2> SUFFICES ASSUME NEW i \in 1..Len(stack'), stack'[i].phase = "sigs",
                      program'.sigs[stack'[i].decl] = <<>>
               PROVE  FALSE
    BY DEF RegisterInv
  <2>1. i \in 1..n
    BY <1>6, <1>7
  <2>2. QED BY <1>1, <1>3, <1>7, <2>1 DEF IInv, RegisterInv
<1>11. KeptSound'
  <2>1. \A x, u : Sound(x, u)' <=> Sound(x, u)
    BY <1>1, ProgramConstant
  <2>2. \A a : SoundAnswer(a)' <=> SoundAnswer(a)
    BY <1>1, ProgramConstant
  <2>3. \A x \in Decl : named'[x] = named[x] \/ named'[x] \notin Answer
    BY <1>1, <1>4, MarksDiffer
  <2>4. QED BY <1>1, <1>4, <2>1, <2>2, <2>3 DEF IInv, KeptSound
<1>12. SharedComplete'
  <2>1. \A x : Line(x)' = Line(x)
    BY <1>1, ProgramConstant
  <2>2. QED BY <1>1, <2>1 DEF IInv, SharedComplete, Complete
<1>13. Typed'
  <2>1. named' \in [Decl -> Answer \cup {Absent, Resolving}]
    BY <1>1, <1>4
  <2>2. ctx' \in AnyContext
    BY <1>1, <1>4, UnsetInt DEF FreshContext, AnyContext
  <2>3. last' \in [low : Int, unk : Int, open : BOOLEAN]
    BY <1>1, AskedType DEF IInv, Typed
  <2>4. QED BY <1>1, <1>4, <1>7, <2>1, <2>2, <2>3 DEF IInv, Typed
<1>14. QED BY <1>8, <1>9, <1>10, <1>11, <1>12, <1>13 DEF IInv

\* The innermost expansion is complete: what it is kept as is sound, and the
\* frame below it waits for the answer instead.
LEMMA FinishStep ==
    ASSUME IInv, Finish
    PROVE  IInv'
<1> DEFINE f == Top
           d == f.decl
           v == f.val
           e == f.err
           c == Cacheable(f)
           n == Len(stack)
<1>1. /\ want = None /\ answer = None /\ stack # <<>> /\ f.phase = "sigs" /\ f.todo = <<>>
      /\ memo' = IF Storable(f) THEN [memo EXCEPT ![d] = Object(d, v, e)] ELSE memo
      /\ shared' = IF Shareable(f) THEN [shared EXCEPT ![d] = v] ELSE shared
      /\ ctx' = IF f.via = "peel" THEN f.outer ELSE [ctx EXCEPT !.low = Least(f.low, @)]
      /\ Completed(d, f.via, v, e, c, Front(stack))
      /\ program' = program /\ last' = last /\ requests' = requests
  BY DEF Finish, PhaseOver
<1>2. /\ f \in AnyFrame /\ n \in 1..n /\ f = stack[n] /\ n \in Nat /\ stack \in Seq(AnyFrame)
  BY <1>1, TopFrame DEF IInv, Typed
<1>3. /\ d \in Decl /\ v \in Value /\ e \in BOOLEAN /\ f.via \in {"named", "peel"}
      /\ f.low \in Int /\ f.outer \in AnyContext
  BY <1>2 DEF AnyFrame
<1>4. /\ Sound(d, v)
      /\ program.sigs[d] = <<>> => last.open = v.open
  <2>1. /\ FrameOK(f, Awaited(want, answer))
        /\ program.sigs[d] = <<>> => last.open = v.open
    BY <1>1, TopSound
  <2>2. QED BY <1>1, <2>1 DEF FrameOK
<1>5. /\ Front(stack) \in Seq(AnyFrame) /\ Len(Front(stack)) = n - 1
      /\ \A i \in 1..(n - 1) : Front(stack)[i] = stack[i]
  BY <1>1, <1>2, TopRemoved
<1>6. Shareable(f) => ~ last.open
  BY DEF Shareable
<1> DEFINE how == f.via
           rest == Front(stack)
<1>7. /\ Typed /\ KeptSound /\ how \in {"named", "peel"} /\ rest \in Seq(AnyFrame)
      /\ Completed(d, how, v, e, c, rest)
  BY <1>1, <1>3, <1>5 DEF IInv
<1> HIDE DEF c, rest, d, v, e, f, how
<1>8. /\ want' = None /\ answer' \in Answer /\ answer'.decl = d /\ SoundAnswer(answer')
      /\ stack' \in Seq(AnyFrame) /\ SameFrames(stack', rest)
      /\ named' \in [Decl -> Answer \cup {Absent, Resolving}]
      /\ \A x \in Decl : named'[x] = named[x] \/ (x = d /\ named'[x] = answer')
      /\ how = "named" /\ d \in Plain => named'[d] = answer'
      /\ interned' \in [Decl -> Value \cup {Absent}]
      /\ \A x \in Decl : interned'[x] = interned[x] \/ Sound(x, interned'[x])
  BY <1>3, <1>4, <1>7, CompletedFacts
<1>9. /\ Len(stack') = n - 1
      /\ \A i \in 1..(n - 1) :
            /\ i \in 1..n /\ i # n
            /\ stack'[i].decl = stack[i].decl /\ stack'[i].via = stack[i].via
            /\ stack'[i].phase = stack[i].phase /\ stack'[i].todo = stack[i].todo
            /\ stack'[i].val = stack[i].val
  BY <1>2, <1>5, <1>8 DEF SameFrames, rest
<1>10. answer' # None
  BY <1>8, NotNone
<1>11. StackSound'
  <2> SUFFICES ASSUME NEW i \in 1..Len(stack') PROVE FrameSound(i)'
    BY DEF StackSound
  <2>1. i \in 1..(n - 1) /\ i \in 1..n /\ i < n
    BY <1>2, <1>9
  <2>2. Pending(i)' = Pending(i)
    <3>1. CASE i = n - 1
      <4>1. Pending(i) = {d}
        <5>1. i + 1 = n
          BY <1>2, <3>1
        <5>2. QED BY <1>2, <2>1, <5>1 DEF Pending, d
      <4>2. {want', answer'} \ {None} = {answer'} /\ ~(i < Len(stack'))
        BY <1>2, <1>8, <1>9, <1>10, <3>1
      <4>3. Pending(i)' = {d}
        BY <1>8, <4>2 DEF Pending
      <4>4. QED BY <4>1, <4>3
    <3>2. CASE i # n - 1
      <4>1. i + 1 \in 1..(n - 1) /\ i < Len(stack')
        BY <1>2, <1>9, <2>1, <3>2
      <4>2. QED BY <1>9, <2>1, <4>1 DEF Pending
    <3>3. QED BY <3>1, <3>2
  <2>3. FrameSound(i)
    BY <2>1 DEF IInv, StackSound
  <2>4. QED BY <1>1, <1>9, <2>1, <2>2, <2>3, FrameKept
<1>12. MarkInv'
  <2> SUFFICES ASSUME NEW x \in Decl, named'[x] = Resolving
               PROVE  /\ x \in Plain'
                      /\ \E i \in 1..Len(stack') : stack'[i].decl = x /\ stack'[i].via = "named"
    BY DEF MarkInv
  <2>1. answer' # Resolving
    BY <1>8, MarksDiffer
  <2>2. named[x] = Resolving
    BY <1>8, <2>1
  <2>3. x \in Plain
    BY <2>2 DEF IInv, MarkInv
  <2>4. PICK i \in 1..n : stack[i].decl = x /\ stack[i].via = "named"
    BY <2>2 DEF IInv, MarkInv
  <2>5. i # n
    <3>1. ASSUME i = n PROVE FALSE
      <4>1. d = x /\ how = "named"
        BY <1>2, <2>4, <3>1 DEF d, how
      <4>2. QED BY <1>8, <2>1, <2>3, <4>1
    <3>2. QED BY <3>1
  <2>6. i \in 1..(n - 1)
    BY <1>2, <2>5
  <2>7. QED BY <1>1, <1>9, <2>3, <2>4, <2>6 DEF Plain
<1>13. RegisterInv'
  <2> SUFFICES ASSUME NEW i \in 1..Len(stack'), stack'[i].phase = "sigs",
                      program'.sigs[stack'[i].decl] = <<>>
               PROVE  FALSE
    BY DEF RegisterInv
  <2>1. i \in 1..(n - 1) /\ i \in 1..n /\ i # n
    BY <1>9
  <2>2. stack[i].phase = "sigs" /\ program.sigs[stack[i].decl] = <<>>
    BY <1>1, <1>9, <2>1
  <2>3. QED BY <2>1, <2>2 DEF IInv, RegisterInv
<1>14. memo' \in [Decl -> Answer \cup {Absent}]
       /\ \A x \in Decl : memo'[x] = memo[x] \/ (x = d /\ memo'[x] = Object(d, v, e))
  <2>1. Object(d, v, e) \in Answer /\ memo \in [Decl -> Answer \cup {Absent}]
    BY <1>3, <1>7, ObjectType DEF Typed
  <2>2. QED BY <1>1, <1>3, <2>1
<1>15. shared' \in [Decl -> Value \cup {Absent}]
       /\ \A x \in Decl : shared'[x] = shared[x] \/ (x = d /\ shared'[x] = v /\ ~ last.open)
  BY <1>1, <1>3, <1>6, <1>7 DEF Typed
<1>16. KeptSound'
  <2>1. \A x, u : Sound(x, u)' <=> Sound(x, u)
    BY <1>1, ProgramConstant
  <2>2. \A a : SoundAnswer(a)' <=> SoundAnswer(a)
    BY <1>1, ProgramConstant
  <2>3. /\ Object(d, v, e).decl = d /\ Object(d, v, e).ty = "object"
        /\ SoundAnswer(Object(d, v, e))
    BY <1>3, <1>4, ObjectType DEF SoundAnswer
  <2>4. QED BY <1>4, <1>7, <1>8, <1>14, <1>15, <2>1, <2>2, <2>3 DEF KeptSound
<1>17. SharedComplete'
  <2> SUFFICES ASSUME NEW x \in Decl, shared'[x] # Absent,
                      program'.bases[x] = <<>> \/ program'.sigs[x] = <<>>
               PROVE  shared'[x].heirs = Line(x)'
    BY DEF SharedComplete, Complete
  <2>1. Line(x)' = Line(x)
    BY <1>1, ProgramConstant
  <2>2. CASE shared'[x] = shared[x]
    BY <1>1, <2>1, <2>2 DEF IInv, SharedComplete, Complete
  <2>3. CASE x = d /\ shared'[x] = v /\ ~ last.open
    <3>1. CASE program.sigs[d] = <<>>
      BY <1>4, <2>1, <2>3, <3>1 DEF Sound
    <3>2. CASE program.bases[d] = <<>>
      <4>1. ToSet(program.bases[d]) = {}
        BY <3>2 DEF ToSet
      <4>2. Line(d) \subseteq v.heirs
        BY <1>3, <1>4, <1>7, <4>1, LineUnfolds DEF Sound
      <4>3. QED BY <1>4, <2>1, <2>3, <4>2 DEF Sound
    <3>3. QED BY <1>1, <2>3, <3>1, <3>2
  <2>4. QED BY <1>15, <2>2, <2>3
<1>18. ctx' \in AnyContext
  <2>1. ctx \in AnyContext /\ ctx.low \in Int
    BY <1>7 DEF Typed, AnyContext
  <2>2. Least(f.low, ctx.low) \in Int
    BY <1>3, <2>1, LeastInt
  <2>3. QED BY <1>1, <1>3, <2>1, <2>2 DEF AnyContext
<1>19. Typed'
  BY <1>1, <1>7, <1>8, <1>14, <1>15, <1>18 DEF Typed
<1>20. QED BY <1>11, <1>12, <1>13, <1>16, <1>17, <1>19 DEF IInv

-----------------------------------------------------------------------------
(* Between references, and the whole. *)

\* With nothing open there is no frame to be sound and nothing in flight.
LEMMA NothingOpen ==
    ASSUME IInv, stack = <<>>
    PROVE  Len(stack) = 0 /\ \A d \in Decl : named[d] # Resolving
BY DEF IInv, MarkInv

LEMMA EmptyStack ==
    ASSUME stack' = <<>>, \A d \in Decl : named'[d] # Resolving
    PROVE  StackSound' /\ MarkInv' /\ RegisterInv'
<1>1. 1..Len(stack') = {}
  OBVIOUS
<1>2. QED BY <1>1 DEF StackSound, MarkInv, RegisterInv

LEMMA ReplyStep ==
    ASSUME IInv, Reply
    PROVE  IInv'
<1>1. /\ stack = <<>> /\ stack' = <<>> /\ answer' = None /\ want' = want
      /\ program' = program /\ UNCHANGED caches
      /\ ctx' = ctx /\ last' = last /\ requests' = requests
  BY DEF Reply
<1>2. StackSound' /\ MarkInv' /\ RegisterInv'
  BY <1>1, NothingOpen, EmptyStack DEF caches
<1>3. KeptSound' /\ SharedComplete'
  BY <1>1, CachesKept
<1>4. Typed'
  BY <1>1 DEF IInv, Typed, caches
<1>5. QED BY <1>2, <1>3, <1>4 DEF IInv

LEMMA RequestStep ==
    ASSUME IInv, NEW d \in Decl, Request(d)
    PROVE  IInv'
<1>1. /\ stack = <<>> /\ stack' = <<>> /\ answer = None /\ answer' = None
      /\ want' = [decl |-> d, via |-> "named"]
      /\ program' = program /\ UNCHANGED caches
      /\ ctx' = ctx /\ last' = last /\ requests' = requests + 1
  BY DEF Request, Idle
<1>2. StackSound' /\ MarkInv' /\ RegisterInv'
  BY <1>1, NothingOpen, EmptyStack DEF caches
<1>3. KeptSound' /\ SharedComplete'
  BY <1>1, CachesKept
<1>4. want' \in Ref
  BY <1>1, NotNone
<1>5. Typed'
  BY <1>1, <1>4 DEF IInv, Typed, caches
<1>6. QED BY <1>2, <1>3, <1>5 DEF IInv

LEMMA ChangeModuleStep ==
    ASSUME IInv, ChangeModule
    PROVE  IInv'
<1>1. /\ stack = <<>> /\ stack' = <<>> /\ program' = program
      /\ answer' = answer /\ want' = want /\ shared' = shared /\ interned' = interned
      /\ ctx' = ctx /\ last' = last /\ requests' = requests
      /\ named' = [d \in Decl |-> Absent] /\ memo' = [d \in Decl |-> Absent]
  BY DEF ChangeModule, Idle
<1>2. StackSound' /\ MarkInv' /\ RegisterInv'
  BY <1>1, MarksDiffer, EmptyStack
<1>3. KeptSound'
  <2>1. \A x, v : Sound(x, v)' <=> Sound(x, v)
    BY <1>1, ProgramConstant
  <2>2. \A a : SoundAnswer(a)' <=> SoundAnswer(a)
    BY <1>1, ProgramConstant
  <2>3. \A x \in Decl : named'[x] \notin Answer /\ memo'[x] = Absent
    BY <1>1, MarksDiffer
  <2>4. QED BY <1>1, <2>1, <2>2, <2>3 DEF IInv, KeptSound
<1>4. SharedComplete'
  <2>1. \A x : Line(x)' = Line(x)
    BY <1>1, ProgramConstant
  <2>2. QED BY <1>1, <2>1 DEF IInv, SharedComplete, Complete
<1>5. Typed'
  BY <1>1 DEF IInv, Typed
<1>6. QED BY <1>2, <1>3, <1>4, <1>5 DEF IInv

LEMMA StutterStep ==
    ASSUME IInv, UNCHANGED vars
    PROVE  IInv'
<1>1. UNCHANGED <<program, named, memo, shared, interned, want, answer, stack, ctx, last, requests>>
  BY DEF vars, caches
<1>2. Typed'
  BY <1>1 DEF IInv, Typed
<1>3. KeptSound' /\ SharedComplete'
  BY <1>1, CachesKept DEF caches, IInv, KeptSound
<1>4. ASSUME NEW i \in 1..Len(stack) PROVE FrameSound(i)'
  <2>1. FrameSound(i) /\ Pending(i)' = Pending(i)
    BY <1>1 DEF IInv, StackSound, Pending
  <2>2. QED BY <1>1, <2>1, FrameKept
<1>5. StackSound'
  BY <1>1, <1>4 DEF StackSound
<1>6. MarkInv' /\ RegisterInv'
  BY <1>1 DEF IInv, MarkInv, RegisterInv, Plain
<1>7. QED BY <1>2, <1>3, <1>5, <1>6 DEF IInv

LEMMA InitIInv ==
    ASSUME Init
    PROVE  IInv
<1>1. Typed
  <2>1. program \in [plain : SUBSET Decl, bases : [Decl -> Seq(Decl)],
                     members : [Decl -> Seq(Decl)], sigs : [Decl -> Seq(Decl)]]
    BY InterfaceMemoAssumption DEF Init
  <2>2. stack \in Seq(AnyFrame) /\ requests \in Nat
    BY DEF Init
  <2>3. ctx \in AnyContext /\ last \in [low : Int, unk : Int, open : BOOLEAN]
    BY UnsetInt DEF Init, FreshContext, AnyContext
  <2>4. QED BY <2>1, <2>2, <2>3 DEF Init, Typed
<1>2. \A x \in Decl : /\ named[x] \notin Answer /\ named[x] # Resolving /\ memo[x] = Absent
                      /\ shared[x] = Absent /\ interned[x] = Absent
  BY MarksDiffer DEF Init
<1>3. KeptSound
  BY <1>2 DEF Init, KeptSound
<1>4. 1..Len(stack) = {}
  BY DEF Init
<1>5. StackSound /\ MarkInv /\ RegisterInv
  BY <1>2, <1>4 DEF StackSound, MarkInv, RegisterInv
<1>6. SharedComplete
  BY <1>2 DEF SharedComplete
<1>7. QED BY <1>1, <1>3, <1>5, <1>6 DEF IInv

LEMMA NextIInv ==
    ASSUME IInv, [Next]_vars
    PROVE  IInv'
<1>1. CASE Reference
  BY <1>1, ReferenceStep
<1>2. ASSUME NEW d \in Decl, Resolve(d) PROVE IInv'
  <2>1. CASE Expand(d, "named")
    BY <2>1, ExpandStep
  <2>2. CASE Expand(d, "peel")
    BY <2>2, ExpandStep
  <2>3. CASE \/ NamedHit(d) \/ NamedInFlight(d) \/ InternedHit(d)
             \/ ReenterLazily(d) \/ ReenterUnknown(d)
             \/ MemoHit(d, "named") \/ MemoHit(d, "peel") \/ PeelBlocked(d)
    <3>1. Settled(d)
      BY <2>3, AnsweredStep
    <3>2. QED BY <3>1, SettledStep
  <2>4. QED BY <1>2, <2>1, <2>2, <2>3 DEF Resolve
<1>3. CASE AbsorbBase
  BY <1>3, AbsorbBaseStep
<1>4. CASE AbsorbMember
  BY <1>4, AbsorbMemberStep
<1>5. CASE EndBases
  BY <1>5, EndBasesStep
<1>6. CASE EndMembers
  BY <1>6, EndMembersStep
<1>7. CASE Finish
  BY <1>7, FinishStep
<1>8. CASE Reply
  BY <1>8, ReplyStep
<1>9. ASSUME NEW d \in Decl, Request(d) PROVE IInv'
  BY <1>9, RequestStep
<1>10. CASE ChangeModule
  BY <1>10, ChangeModuleStep
<1>11. CASE UNCHANGED vars
  BY <1>11, StutterStep
<1>12. QED
  BY <1>1, <1>2, <1>3, <1>4, <1>5, <1>6, <1>7, <1>8, <1>9, <1>10, <1>11 DEF Next, Step

\* The invariant the properties rest on, for every program and every number of
\* references: what is kept, what is under construction and what is marked
\* belong together after every step of resolve_interface and its callers.
THEOREM InductiveInvariant == Spec => []IInv
<1>1. Init => IInv
  BY InitIInv
<1>2. IInv /\ [Next]_vars => IInv'
  BY NextIInv
<1>3. QED BY <1>1, <1>2, PTL DEF Spec

-----------------------------------------------------------------------------
(* The theorems. *)

\* An expansion kept in any of the four places, by whatever path of
\* resolve_interface it got there, has every inherited member or is open: an
\* access to a member that a cut or failed base would have had is never
\* reported (interface.rs:1308-1313).
THEOREM AlwaysIncompleteIsOpen == Spec => []IncompleteIsOpen
<1>1. ASSUME IInv PROVE IncompleteIsOpen
  <2> SUFFICES ASSUME NEW d \in Decl, NEW v \in Kept(d) \ {Absent}
               PROVE  v.heirs = Line(d) \/ v.open
    BY DEF IncompleteIsOpen, Complete
  <2>1. CASE v \in {c[d] : c \in {shared, interned}}
    BY <1>1, <2>1 DEF IInv, KeptSound, Sound
  <2>2. CASE v \in {c[d].val : c \in {x \in {memo, named} : x[d] \in Answer /\ x[d].ty = "object"}}
    <3>1. PICK c \in {memo, named} : c[d] \in Answer /\ c[d].ty = "object" /\ v = c[d].val
      BY <2>2
    <3>2. c[d].decl = d /\ SoundAnswer(c[d])
      BY <1>1, <3>1, MarksDiffer DEF IInv, KeptSound
    <3>3. QED BY <3>1, <3>2 DEF SoundAnswer, Sound
  <2>3. QED BY <2>1, <2>2 DEF Kept
<1>2. QED BY <1>1, InductiveInvariant, PTL

\* When no reference is being resolved, no declaration is left marked in flight
\* in resolved_named_types: every path out of resolve_interface, with or without
\* an error, replaces the mark.
THEOREM AlwaysMarksReleased == Spec => []MarksReleased
<1>1. IInv => MarksReleased
  BY NothingOpen DEF MarksReleased, Idle
<1>2. QED BY <1>1, InductiveInvariant, PTL

\* What the program-lifetime companion of the memo has for a declaration without
\* bases or without signatures has every inherited member, whatever members were
\* expanded between the publication of a register and its use.
THEOREM AlwaysSharedComplete == Spec => []SharedComplete
<1>1. IInv => SharedComplete
  BY DEF IInv
<1>2. QED BY <1>1, InductiveInvariant, PTL

-----------------------------------------------------------------------------
(* What the registers say.  The expansions above depend on no register; what *)
(* a module's memo lacks does.  The second invariant says what an expansion  *)
(* may still lack: the bases of what it has, but for declarations that are   *)
(* open on the stack at or above the lowest frame that its heritage met as   *)
(* unknown.  An expansion that met no frame below its own lacks none.        *)

\* Nothing of the line of d is plain or resolved after its heritage.
Pure(d) == \A x \in Line(d) : Quiet(x)

\* The registers of the i-th frame; the frame above it has saved them.
LowAt(i) == IF i < Len(stack) THEN stack[i + 1].low ELSE ctx.low
UnkAt(i) == IF i < Len(stack) THEN stack[i + 1].unk ELSE ctx.unk

\* The lowest frame that its heritage met as unknown.
HeritageUnk(i) == IF stack[i].phase = "bases" THEN UnkAt(i) ELSE stack[i].heritage

\* The first frame of the i-th frame's context.
StartOf(i) == Max({1} \cup {j \in 1..i : stack[j].via = "peel"})

\* What is open in that context from index n on.
Owed(i, n) == {stack[j].decl : j \in {k \in 1..i : k >= StartOf(i) /\ k - StartOf(i) >= n}}

\* v has the bases of whatever it has, but for S.
ClosedBut(v, S) == \A y \in v.heirs : ToSet(program.bases[y]) \subseteq v.heirs \cup S

\* The bases a frame has still to resolve or waits for.
Open(i) == IF stack[i].phase = "bases" THEN ToSet(stack[i].todo) \cup Pending(i) ELSE {}

FrameClosed(i) ==
    Pure(stack[i].decl) =>
        /\ \A y \in stack[i].val.heirs \ {stack[i].decl} :
            ToSet(program.bases[y]) \subseteq stack[i].val.heirs \cup Owed(i, HeritageUnk(i))
        /\ ToSet(program.bases[stack[i].decl])
            \subseteq stack[i].val.heirs \cup Owed(i, HeritageUnk(i)) \cup Open(i)

StackClosed == \A i \in 1..Len(stack) : FrameClosed(i)

\* An answer is closed but for what is open where it goes; it is unknown only if
\* it is open there itself.
AnswerClosed ==
    (answer # None /\ stack # <<>> /\ Pure(answer.decl)) =>
        /\ answer.ty = "object" => ClosedBut(answer.val, Owed(Len(stack), ctx.unk))
        /\ answer.ty = "unknown" => answer.decl \in Owed(Len(stack), ctx.unk) \cup {Top.decl}

\* A generic declaration is lazy, or peeled, only as a base of itself.
PeelInv ==
    /\ (want # None /\ want.via = "peel" /\ want.decl \notin Plain) =>
            stack # <<>> /\ want.decl = Top.decl
    /\ (answer # None /\ answer.ty = "lazy" /\ answer.decl \notin Plain /\ stack # <<>>) =>
            answer.decl = Top.decl

\* Nothing that is kept for a pure declaration lacks anything.
KeptComplete ==
    \A d \in Decl : Pure(d) =>
        /\ memo[d] # Absent => Complete(d, memo[d].val)
        /\ interned[d] # Absent => Complete(d, interned[d])

\* While a frame's heritage is resolved, what it met as unknown it met.  Once the
\* heritage is done, unk has been merged with the registers saved below.
LowOK(i) ==
    \/ LowAt(i) <= UnkAt(i)
    \/ \E j \in 1..i : /\ \A k \in j..i : stack[k].phase # "bases"
                       /\ stack[j].low <= UnkAt(i)

LowInv == \A i \in 0..Len(stack) : LowOK(i)

SavedOK(i) ==
    /\ stack[i].outer.low = stack[i].low /\ stack[i].outer.unk = stack[i].unk
    /\ stack[i].phase # "bases" => UnkAt(i) <= stack[i].unk /\ UnkAt(i) <= stack[i].heritage

SavedInv == \A i \in 1..Len(stack) : SavedOK(i)

\* A quiet expansion finishes right after its heritage: the thread's registers
\* are still its own.
HeritageOK(i) ==
    (Quiet(stack[i].decl) /\ program.bases[stack[i].decl] # <<>> /\ stack[i].phase # "bases") =>
        /\ i = Len(stack) /\ want = None /\ answer = None /\ stack[i].todo = <<>>
        /\ last.low <= stack[i].heritage
        /\ stack[i].phase = "sigs" => last.unk = stack[i].heritage

HeritageInv == \A i \in 1..Len(stack) : HeritageOK(i)

QInv == /\ KeptComplete /\ StackClosed /\ AnswerClosed /\ PeelInv
        /\ LowInv /\ SavedInv /\ HeritageInv

-----------------------------------------------------------------------------
(* Lines and values. *)

\* A pure declaration is quiet, and so are its bases.
LEMMA PureFacts ==
    ASSUME Typed, NEW d \in Decl, Pure(d)
    PROVE  /\ Quiet(d) /\ d \notin Plain
           /\ \A b \in ToSet(program.bases[d]) : b \in Decl /\ Pure(b)
           /\ \A y \in Line(d) : y \in Decl
<1>1. d \in Line(d) /\ Line(d) \subseteq Decl
  BY LineLeast
<1>2. Quiet(d)
  BY <1>1 DEF Pure
<1>3. \A b \in ToSet(program.bases[d]) : b \in Decl /\ Line(b) \subseteq Line(d)
  BY LineUnfolds
<1>4. \A b \in ToSet(program.bases[d]) : Pure(b)
  BY <1>3 DEF Pure
<1>5. QED BY <1>1, <1>2, <1>3, <1>4 DEF Quiet

LEMMA PureConstant ==
    ASSUME program' = program
    PROVE  /\ \A d : Pure(d)' <=> Pure(d)
           /\ \A d : Quiet(d)' <=> Quiet(d)
           /\ \A d, v : Complete(d, v)' <=> Complete(d, v)
           /\ \A v, S : ClosedBut(v, S)' <=> ClosedBut(v, S)
<1>1. \A d : Quiet(d)' <=> Quiet(d)
  BY DEF Quiet, Plain
<1>2. \A d : Line(d)' = Line(d)
  BY ProgramConstant
<1>3. QED BY <1>1, <1>2 DEF Pure, Complete, ClosedBut

\* A value is complete if it has the bases of whatever it has.
LEMMA ClosedIsComplete ==
    ASSUME Typed, NEW d \in Decl, NEW v, d \in v.heirs, v.heirs \subseteq Line(d)
    PROVE  Complete(d, v) <=> ClosedBut(v, {})
<1>1. Line(d) \subseteq Decl
  BY LineLeast
<1>2. ASSUME ClosedBut(v, {}) PROVE Line(d) \subseteq v.heirs
  <2>1. v.heirs \in SUBSET Decl /\ \A y \in v.heirs : ToSet(program.bases[y]) \subseteq v.heirs
    BY <1>1, <1>2 DEF ClosedBut
  <2>2. QED BY <2>1, LineLeast
<1>3. ASSUME v.heirs = Line(d) PROVE ClosedBut(v, {})
  BY <1>3, LineLeast DEF ClosedBut
<1>4. QED BY <1>2, <1>3 DEF Complete

LEMMA ClosedWeakens ==
    ASSUME NEW v, NEW S, NEW T, ClosedBut(v, S), S \subseteq T \cup v.heirs
    PROVE  ClosedBut(v, T)
BY DEF ClosedBut

\* A declaration without bases is complete with its own members.
LEMMA BaselessComplete ==
    ASSUME Typed, NEW d \in Decl, program.bases[d] = <<>>, NEW v,
           d \in v.heirs, v.heirs \subseteq Line(d)
    PROVE  Complete(d, v)
<1>1. ToSet(program.bases[d]) = {}
  BY DEF ToSet
<1>2. Line(d) \subseteq v.heirs
  BY <1>1, LineUnfolds
<1>3. QED BY <1>2 DEF Complete

-----------------------------------------------------------------------------
(* Contexts. *)

LEMMA StartFacts ==
    ASSUME stack \in Seq(AnyFrame), NEW i \in 1..Len(stack)
    PROVE  /\ StartOf(i) \in 1..i
           /\ \A j \in 1..i : stack[j].via = "peel" => j <= StartOf(i)
           /\ StartOf(i) = 1 \/ stack[StartOf(i)].via = "peel"
<1> DEFINE D == {1} \cup {j \in 1..i : stack[j].via = "peel"}
<1>1. D \in SUBSET (1..i) /\ D # {} /\ i \in Nat
  OBVIOUS
<1>2. 1 \in D /\ \A j \in 1..i : stack[j].via = "peel" => j \in D
  OBVIOUS
<1>3. \A x \in D : x = 1 \/ stack[x].via = "peel"
  OBVIOUS
<1> HIDE DEF D
<1>4. \E x \in D : \A y \in D : x >= y
  BY <1>1, GreatestExists
<1>5. Max(D) \in D /\ \A y \in D : Max(D) >= y
  BY <1>4 DEF Max
<1>6. StartOf(i) = Max(D)
  BY DEF StartOf, D
<1>7. QED BY <1>1, <1>2, <1>3, <1>5, <1>6

LEMMA SegmentIsStart ==
    ASSUME stack \in Seq(AnyFrame)
    PROVE  SegmentStart = StartOf(Len(stack))
<1>1. DOMAIN stack = 1..Len(stack)
  OBVIOUS
<1>2. QED BY <1>1 DEF SegmentStart, StartOf

\* What a context owes depends on who is open in it.
LEMMA OwedSame ==
    ASSUME NEW i, \A j \in 1..i : stack'[j].decl = stack[j].decl /\ stack'[j].via = stack[j].via
    PROVE  StartOf(i)' = StartOf(i) /\ \A n : Owed(i, n)' = Owed(i, n)
<1>1. {j \in 1..i : stack'[j].via = "peel"} = {j \in 1..i : stack[j].via = "peel"}
  OBVIOUS
<1>2. StartOf(i)' = StartOf(i)
  BY <1>1 DEF StartOf
<1>3. QED BY <1>2 DEF Owed

LEMMA OwedGrows ==
    ASSUME stack \in Seq(AnyFrame), NEW i \in 1..Len(stack), NEW m \in Int, NEW n \in Int, m <= n
    PROVE  Owed(i, n) \subseteq Owed(i, m)
<1>1. StartOf(i) \in Int
  BY StartFacts
<1>2. \A k \in 1..i : k - StartOf(i) >= n => k - StartOf(i) >= m
  BY <1>1
<1>3. QED BY <1>2 DEF Owed

\* Who is open at or above the innermost frame is that frame.
LEMMA OwedByTop ==
    ASSUME stack \in Seq(AnyFrame), NEW i \in 1..Len(stack), NEW n \in Int,
           n + 1 >= i + 1 - StartOf(i) \/ stack[i].via = "peel"
    PROVE  Owed(i, n) \subseteq {stack[i].decl}
<1>1. StartOf(i) \in 1..i /\ (stack[i].via = "peel" => StartOf(i) = i)
  BY StartFacts
<1>2. \A k \in 1..i : k >= StartOf(i) /\ k - StartOf(i) >= n => k = i
  BY <1>1
<1>3. QED BY <1>2 DEF Owed

\* A frame adds itself to what its context owes.
LEMMA OwedBelow ==
    ASSUME stack \in Seq(AnyFrame), NEW i \in 1..Len(stack), i > 1, stack[i].via # "peel", NEW n \in Int
    PROVE  Owed(i, n) \subseteq Owed(i - 1, n) \cup {stack[i].decl}
<1>1. {j \in 1..i : stack[j].via = "peel"} = {j \in 1..(i - 1) : stack[j].via = "peel"}
  OBVIOUS
<1>2. StartOf(i) = StartOf(i - 1)
  BY <1>1 DEF StartOf
<1>3. \A k \in 1..i : k = i \/ k \in 1..(i - 1)
  OBVIOUS
<1>4. QED BY <1>2, <1>3 DEF Owed

-----------------------------------------------------------------------------
(* Frames. *)

\* A frame stays closed while what it has, what is left of it and what it waits
\* for stay the same, and its register only falls.
LEMMA ClosedKept ==
    ASSUME program' = program, stack \in Seq(AnyFrame), NEW i \in 1..Len(stack), FrameClosed(i),
           \A j \in 1..i : stack'[j].decl = stack[j].decl /\ stack'[j].via = stack[j].via,
           stack'[i].phase = stack[i].phase, stack'[i].todo = stack[i].todo,
           stack'[i].val.heirs = stack[i].val.heirs,
           stack[i].phase = "bases" => Pending(i)' = Pending(i),
           NEW n \in Int, NEW m \in Int, HeritageUnk(i) = n, HeritageUnk(i)' = m, m <= n
    PROVE  FrameClosed(i)'
<1>1. Owed(i, n) \subseteq Owed(i, m)
  BY OwedGrows
<1>2. Owed(i, HeritageUnk(i))' = Owed(i, m)
  <2>1. StartOf(i)' = StartOf(i)
    BY OwedSame
  <2>2. QED BY <2>1 DEF Owed
<1>3. Pure(stack[i].decl)' <=> Pure(stack[i].decl)
  <2>1. stack'[i].decl = stack[i].decl
    OBVIOUS
  <2>2. \A d : (Line(d)' = Line(d)) /\ (Quiet(d)' <=> Quiet(d))
    BY ProgramConstant, PureConstant
  <2>3. Line(stack[i].decl)' = Line(stack[i].decl)
    BY <2>1 DEF Line
  <2>4. QED BY <2>2, <2>3 DEF Pure
<1>4. Open(i)' = Open(i)
  BY DEF Open
<1>5. stack'[i].decl = stack[i].decl
  OBVIOUS
<1>6. QED BY <1>1, <1>2, <1>3, <1>4, <1>5 DEF FrameClosed

SameRegisters(s, t) ==
    \A i \in 1..Len(t) : /\ s[i].low = t[i].low /\ s[i].unk = t[i].unk
                         /\ s[i].heritage = t[i].heritage /\ s[i].outer = t[i].outer

LEMMA TaintedRegisters ==
    ASSUME NEW s \in Seq(AnyFrame), NEW lo, NEW t
    PROVE  SameRegisters(Tainted(s, lo, t), s)
<1> DEFINE T(f) == [f EXCEPT !.taint = @ \cup {t}]
<1>1. ASSUME NEW f \in AnyFrame
      PROVE  /\ T(f).low = f.low /\ T(f).unk = f.unk
             /\ T(f).heritage = f.heritage /\ T(f).outer = f.outer
  BY DEF AnyFrame
<1>2. Tainted(s, lo, t) = [i \in 1..Len(s) |-> IF i < lo THEN s[i] ELSE T(s[i])]
  BY DEF Tainted
<1> HIDE DEF T
<1>3. \A i \in 1..Len(s) : s[i] \in AnyFrame
  OBVIOUS
<1>4. QED BY <1>1, <1>2, <1>3 DEF SameRegisters

LEMMA RegisterTypes ==
    ASSUME Typed
    PROVE  /\ Len(stack) \in Nat /\ \A i \in 1..Len(stack) : stack[i] \in AnyFrame
           /\ \A i \in 1..Len(stack) :
                /\ stack[i].low \in Int /\ stack[i].unk \in Int /\ stack[i].heritage \in Int
                /\ stack[i].decl \in Decl
           /\ ctx.low \in Int /\ ctx.unk \in Int
           /\ \A i \in 0..Len(stack) : LowAt(i) \in Int /\ UnkAt(i) \in Int
           /\ \A i \in 1..Len(stack) : HeritageUnk(i) \in Int
<1>1. /\ Len(stack) \in Nat /\ \A i \in 1..Len(stack) : stack[i] \in AnyFrame
      /\ ctx.low \in Int /\ ctx.unk \in Int
  BY DEF Typed, AnyContext
<1>2. \A i \in 1..Len(stack) :
        /\ stack[i].low \in Int /\ stack[i].unk \in Int /\ stack[i].heritage \in Int
        /\ stack[i].decl \in Decl
  BY <1>1 DEF AnyFrame
<1>3. \A i \in 0..Len(stack) : i < Len(stack) => i + 1 \in 1..Len(stack)
  BY <1>1
<1>4. \A i \in 0..Len(stack) : LowAt(i) \in Int /\ UnkAt(i) \in Int
  BY <1>1, <1>2, <1>3 DEF LowAt, UnkAt
<1>5. \A i \in 1..Len(stack) : i \in 0..Len(stack)
  OBVIOUS
<1>6. QED BY <1>1, <1>2, <1>4, <1>5 DEF HeritageUnk

\* A frame's registers and phase, and those of the frames below it, say whether
\* its registers are in order.
LEMMA LowKept ==
    ASSUME NEW i \in Nat, LowOK(i), LowAt(i)' = LowAt(i), UnkAt(i)' = UnkAt(i),
           \A k \in 1..i : /\ stack'[k].low = stack[k].low
                           /\ stack[k].phase # "bases" => stack'[k].phase # "bases"
    PROVE  LowOK(i)'
<1>1. CASE LowAt(i) <= UnkAt(i)
  BY <1>1 DEF LowOK
<1>2. CASE \E j \in 1..i : (\A k \in j..i : stack[k].phase # "bases") /\ stack[j].low <= UnkAt(i)
  <2>1. PICK j \in 1..i : (\A k \in j..i : stack[k].phase # "bases") /\ stack[j].low <= UnkAt(i)
    BY <1>2
  <2>2. \A k \in j..i : k \in 1..i
    OBVIOUS
  <2>3. (\A k \in j..i : stack'[k].phase # "bases") /\ stack'[j].low <= UnkAt(i)'
    BY <2>1, <2>2
  <2>4. QED BY <2>3 DEF LowOK
<1>3. QED BY <1>1, <1>2 DEF LowOK

\* What a frame saved stays in order while its register only falls.
LEMMA SavedKept ==
    ASSUME NEW i, SavedOK(i),
           stack'[i].low = stack[i].low, stack'[i].unk = stack[i].unk,
           stack'[i].heritage = stack[i].heritage, stack'[i].outer = stack[i].outer,
           stack'[i].phase = stack[i].phase,
           NEW u \in Int, NEW w \in Int, UnkAt(i) = u, UnkAt(i)' = w, w <= u,
           stack[i].unk \in Int, stack[i].heritage \in Int
    PROVE  SavedOK(i)'
<1>1. stack'[i].outer.low = stack'[i].low /\ stack'[i].outer.unk = stack'[i].unk
  BY DEF SavedOK
<1>2. ASSUME stack'[i].phase # "bases" PROVE w <= stack'[i].unk /\ w <= stack'[i].heritage
  <2>1. u <= stack[i].unk /\ u <= stack[i].heritage
    BY <1>2 DEF SavedOK
  <2>2. QED BY <2>1
<1>3. QED BY <1>1, <1>2 DEF SavedOK

LEMMA SettledClosed ==
    ASSUME IInv, QInv, NEW d, Settled(d), SameRegisters(stack', stack),
           ctx'.unk <= ctx.unk, ctx'.low <= ctx.low,
           ctx'.low <= ctx'.unk \/ ctx'.unk = ctx.unk,
           AnswerClosed', KeptComplete',
           answer'.ty = "lazy" /\ d \notin Plain /\ stack # <<>> => d = Top.decl
    PROVE  QInv'
<1> DEFINE n == Len(stack)
<1>1. /\ program' = program /\ want \in Ref /\ want.decl = d /\ want # None
      /\ want' = None /\ answer' \in Answer /\ answer'.decl = d /\ answer' # None /\ answer = None
      /\ ctx'.low \in Int /\ ctx'.unk \in Int
  BY NotNone DEF Settled, AnyContext, IInv, KeptSound
<1>2. /\ Len(stack') = n
      /\ \A i \in 1..n : /\ stack'[i].decl = stack[i].decl /\ stack'[i].via = stack[i].via
                         /\ stack'[i].phase = stack[i].phase /\ stack'[i].todo = stack[i].todo
                         /\ stack'[i].val = stack[i].val
                         /\ stack'[i].low = stack[i].low /\ stack'[i].unk = stack[i].unk
                         /\ stack'[i].heritage = stack[i].heritage
                         /\ stack'[i].outer = stack[i].outer
  BY DEF Settled, SameFrames, SameRegisters
<1>3. /\ Typed /\ stack \in Seq(AnyFrame) /\ n \in Nat
      /\ ctx.low \in Int /\ ctx.unk \in Int
      /\ \A i \in 0..n : LowAt(i) \in Int /\ UnkAt(i) \in Int
      /\ \A i \in 1..n : /\ HeritageUnk(i) \in Int /\ stack[i].unk \in Int
                         /\ stack[i].heritage \in Int /\ stack[i].low \in Int
  BY RegisterTypes DEF IInv, Typed
<1>4. ASSUME NEW i \in 0..n, i # n
      PROVE  LowAt(i)' = LowAt(i) /\ UnkAt(i)' = UnkAt(i)
  <2>1. i < n /\ i + 1 \in 1..n
    BY <1>3, <1>4
  <2>2. QED BY <1>2, <2>1 DEF LowAt, UnkAt
<1>5. ASSUME NEW i \in 0..n, i = n
      PROVE  /\ LowAt(i)' = ctx'.low /\ UnkAt(i)' = ctx'.unk
             /\ LowAt(i) = ctx.low /\ UnkAt(i) = ctx.unk
  BY <1>2, <1>3, <1>5 DEF LowAt, UnkAt
<1>6. ASSUME NEW i \in 0..n PROVE UnkAt(i)' \in Int /\ UnkAt(i)' <= UnkAt(i)
  <2>1. CASE i = n
    BY <1>1, <1>3, <1>5, <2>1
  <2>2. CASE i # n
    BY <1>3, <1>4, <2>2
  <2>3. QED BY <2>1, <2>2
<1>7. StackClosed'
  <2> SUFFICES ASSUME NEW i \in 1..n PROVE FrameClosed(i)'
    BY <1>2 DEF StackClosed
  <2>1. Pending(i)' = Pending(i)
    <3>1. CASE i < n
      <4>1. i + 1 \in 1..n
        BY <1>3, <3>1
      <4>2. QED BY <1>2, <3>1, <4>1 DEF Pending
    <3>2. CASE ~(i < n)
      <4>1. {x.decl : x \in {want', answer'} \ {None}} = {x.decl : x \in {want, answer} \ {None}}
        BY <1>1
      <4>2. QED BY <1>2, <3>2, <4>1 DEF Pending
    <3>3. QED BY <3>1, <3>2
  <2>2. HeritageUnk(i)' \in Int /\ HeritageUnk(i)' <= HeritageUnk(i)
    <3>1. i \in 0..n
      BY <1>3
    <3>2. /\ UnkAt(i)' \in Int /\ UnkAt(i)' <= UnkAt(i) /\ UnkAt(i) \in Int
          /\ stack[i].heritage \in Int /\ stack'[i].heritage = stack[i].heritage
          /\ stack'[i].phase = stack[i].phase
      BY <1>2, <1>3, <1>6, <3>1
    <3>3. QED BY <3>2 DEF HeritageUnk
  <2>3. \A j \in 1..i : stack'[j].decl = stack[j].decl /\ stack'[j].via = stack[j].via
    BY <1>2, <1>3
  <2>4. FrameClosed(i)
    BY DEF QInv, StackClosed
  <2>5. QED BY <1>1, <1>2, <1>3, <2>1, <2>2, <2>3, <2>4, ClosedKept
<1>8. PeelInv'
  <2>1. stack' # <<>> => stack # <<>> /\ Top'.decl = Top.decl
    <3>1. ASSUME stack' # <<>> PROVE n \in 1..n
      BY <1>2, <1>3, <3>1 DEF Settled
    <3>2. QED BY <1>2, <1>3, <3>1 DEF Top
  <2>2. Plain' = Plain
    BY <1>1 DEF Plain
  <2>3. QED BY <1>1, <2>1, <2>2 DEF PeelInv
<1>9. LowInv'
  <2> SUFFICES ASSUME NEW i \in 0..n PROVE LowOK(i)'
    BY <1>2 DEF LowInv
  <2>1. LowOK(i)
    BY DEF QInv, LowInv
  <2>2. \A k \in 1..i : /\ stack'[k].low = stack[k].low /\ stack'[k].phase = stack[k].phase
                        /\ k \in 1..n
    BY <1>2, <1>3
  <2>3. CASE i # n
    BY <1>4, <2>1, <2>2, <2>3, LowKept
  <2>4. CASE i = n
    <3>0. /\ LowAt(i)' = ctx'.low /\ UnkAt(i)' = ctx'.unk
          /\ LowAt(i) = ctx.low /\ UnkAt(i) = ctx.unk
      BY <1>5, <2>4
    <3>1. CASE ctx'.low <= ctx'.unk
      BY <3>0, <3>1 DEF LowOK
    <3>2. CASE ctx'.unk = ctx.unk
      <4>1. CASE ctx.low <= ctx.unk
        BY <1>1, <1>3, <3>0, <3>2, <4>1 DEF LowOK
      <4>2. CASE ~(ctx.low <= ctx.unk)
        <5>1. PICK j \in 1..i : (\A k \in j..i : stack[k].phase # "bases")
                                /\ stack[j].low <= ctx.unk
          BY <2>1, <3>0, <4>2 DEF LowOK
        <5>2. \A k \in j..i : k \in 1..i
          OBVIOUS
        <5>3. (\A k \in j..i : stack'[k].phase # "bases") /\ stack'[j].low <= UnkAt(i)'
          BY <2>2, <3>0, <3>2, <5>1, <5>2
        <5>4. QED BY <5>3 DEF LowOK
      <4>3. QED BY <4>1, <4>2
    <3>3. QED BY <3>1, <3>2
  <2>5. QED BY <2>3, <2>4
<1>10. SavedInv'
  <2> SUFFICES ASSUME NEW i \in 1..n PROVE SavedOK(i)'
    BY <1>2 DEF SavedInv
  <2>1. SavedOK(i) /\ i \in 0..n
    BY <1>3 DEF QInv, SavedInv
  <2>2. UnkAt(i)' \in Int /\ UnkAt(i)' <= UnkAt(i) /\ UnkAt(i) \in Int
    BY <1>3, <1>6, <2>1
  <2>3. PICK u \in Int, w \in Int : UnkAt(i) = u /\ UnkAt(i)' = w /\ w <= u
    BY <2>2
  <2>4. QED BY <1>2, <1>3, <2>1, <2>3, SavedKept
<1>11. HeritageInv'
  <2> SUFFICES ASSUME NEW i \in 1..n PROVE HeritageOK(i)'
    BY <1>2 DEF HeritageInv
  <2>1. ~(Quiet(stack[i].decl) /\ program.bases[stack[i].decl] # <<>> /\ stack[i].phase # "bases")
    BY <1>1 DEF QInv, HeritageInv, HeritageOK
  <2>2. Quiet(stack[i].decl)' <=> Quiet(stack[i].decl)
    BY <1>1, <1>2 DEF Quiet, Plain
  <2>3. QED BY <1>1, <1>2, <2>1, <2>2 DEF HeritageOK
<1>12. QED BY <1>7, <1>8, <1>9, <1>10, <1>11 DEF QInv

\* What the caller of resolve_interface keeps and hands on is complete when it
\* keeps only what is.
LEMMA CompletedCloses ==
    ASSUME Typed, KeptSound, NEW d \in Decl, NEW how, NEW v \in Value,
           NEW e, NEW c, NEW rest \in Seq(AnyFrame), KeptComplete,
           Completed(d, how, v, e, c, rest),
           (Pure(d) /\ (how = "peel" \/ c)) => Complete(d, v)
    PROVE  /\ answer'.ty = "object" /\ answer'.decl = d
           /\ Pure(d) => answer'.val = v \/ Complete(d, answer'.val)
           /\ \A x \in Decl : Pure(x) /\ interned'[x] # Absent => Complete(x, interned'[x])
           /\ SameRegisters(stack', rest)
<1> DEFINE keeps == ~ e /\ (d \in Plain \/ how = "peel" \/ c)
           kept  == IF interned[d] # Absent THEN interned[d] ELSE v
           w     == IF keeps THEN kept ELSE v
           b     == how = "named" /\ e
           a     == Object(d, w, b)
<1>1. /\ interned' = IF keeps THEN [interned EXCEPT ![d] = kept] ELSE interned
      /\ stack' = IF how = "peel" /\ e THEN Tainted(rest, 1, "degraded") ELSE rest
      /\ answer' = a
  BY DEF Completed, Answered
<1>2. a.ty = "object" /\ a.decl = d /\ a.val = w
  BY DEF Object
<1>3. Pure(d) => d \notin Plain
  BY PureFacts
<1>4. Pure(d) /\ keeps => Complete(d, kept)
  BY <1>3 DEF KeptComplete
<1>5. Pure(d) => w = v \/ Complete(d, w)
  BY <1>4
<1>6. \A x \in Decl : Pure(x) /\ interned'[x] # Absent => Complete(x, interned'[x])
  <2> SUFFICES ASSUME NEW x \in Decl, Pure(x), interned'[x] # Absent
               PROVE  Complete(x, interned'[x])
    OBVIOUS
  <2>1. CASE keeps /\ x = d
    <3>1. interned'[x] = kept
      BY <1>1, <2>1 DEF Typed
    <3>2. QED BY <1>4, <2>1, <3>1
  <2>2. CASE ~(keeps /\ x = d)
    <3>1. interned'[x] = interned[x]
      BY <1>1, <2>2 DEF Typed
    <3>2. QED BY <3>1 DEF KeptComplete
  <2>3. QED BY <2>1, <2>2
<1>7. SameRegisters(stack', rest)
  <2>1. SameRegisters(rest, rest)
    BY DEF SameRegisters
  <2>2. QED BY <1>1, <2>1, TaintedRegisters
<1>8. QED BY <1>1, <1>2, <1>5, <1>6, <1>7

\* A complete answer is closed wherever it goes.
LEMMA CompleteAnswer ==
    ASSUME IInv, program' = program, answer'.ty = "object", answer'.decl \in Decl,
           SoundAnswer(answer'), Pure(answer'.decl) => Complete(answer'.decl, answer'.val)
    PROVE  AnswerClosed'
<1>1. SUFFICES ASSUME Pure(answer'.decl)
               PROVE  \A S : ClosedBut(answer'.val, S)
  <2>1. (\A S : ClosedBut(answer'.val, S)) => \A S : \A y \in answer'.val.heirs :
            ToSet(program.bases[y]) \subseteq answer'.val.heirs \cup S
    BY DEF ClosedBut
  <2>2. Pure(answer.decl)' <=> Pure(answer'.decl)
    <3>1. \A d : Pure(d)' <=> Pure(d)
      BY PureConstant
    <3>2. QED BY <3>1 DEF Pure, Line, Quiet, Plain
  <2>3. QED BY <1>1, <2>1, <2>2 DEF AnswerClosed, ClosedBut
<1>2. ClosedBut(answer'.val, {})
  BY <1>1, ClosedIsComplete DEF SoundAnswer, Sound, IInv
<1>3. QED BY <1>2 DEF ClosedBut

\* The place of a declaration that is open in the current context.
LEMMA PlaceOnStack ==
    ASSUME stack \in Seq(AnyFrame), NEW d, OnStack(d)
    PROVE  /\ stack # <<>> /\ Index(d) \in Int
           /\ \E k \in 1..Len(stack) :
                /\ stack[k].decl = d /\ k >= StartOf(Len(stack))
                /\ k - StartOf(Len(stack)) = Index(d)
                /\ Index(d) + 1 = Depth => k = Len(stack)
<1> DEFINE n == Len(stack)
           k == CHOOSE i \in SegmentStart..n : stack[i].decl = d
<1>1. n \in Nat /\ SegmentStart \in Int /\ SegmentStart = StartOf(n) /\ Index(d) \in Int
  BY SegmentIndex, SegmentIsStart
<1>2. k \in SegmentStart..n /\ stack[k].decl = d
  BY DEF OnStack
<1>3. Index(d) = k - SegmentStart
  BY DEF Index
<1> HIDE DEF k
<1>4. n \in 1..n
  <2>1. SegmentStart >= 1
    <3>1. CASE n \in 1..n
      BY <1>1, <3>1, StartFacts
    <3>2. CASE n \notin 1..n
      <4>1. n = 0
        BY <1>1, <3>2
      <4>2. {1} \cup {j \in 1..n : stack[j].via = "peel"} = {1}
        BY <4>1
      <4>3. Max({1}) = 1
        BY DEF Max
      <4>4. StartOf(n) = 1
        BY <4>2, <4>3 DEF StartOf
      <4>5. QED BY <1>1, <4>4
    <3>3. QED BY <3>1, <3>2
  <2>2. QED BY <1>1, <1>2, <2>1
<1>5. StartOf(n) \in 1..n
  BY <1>4, StartFacts
<1>6. k \in 1..n
  BY <1>1, <1>2, <1>5
<1>7. Index(d) + 1 = Depth => k = n
  BY <1>1, <1>3, <1>6 DEF Depth
<1>8. QED BY <1>1, <1>2, <1>3, <1>4, <1>6, <1>7

\* Whoever is open is owed from its index on.
LEMMA OwedIndex ==
    ASSUME stack \in Seq(AnyFrame), NEW d, OnStack(d), NEW m \in Int, m <= Index(d)
    PROVE  d \in Owed(Len(stack), m)
<1>1. PICK k \in 1..Len(stack) :
        /\ stack[k].decl = d /\ k >= StartOf(Len(stack))
        /\ k - StartOf(Len(stack)) = Index(d)
  BY PlaceOnStack
<1>2. k - StartOf(Len(stack)) >= m
  BY <1>1, PlaceOnStack
<1>3. QED BY <1>1, <1>2 DEF Owed

\* An answer that is not an expansion is closed if its declaration is open in the
\* context.
LEMMA MemberlessAnswer ==
    ASSUME stack \in Seq(AnyFrame), stack' \in Seq(AnyFrame), SameFrames(stack', stack),
           program' = program, answer'.ty # "object",
           (answer'.ty = "unknown" /\ stack # <<>> /\ Pure(answer'.decl)) =>
                answer'.decl \in Owed(Len(stack), ctx'.unk) \cup {Top.decl}
    PROVE  AnswerClosed'
<1>1. SUFFICES ASSUME stack' # <<>>, Pure(answer.decl)', answer'.ty = "unknown"
               PROVE  answer'.decl \in Owed(Len(stack), ctx.unk)' \cup {Top'.decl}
  BY DEF AnswerClosed
<1>2. Pure(answer'.decl)
  BY <1>1 DEF Pure, Line, Quiet, Plain
<1>3. Len(stack') = Len(stack) /\ stack # <<>> /\ Len(stack) \in 1..Len(stack)
  BY <1>1 DEF SameFrames
<1>4. \A j \in 1..Len(stack) : stack'[j].decl = stack[j].decl /\ stack'[j].via = stack[j].via
  BY DEF SameFrames
<1>5. Top'.decl = Top.decl
  BY <1>3, <1>4 DEF Top
<1>6. {j \in 1..Len(stack') : stack'[j].via = "peel"} = {j \in 1..Len(stack) : stack[j].via = "peel"}
  BY <1>3, <1>4
<1>7. StartOf(Len(stack))' = StartOf(Len(stack))
  BY <1>6 DEF StartOf
<1>8. Owed(Len(stack), ctx.unk)' = Owed(Len(stack), ctx'.unk)
  BY <1>3, <1>4, <1>7 DEF Owed
<1>9. QED BY <1>1, <1>2, <1>3, <1>5, <1>8

\* Every way a reference is answered without a new expansion keeps the invariant.
LEMMA AnsweredClosed ==
    ASSUME IInv, QInv, NEW d \in Decl,
           \/ NamedHit(d) \/ NamedInFlight(d) \/ InternedHit(d)
           \/ ReenterLazily(d) \/ ReenterUnknown(d)
           \/ MemoHit(d, "named") \/ MemoHit(d, "peel") \/ PeelBlocked(d)
    PROVE  QInv'
<1>1. /\ Typed /\ KeptSound /\ stack \in Seq(AnyFrame) /\ KeptComplete
      /\ ctx.low \in Int /\ ctx.unk \in Int
  BY DEF IInv, Typed, AnyContext, QInv
<1>2. /\ Settled(d) /\ stack' \in Seq(AnyFrame) /\ SameFrames(stack', stack)
      /\ program' = program /\ memo' = memo /\ SoundAnswer(answer') /\ answer'.decl = d
  BY AnsweredStep DEF Settled
<1>3. SameRegisters(stack, stack)
  BY DEF SameRegisters
<1>4. interned' = interned => KeptComplete'
  <2>1. \A x, v : Complete(x, v)' <=> Complete(x, v)
    BY <1>2, PureConstant
  <2>2. \A x : Pure(x)' <=> Pure(x)
    BY <1>2, PureConstant
  <2>3. QED BY <1>1, <1>2, <2>1, <2>2 DEF KeptComplete
<1>5. Pure(d) => d \notin Plain
  BY <1>1, PureFacts
<1>ctx. ctx' = ctx => ctx'.unk <= ctx.unk /\ ctx'.low <= ctx.low /\ ctx'.unk = ctx.unk
  BY <1>1
<1>6. CASE NamedHit(d)
  <2>1. /\ d \in Plain /\ stack' = stack /\ ctx' = ctx /\ interned' = interned
    BY <1>6 DEF NamedHit, caches
  <2>2. Pure(answer.decl)' <=> Pure(d)
    BY <1>2 DEF Pure, Line, Quiet, Plain
  <2>3. AnswerClosed'
    BY <1>5, <2>1, <2>2 DEF AnswerClosed
  <2>4. QED BY <1>2, <1>3, <1>4, <1>ctx, <2>1, <2>3, SettledClosed
<1>7. CASE NamedInFlight(d)
  <2>1. /\ d \in Plain /\ stack' = Tainted(stack, 1, "inflight") /\ ctx' = ctx
        /\ interned' = interned
    BY <1>7 DEF NamedInFlight, caches
  <2>2. Pure(answer.decl)' <=> Pure(d)
    BY <1>2 DEF Pure, Line, Quiet, Plain
  <2>3. AnswerClosed'
    BY <1>5, <2>1, <2>2 DEF AnswerClosed
  <2>4. SameRegisters(stack', stack)
    BY <1>1, <2>1, TaintedRegisters
  <2>5. QED BY <1>2, <1>4, <1>ctx, <2>1, <2>3, <2>4, SettledClosed
<1>8. CASE InternedHit(d)
  <2>1. /\ answer' = Object(d, interned[d], FALSE) /\ stack' = stack /\ ctx' = ctx
        /\ interned' = interned /\ interned[d] # Absent
    BY <1>8 DEF InternedHit, Answered, caches
  <2>2. answer'.ty = "object" /\ answer'.val = interned[d]
    BY <2>1 DEF Object
  <2>3. Pure(d) => Complete(d, answer'.val)
    BY <1>1, <2>1, <2>2 DEF KeptComplete
  <2>4. AnswerClosed'
    BY <1>2, <2>2, <2>3, CompleteAnswer
  <2>5. answer'.ty # "lazy"
    BY <2>2
  <2>6. QED BY <1>2, <1>3, <1>4, <1>ctx, <2>1, <2>4, <2>5, SettledClosed
<1>9. CASE ReenterLazily(d)
  <2>1. /\ answer' = Lazy(d) /\ stack' = stack /\ OnStack(d)
        /\ d \in Plain \/ Index(d) + 1 = Depth
        /\ ctx' = [ctx EXCEPT !.low = Least(@, Index(d))] /\ interned' = interned
    BY <1>9 DEF ReenterLazily, Answered
  <2>2. answer'.ty = "lazy"
    BY <2>1, MemberlessTypes
  <2>3. AnswerClosed'
    BY <1>1, <1>2, <2>2, MemberlessAnswer
  <2>4. Index(d) \in Int /\ (d \notin Plain => d = Top.decl)
    BY <1>1, <2>1, PlaceOnStack DEF Top
  <2>5. ctx'.low <= ctx.low /\ ctx'.unk = ctx.unk
    BY <1>1, <2>1, <2>4 DEF Least, IInv, Typed, AnyContext
  <2>6. QED BY <1>1, <1>2, <1>3, <1>4, <2>1, <2>3, <2>4, <2>5, SettledClosed
<1>10. CASE ReenterUnknown(d)
  <2>1. /\ answer' = Unknown(d, FALSE) /\ OnStack(d) /\ interned' = interned
        /\ stack' = IF d \in ctx.noted THEN stack ELSE Tainted(stack, SegmentStart, "emitted")
        /\ ctx' = [low   |-> Least(ctx.low, Index(d)),
                   unk   |-> Least(ctx.unk, Index(d)),
                   noted |-> ctx.noted \cup {d}]
    BY <1>10 DEF ReenterUnknown, Answered, caches
  <2>2. answer'.ty = "unknown"
    BY <2>1, MemberlessTypes
  <2>3. Index(d) \in Int
    BY <1>1, <2>1, PlaceOnStack
  <2>4. /\ ctx'.low = Least(ctx.low, Index(d)) /\ ctx'.unk = Least(ctx.unk, Index(d))
    BY <2>1
  <2>5. /\ ctx'.low <= ctx.low /\ ctx'.unk <= ctx.unk /\ ctx'.unk <= Index(d) /\ ctx'.unk \in Int
        /\ ctx'.low <= ctx'.unk \/ ctx'.unk = ctx.unk
    BY <1>1, <2>3, <2>4 DEF Least
  <2>6. d \in Owed(Len(stack), ctx'.unk)
    BY <1>1, <2>1, <2>5, OwedIndex
  <2>7. AnswerClosed'
    BY <1>1, <1>2, <2>2, <2>6, MemberlessAnswer
  <2>8. SameRegisters(stack', stack)
    BY <1>1, <1>3, <2>1, TaintedRegisters
  <2>9. QED BY <1>2, <1>4, <2>1, <2>2, <2>5, <2>7, <2>8, SettledClosed
<1>11. ASSUME NEW how \in {"named", "peel"}, MemoHit(d, how) PROVE QInv'
  <2> DEFINE v == Recalled(d).val
             e == Recalled(d).err
             c == TRUE
  <2>1. Completed(d, how, v, e, c, stack) /\ Memoized(d) /\ ctx' = ctx
    BY <1>11 DEF MemoHit
  <2>2. v \in Value /\ (Pure(d) => Complete(d, v))
    <3>1. CASE memo[d] # Absent
      <4>1. memo[d] \in Answer
        BY <1>1, <3>1 DEF Typed
      <4>2. QED BY <1>1, <3>1, <4>1 DEF Recalled, Answer, KeptComplete
    <3>2. CASE memo[d] = Absent
      <4>1. shared[d] \in Value /\ shared[d] # Absent
        BY <1>1, <2>1, <3>2 DEF Typed, Memoized
      <4>2. v = shared[d]
        BY <3>2 DEF Recalled, Object
      <4>3. Pure(d) => program.bases[d] = <<>> \/ program.sigs[d] = <<>>
        BY <1>1, PureFacts DEF Quiet
      <4>4. QED BY <4>1, <4>2, <4>3 DEF IInv, SharedComplete
    <3>3. QED BY <3>1, <3>2
  <2> HIDE DEF v, e, c
  <2>3. /\ answer'.ty = "object"
        /\ Pure(d) => answer'.val = v \/ Complete(d, answer'.val)
        /\ \A x \in Decl : Pure(x) /\ interned'[x] # Absent => Complete(x, interned'[x])
        /\ SameRegisters(stack', stack)
    BY <1>1, <2>1, <2>2, CompletedCloses
  <2>4. AnswerClosed'
    <3>1. Pure(d) => Complete(d, answer'.val)
      BY <2>2, <2>3
    <3>2. QED BY <1>2, <2>3, <3>1, CompleteAnswer
  <2>5. KeptComplete'
    <3>1. \A x, u : Complete(x, u)' <=> Complete(x, u)
      BY <1>2, PureConstant
    <3>2. \A x : Pure(x)' <=> Pure(x)
      BY <1>2, PureConstant
    <3>3. QED BY <1>1, <1>2, <2>3, <3>1, <3>2 DEF KeptComplete
  <2>6. QED BY <1>2, <1>ctx, <2>1, <2>3, <2>4, <2>5, SettledClosed
<1>12. CASE PeelBlocked(d)
  <2>1. /\ answer' = Unknown(d, FALSE) /\ stack' = Tainted(stack, 1, "degraded")
        /\ ctx' = ctx /\ interned' = interned /\ want = [decl |-> d, via |-> "peel"]
    BY <1>12 DEF PeelBlocked, Answered, Wanted, caches
  <2>2. answer'.ty = "unknown"
    BY <2>1, MemberlessTypes
  <2>3. want # None /\ want.via = "peel" /\ want.decl = d
    BY <2>1, NotNone
  <2>4. d \notin Plain => d = Top.decl
    BY <2>3 DEF QInv, PeelInv
  <2>5. AnswerClosed'
    BY <1>1, <1>2, <1>5, <2>2, <2>4, MemberlessAnswer
  <2>6. SameRegisters(stack', stack)
    BY <1>1, <2>1, TaintedRegisters
  <2>7. answer'.ty # "lazy"
    BY <2>2
  <2>8. QED BY <1>2, <1>4, <1>ctx, <2>1, <2>5, <2>6, <2>7, SettledClosed
<1>13. QED BY <1>6, <1>7, <1>8, <1>9, <1>10, <1>11, <1>12

-----------------------------------------------------------------------------
(* The innermost frame changes. *)

\* f replaces the innermost frame: an expansion of the same declaration, with the
\* registers that it saved.
Replaces(f) ==
    /\ f \in AnyFrame /\ SetTop(f)
    /\ f.decl = Top.decl /\ f.via = Top.via
    /\ f.low = Top.low /\ f.unk = Top.unk /\ f.outer = Top.outer

LEMMA ReplacedStack ==
    ASSUME Typed, stack # <<>>, NEW f, Replaces(f), NEW n, n = Len(stack)
    PROVE  /\ n \in 1..n /\ n \in Nat /\ Len(stack') = n /\ stack'[n] = f /\ stack[n] = Top
           /\ \A i \in 1..n : i # n => stack'[i] = stack[i]
           /\ \A i \in 1..n : /\ stack'[i].decl = stack[i].decl /\ stack'[i].via = stack[i].via
                              /\ stack'[i].low = stack[i].low /\ stack'[i].unk = stack[i].unk
                              /\ stack'[i].outer = stack[i].outer
           /\ stack' # <<>> /\ Top' = f /\ Top'.decl = Top.decl
           /\ \A i \in 0..n : i # n => LowAt(i)' = LowAt(i) /\ UnkAt(i)' = UnkAt(i)
           /\ LowAt(n) = ctx.low /\ UnkAt(n) = ctx.unk
           /\ LowAt(n)' = ctx'.low /\ UnkAt(n)' = ctx'.unk
<1>1. /\ Len(stack') = n /\ n \in 1..n /\ stack'[n] = f /\ stack' \in Seq(AnyFrame)
      /\ \A i \in 1..n : i # n => stack'[i] = stack[i]
  BY TopReplaced DEF Replaces, Typed
<1>2. n \in Nat /\ stack[n] = Top
  BY DEF Typed, Top
<1>3. \A i \in 1..n : /\ stack'[i].decl = stack[i].decl /\ stack'[i].via = stack[i].via
                      /\ stack'[i].low = stack[i].low /\ stack'[i].unk = stack[i].unk
                      /\ stack'[i].outer = stack[i].outer
  BY <1>1, <1>2 DEF Replaces
<1>4. stack' # <<>> /\ Top' = f
  BY <1>1 DEF Top
<1>5. ASSUME NEW i \in 0..n, i # n
      PROVE  LowAt(i)' = LowAt(i) /\ UnkAt(i)' = UnkAt(i)
  <2>1. i < n /\ i + 1 \in 1..n
    BY <1>2, <1>5
  <2>2. QED BY <1>1, <1>3, <2>1 DEF LowAt, UnkAt
<1>6. /\ LowAt(n) = ctx.low /\ UnkAt(n) = ctx.unk
      /\ LowAt(n)' = ctx'.low /\ UnkAt(n)' = ctx'.unk
  BY <1>1, <1>2 DEF LowAt, UnkAt
<1>7. QED BY <1>1, <1>2, <1>3, <1>4, <1>5, <1>6 DEF Replaces

LEMMA ReplacedClosed ==
    ASSUME IInv, QInv, stack # <<>>, program' = program, memo' = memo, interned' = interned,
           NEW f, Replaces(f), NEW n, n = Len(stack), answer' = None,
           (want' # None /\ want'.via = "peel" /\ want'.decl \notin Plain) => want'.decl = Top.decl,
           FrameClosed(n)', LowOK(n)', SavedOK(n)', HeritageOK(n)'
    PROVE  QInv'
<1>1. /\ n \in 1..n /\ n \in Nat /\ Len(stack') = n
      /\ \A i \in 1..n : i # n => stack'[i] = stack[i]
      /\ \A i \in 1..n : /\ stack'[i].decl = stack[i].decl /\ stack'[i].via = stack[i].via
                         /\ stack'[i].low = stack[i].low /\ stack'[i].unk = stack[i].unk
                         /\ stack'[i].outer = stack[i].outer
      /\ stack' # <<>> /\ Top'.decl = Top.decl
  BY ReplacedStack DEF IInv
<1>2. \A i \in 0..n : i # n => LowAt(i)' = LowAt(i) /\ UnkAt(i)' = UnkAt(i)
  BY ReplacedStack DEF IInv
<1>3. /\ stack \in Seq(AnyFrame) /\ \A i \in 1..n : HeritageUnk(i) \in Int
  BY RegisterTypes DEF IInv, Typed
<1>4. ASSUME NEW i \in 1..n, i # n PROVE FrameClosed(i)' /\ SavedOK(i)' /\ HeritageOK(i)'
  <2>1. i < n /\ i + 1 \in 1..n /\ i \in 0..n /\ \A j \in 1..i : j \in 1..n
    BY <1>1, <1>4
  <2>2. UnkAt(i)' = UnkAt(i) /\ stack'[i] = stack[i]
    BY <1>1, <1>2, <1>4, <2>1
  <2>3. Pending(i)' = Pending(i)
    BY <1>1, <2>1 DEF Pending
  <2>4. HeritageUnk(i)' = HeritageUnk(i) /\ HeritageUnk(i) \in Int
    BY <1>3, <2>2 DEF HeritageUnk
  <2>5. FrameClosed(i)
    BY DEF QInv, StackClosed
  <2>6. FrameClosed(i)'
    <3>1. \A j \in 1..i : stack'[j].decl = stack[j].decl /\ stack'[j].via = stack[j].via
      BY <1>1, <2>1
    <3>2. PICK m \in Int : HeritageUnk(i) = m /\ HeritageUnk(i)' = m /\ m <= m
      BY <2>4
    <3>3. QED BY <1>3, <2>2, <2>3, <2>5, <3>1, <3>2, ClosedKept
  <2>7. SavedOK(i)'
    BY <2>2 DEF QInv, SavedInv, SavedOK
  <2>8. ~(Quiet(stack[i].decl) /\ program.bases[stack[i].decl] # <<>> /\ stack[i].phase # "bases")
    BY <1>4 DEF QInv, HeritageInv, HeritageOK
  <2>9. HeritageOK(i)'
    BY <2>2, <2>8 DEF HeritageOK, Quiet, Plain
  <2>10. QED BY <2>6, <2>7, <2>9
<1>5. StackClosed'
  BY <1>1, <1>4 DEF StackClosed
<1>6. SavedInv'
  BY <1>1, <1>4 DEF SavedInv
<1>7. HeritageInv'
  BY <1>1, <1>4 DEF HeritageInv
<1>8. LowInv'
  <2>1. ASSUME NEW i \in 0..n, i # n PROVE LowOK(i)'
    <3>1. LowOK(i)
      BY DEF QInv, LowInv
    <3>2. \A k \in 1..i : k \in 1..n /\ k # n
      BY <1>1, <2>1
    <3>3. \A k \in 1..i : stack'[k].low = stack[k].low /\ stack'[k].phase = stack[k].phase
      BY <1>1, <3>2
    <3>4. i \in Nat
      BY <1>1
    <3>5. QED BY <1>2, <2>1, <3>1, <3>3, <3>4, LowKept
  <2>2. QED BY <1>1, <2>1 DEF LowInv
<1>9. KeptComplete'
  <2>1. \A x, v : Complete(x, v)' <=> Complete(x, v)
    BY PureConstant
  <2>2. \A x : Pure(x)' <=> Pure(x)
    BY PureConstant
  <2>3. QED BY <2>1, <2>2 DEF QInv, KeptComplete
<1>10. AnswerClosed' /\ PeelInv'
  <2>1. AnswerClosed'
    BY DEF AnswerClosed
  <2>2. PeelInv'
    BY <1>1 DEF PeelInv, Plain
  <2>3. QED BY <2>1, <2>2
<1>11. QED BY <1>5, <1>6, <1>7, <1>8, <1>9, <1>10 DEF QInv

\* What the frame that replaces it must be.
LEMMA ReplacedFrame ==
    ASSUME IInv, stack # <<>>, program' = program, NEW f, Replaces(f), NEW n, n = Len(stack),
           NEW m, m = IF f.phase = "bases" THEN ctx'.unk ELSE f.heritage,
           NEW open, open = IF f.phase = "bases" THEN ToSet(f.todo) \cup Awaited(want', answer')
                            ELSE {},
           Pure(f.decl) =>
                /\ \A y \in f.val.heirs \ {f.decl} :
                    ToSet(program.bases[y]) \subseteq f.val.heirs \cup Owed(n, m)
                /\ ToSet(program.bases[f.decl]) \subseteq f.val.heirs \cup Owed(n, m) \cup open
    PROVE  FrameClosed(n)'
<1>1. /\ n \in 1..n /\ Len(stack') = n /\ stack'[n] = f
      /\ \A i \in 1..n : stack'[i].decl = stack[i].decl /\ stack'[i].via = stack[i].via
      /\ UnkAt(n)' = ctx'.unk
  BY ReplacedStack DEF IInv
<1>2. HeritageUnk(n)' = m
  BY <1>1 DEF HeritageUnk
<1>3. Pending(n)' = Awaited(want', answer')
  BY <1>1 DEF Pending, Awaited
<1>4. Open(n)' = open
  BY <1>1, <1>3 DEF Open
<1>5. Owed(n, HeritageUnk(n))' = Owed(n, m)
  <2>1. StartOf(n)' = StartOf(n)
    BY <1>1, OwedSame
  <2>2. QED BY <1>1, <1>2, <2>1 DEF Owed
<1>6. Pure(stack[n].decl)' <=> Pure(f.decl)
  BY <1>1 DEF Pure, Line, Quiet, Plain
<1>7. QED BY <1>1, <1>4, <1>5, <1>6 DEF FrameClosed

\* A step that leaves the registers alone and does not end the heritage.
LEMMA RegistersKept ==
    ASSUME IInv, QInv, stack # <<>>, NEW f, Replaces(f), NEW n, n = Len(stack), ctx' = ctx,
           f.phase = "bases" <=> Top.phase = "bases", f.heritage = Top.heritage
    PROVE  LowOK(n)' /\ SavedOK(n)'
<1>1. /\ n \in 1..n /\ n \in Nat /\ stack'[n] = f /\ stack[n] = Top
      /\ \A i \in 1..n : i # n => stack'[i] = stack[i]
      /\ \A i \in 1..n : /\ stack'[i].low = stack[i].low /\ stack'[i].unk = stack[i].unk
                         /\ stack'[i].outer = stack[i].outer
      /\ LowAt(n) = ctx.low /\ UnkAt(n) = ctx.unk
      /\ LowAt(n)' = ctx'.low /\ UnkAt(n)' = ctx'.unk
  BY ReplacedStack DEF IInv
<1>2. n \in 0..Len(stack) /\ LowOK(n) /\ SavedOK(n)
  BY <1>1 DEF QInv, LowInv, SavedInv
<1>3. \A k \in 1..n : stack[k].phase # "bases" => stack'[k].phase # "bases"
  BY <1>1
<1>4. LowAt(n)' = LowAt(n) /\ UnkAt(n)' = UnkAt(n)
  BY <1>1
<1>5. LowOK(n)'
  BY <1>1, <1>2, <1>3, <1>4, LowKept
<1>6. SavedOK(n)'
  BY <1>1, <1>2, <1>4 DEF SavedOK
<1>7. QED BY <1>5, <1>6

\* What is known of the innermost frame.
LEMMA TopClosed ==
    ASSUME IInv, QInv, stack # <<>>, NEW n, n = Len(stack)
    PROVE  /\ n \in 1..n /\ stack \in Seq(AnyFrame) /\ Top \in AnyFrame /\ stack[n] = Top
           /\ Pure(Top.decl) =>
                /\ \A y \in Top.val.heirs \ {Top.decl} :
                    ToSet(program.bases[y]) \subseteq Top.val.heirs \cup Owed(n, HeritageUnk(n))
                /\ ToSet(program.bases[Top.decl])
                    \subseteq Top.val.heirs \cup Owed(n, HeritageUnk(n)) \cup Open(n)
           /\ HeritageUnk(n) = IF Top.phase = "bases" THEN ctx.unk ELSE Top.heritage
           /\ Open(n) = IF Top.phase = "bases" THEN ToSet(Top.todo) \cup Awaited(want, answer)
                        ELSE {}
           /\ (Quiet(Top.decl) /\ program.bases[Top.decl] # <<>> /\ Top.phase # "bases") =>
                /\ want = None /\ answer = None /\ Top.todo = <<>>
                /\ last.low <= Top.heritage
                /\ Top.phase = "sigs" => last.unk = Top.heritage
<1>1. n \in 1..n /\ stack \in Seq(AnyFrame) /\ Top \in AnyFrame /\ stack[n] = Top
  BY TopFrame DEF IInv, Typed
<1>2. FrameClosed(n) /\ HeritageOK(n)
  BY <1>1 DEF QInv, StackClosed, HeritageInv
<1>3. HeritageUnk(n) = IF Top.phase = "bases" THEN ctx.unk ELSE Top.heritage
  BY <1>1 DEF HeritageUnk, UnkAt
<1>4. Open(n) = IF Top.phase = "bases" THEN ToSet(Top.todo) \cup Awaited(want, answer) ELSE {}
  <2>1. Pending(n) = Awaited(want, answer)
    BY <1>1 DEF Pending, Awaited
  <2>2. QED BY <1>1, <2>1 DEF Open
<1>5. QED BY <1>1, <1>2, <1>3, <1>4 DEF FrameClosed, HeritageOK

LEMMA ReferenceClosed ==
    ASSUME IInv, QInv, Reference
    PROVE  QInv'
<1> DEFINE f == [Top EXCEPT !.todo = Tail(@)]
           w == [decl |-> Head(Top.todo), via |-> "named"]
           n == Len(stack)
<1>1. /\ want = None /\ answer = None /\ stack # <<>> /\ Top.todo # <<>>
      /\ want' = w /\ SetTop(f) /\ program' = program /\ memo' = memo /\ interned' = interned
      /\ answer' = None /\ ctx' = ctx
  BY DEF Reference, caches
<1>2. Top \in AnyFrame /\ Top.todo \in Seq(Decl)
  BY <1>1, TopFrame DEF IInv, Typed, AnyFrame
<1>3. /\ Head(Top.todo) \in Decl /\ Tail(Top.todo) \in Seq(Decl)
      /\ ToSet(Top.todo) = {Head(Top.todo)} \cup ToSet(Tail(Top.todo))
  BY <1>1, <1>2, HeadAndTail
<1>4. w \in Ref /\ w # None /\ w.decl = Head(Top.todo) /\ w.via = "named"
  BY <1>3, NotNone
<1>5. /\ Replaces(f) /\ f.phase = Top.phase /\ f.heritage = Top.heritage
      /\ f.val = Top.val /\ f.todo = Tail(Top.todo) /\ f.decl = Top.decl
  BY <1>1, <1>2, <1>3 DEF AnyFrame, Replaces
<1>6. Awaited(want', answer') = {Head(Top.todo)} /\ Awaited(want, answer) = {}
  BY <1>1, <1>4, AwaitedCases
<1> HIDE DEF f, w
<1> DEFINE m == IF f.phase = "bases" THEN ctx'.unk ELSE f.heritage
           open == IF f.phase = "bases" THEN ToSet(f.todo) \cup Awaited(want', answer') ELSE {}
<1>7. m = HeritageUnk(n) /\ open = Open(n)
  BY <1>1, <1>3, <1>5, <1>6, TopClosed
<1>8. Pure(f.decl) =>
        /\ \A y \in f.val.heirs \ {f.decl} :
            ToSet(program.bases[y]) \subseteq f.val.heirs \cup Owed(n, m)
        /\ ToSet(program.bases[f.decl]) \subseteq f.val.heirs \cup Owed(n, m) \cup open
  BY <1>1, <1>5, <1>7, TopClosed
<1> HIDE DEF m, open
<1>9. ASSUME NEW k, k = n PROVE QInv'
  <2>1. FrameClosed(k)'
    BY <1>1, <1>5, <1>8, <1>9, ReplacedFrame DEF m, open
  <2>2. LowOK(k)' /\ SavedOK(k)'
    BY <1>1, <1>5, <1>9, RegistersKept
  <2>3. HeritageOK(k)'
    <3>1. stack'[k] = f
      BY <1>1, <1>5, <1>9, ReplacedStack DEF IInv
    <3>2. ~(Quiet(Top.decl) /\ program.bases[Top.decl] # <<>> /\ Top.phase # "bases")
      BY <1>1, TopClosed
    <3>3. QED BY <1>1, <1>5, <3>1, <3>2 DEF HeritageOK, Quiet, Plain
  <2>4. QED BY <1>1, <1>4, <1>5, <1>9, <2>1, <2>2, <2>3, ReplacedClosed
<1>10. QED BY <1>9

LEMMA AbsorbBaseClosed ==
    ASSUME IInv, QInv, AbsorbBase
    PROVE  QInv'
<1> DEFINE n == Len(stack)
           d == Top.decl
           b == answer.decl
<1>1. /\ answer # None /\ stack # <<>> /\ Top.phase = "bases" /\ answer' = None
      /\ program' = program /\ memo' = memo /\ interned' = interned /\ ctx' = ctx
  BY DEF AbsorbBase, caches
<1>2. /\ want = None /\ answer \in Answer /\ b \in Decl /\ answer.err \in BOOLEAN
      /\ SoundAnswer(answer)
  BY <1>1 DEF IInv, KeptSound, Typed, Answer
<1>3. /\ Top \in AnyFrame /\ d \in Decl /\ Top.val \in Value
  BY <1>1, TopFrame DEF IInv, Typed, AnyFrame
<1>4. /\ HeritageUnk(n) = ctx.unk /\ Open(n) = ToSet(Top.todo) \cup {b}
      /\ Pure(d) =>
            /\ \A y \in Top.val.heirs \ {d} :
                ToSet(program.bases[y]) \subseteq Top.val.heirs \cup Owed(n, ctx.unk)
            /\ ToSet(program.bases[d]) \subseteq Top.val.heirs \cup Owed(n, ctx.unk)
                                                   \cup ToSet(Top.todo) \cup {b}
  <2>1. Awaited(want, answer) = {b}
    BY <1>1, <1>2, AwaitedCases
  <2>2. QED BY <1>1, <2>1, TopClosed
<1>5. d \in Top.val.heirs /\ b \in ToSet(program.bases[d]) /\ (Pure(d) => Pure(b))
  <2>1. FrameOK(Top, {b})
    BY <1>1, <1>2, TopSound, AwaitedCases
  <2>2. d \in Top.val.heirs /\ b \in ToSet(program.bases[d])
    BY <1>1, <2>1 DEF FrameOK
  <2>3. QED BY <1>3, <2>2, PureFacts DEF IInv
<1>6. CASE answer.ty = "lazy"
  <2> DEFINE w == [decl |-> b, via |-> "peel"]
             f == Top
  <2>1. want' = w /\ stack' = stack
    BY <1>6 DEF AbsorbBase
  <2>2. w \in Ref /\ w # None /\ w.decl = b /\ w.via = "peel"
    BY <1>2, NotNone
  <2> HIDE DEF w
  <2>3. Awaited(want', answer') = {b}
    BY <1>1, <2>1, <2>2, AwaitedCases
  <2>4. b \notin Plain => b = d
    BY <1>1, <1>6 DEF QInv, PeelInv
  <2>5. Replaces(f)
    <3>1. stack' = [stack EXCEPT ![n] = Top]
      BY <2>1, <1>1 DEF IInv, Typed, Top
    <3>2. QED BY <1>3, <3>1 DEF Replaces, SetTop
  <2> DEFINE m == IF f.phase = "bases" THEN ctx'.unk ELSE f.heritage
             open == IF f.phase = "bases" THEN ToSet(f.todo) \cup Awaited(want', answer') ELSE {}
  <2>6. Pure(f.decl) =>
        /\ \A y \in f.val.heirs \ {f.decl} :
            ToSet(program.bases[y]) \subseteq f.val.heirs \cup Owed(n, m)
        /\ ToSet(program.bases[f.decl]) \subseteq f.val.heirs \cup Owed(n, m) \cup open
    BY <1>1, <1>4, <2>3
  <2> HIDE DEF m, open
  <2>7. ASSUME NEW k, k = n PROVE QInv'
    <3>1. FrameClosed(k)'
      BY <1>1, <2>5, <2>6, <2>7, ReplacedFrame DEF m, open
    <3>2. LowOK(k)' /\ SavedOK(k)'
      BY <1>1, <2>5, <2>7, RegistersKept
    <3>3. HeritageOK(k)'
      <4>1. stack'[k].phase = "bases"
        BY <1>1, <2>5, <2>7, ReplacedStack DEF IInv
      <4>2. QED BY <4>1 DEF HeritageOK
    <3>4. (want' # None /\ want'.via = "peel" /\ want'.decl \notin Plain) => want'.decl = Top.decl
      BY <2>1, <2>2, <2>4
    <3>5. QED BY <1>1, <2>5, <2>7, <3>1, <3>2, <3>3, <3>4, ReplacedClosed
  <2>8. QED BY <2>7
<1>7. CASE answer.ty # "lazy"
  <2> DEFINE f == [Top EXCEPT !.val = Inherited(@, answer), !.err = @ \/ answer.err]
  <2>1. want' = None /\ SetTop(f)
    BY <1>7 DEF AbsorbBase
  <2>2. /\ f.decl = d /\ f.via = Top.via /\ f.phase = "bases" /\ f.todo = Top.todo
        /\ f.val = Inherited(Top.val, answer) /\ f.heritage = Top.heritage
        /\ f.low = Top.low /\ f.unk = Top.unk /\ f.outer = Top.outer
        /\ f.val \in Value => f \in AnyFrame
    BY <1>1, <1>2, <1>3 DEF AnyFrame
  <2> HIDE DEF f
  <2>3. f.val \in Value
    BY <1>1, <1>2, <1>7, <2>2, InheritedSound
  <2>4. Replaces(f)
    BY <2>1, <2>2, <2>3 DEF Replaces
  <2>5. Awaited(want', answer') = {}
    BY <1>1, <2>1, AwaitedCases
  <2>6. ASSUME Pure(d)
        PROVE  /\ \A y \in f.val.heirs \ {d} :
                    ToSet(program.bases[y]) \subseteq f.val.heirs \cup Owed(n, ctx.unk)
               /\ ToSet(program.bases[d])
                    \subseteq f.val.heirs \cup Owed(n, ctx.unk) \cup ToSet(Top.todo)
    <3>1. CASE answer.ty = "unknown"
      <4>1. f.val.heirs = Top.val.heirs
        BY <1>3, <2>2, <3>1 DEF Inherited, Value
      <4>2. b \in Owed(n, ctx.unk) \cup {d}
        BY <1>1, <1>5, <2>6, <3>1 DEF QInv, AnswerClosed
      <4>3. QED BY <1>4, <1>5, <2>6, <4>1, <4>2
    <3>2. CASE answer.ty = "object"
      <4>1. f.val.heirs = Top.val.heirs \cup answer.val.heirs
        BY <2>2, <3>2 DEF Inherited
      <4>2. ClosedBut(answer.val, Owed(n, ctx.unk))
        BY <1>1, <1>5, <2>6, <3>2 DEF QInv, AnswerClosed
      <4>3. b \in answer.val.heirs
        BY <1>2, <3>2 DEF SoundAnswer, Sound
      <4>4. QED BY <1>4, <2>6, <4>1, <4>2, <4>3 DEF ClosedBut
    <3>3. QED BY <1>2, <1>7, <3>1, <3>2 DEF Answer
  <2> DEFINE m == IF f.phase = "bases" THEN ctx'.unk ELSE f.heritage
             open == IF f.phase = "bases" THEN ToSet(f.todo) \cup Awaited(want', answer') ELSE {}
  <2>7. Pure(f.decl) =>
        /\ \A y \in f.val.heirs \ {f.decl} :
            ToSet(program.bases[y]) \subseteq f.val.heirs \cup Owed(n, m)
        /\ ToSet(program.bases[f.decl]) \subseteq f.val.heirs \cup Owed(n, m) \cup open
    BY <1>1, <2>2, <2>5, <2>6
  <2> HIDE DEF m, open
  <2>8. ASSUME NEW k, k = n PROVE QInv'
    <3>1. FrameClosed(k)'
      BY <1>1, <2>4, <2>7, <2>8, ReplacedFrame DEF m, open
    <3>2. LowOK(k)' /\ SavedOK(k)'
      BY <1>1, <2>2, <2>4, <2>8, RegistersKept
    <3>3. HeritageOK(k)'
      <4>1. stack'[k].phase = "bases"
        BY <1>1, <2>2, <2>4, <2>8, ReplacedStack DEF IInv
      <4>2. QED BY <4>1 DEF HeritageOK
    <3>4. QED BY <1>1, <2>1, <2>4, <2>8, <3>1, <3>2, <3>3, ReplacedClosed
  <2>9. QED BY <2>8
<1>8. QED BY <1>6, <1>7

LEMMA AbsorbMemberClosed ==
    ASSUME IInv, QInv, AbsorbMember
    PROVE  QInv'
<1> DEFINE cut == IF answer.ty = "unknown" THEN {<<Top.decl, answer.decl>>} ELSE {}
           v == [Top.val EXCEPT !.cut = @ \cup cut]
           f == [Top EXCEPT !.val = v, !.err = @ \/ answer.err]
           n == Len(stack)
<1>1. /\ answer # None /\ stack # <<>> /\ Top.phase # "bases" /\ answer' = None
      /\ program' = program /\ memo' = memo /\ interned' = interned /\ ctx' = ctx
      /\ want' = want /\ SetTop(f)
  BY DEF AbsorbMember, caches
<1>2. want = None /\ answer \in Answer /\ answer.decl \in Decl /\ answer.err \in BOOLEAN
  BY <1>1 DEF IInv, KeptSound, Typed, Answer
<1>3. Top \in AnyFrame /\ Top.val \in Value /\ Top.decl \in Decl
  BY <1>1, TopFrame DEF IInv, Typed, AnyFrame
<1>4. cut \subseteq Decl \X Decl
  BY <1>2, <1>3
<1> HIDE DEF cut
<1>5. v \in Value /\ v.heirs = Top.val.heirs
  BY <1>3, <1>4 DEF Value
<1> HIDE DEF v
<1>6. /\ Replaces(f) /\ f.decl = Top.decl /\ f.phase = Top.phase
      /\ f.heritage = Top.heritage /\ f.val.heirs = Top.val.heirs
  BY <1>1, <1>2, <1>3, <1>5 DEF AnyFrame, Replaces
<1> HIDE DEF f
<1> DEFINE m == IF f.phase = "bases" THEN ctx'.unk ELSE f.heritage
           open == IF f.phase = "bases" THEN ToSet(f.todo) \cup Awaited(want', answer') ELSE {}
<1>7. m = HeritageUnk(n) /\ open = Open(n)
  BY <1>1, <1>6, TopClosed
<1>8. Pure(f.decl) =>
        /\ \A y \in f.val.heirs \ {f.decl} :
            ToSet(program.bases[y]) \subseteq f.val.heirs \cup Owed(n, m)
        /\ ToSet(program.bases[f.decl]) \subseteq f.val.heirs \cup Owed(n, m) \cup open
  BY <1>1, <1>6, <1>7, TopClosed
<1> HIDE DEF m, open
<1>9. ASSUME NEW k, k = n PROVE QInv'
  <2>1. FrameClosed(k)'
    BY <1>1, <1>6, <1>8, <1>9, ReplacedFrame DEF m, open
  <2>2. LowOK(k)' /\ SavedOK(k)'
    BY <1>1, <1>6, <1>9, RegistersKept
  <2>3. HeritageOK(k)'
    <3>1. stack'[k] = f
      BY <1>1, <1>6, <1>9, ReplacedStack DEF IInv
    <3>2. ~(Quiet(Top.decl) /\ program.bases[Top.decl] # <<>> /\ Top.phase # "bases")
      BY <1>1, TopClosed
    <3>3. QED BY <1>1, <1>6, <3>1, <3>2 DEF HeritageOK, Quiet, Plain
  <2>4. QED BY <1>1, <1>2, <1>6, <1>9, <2>1, <2>2, <2>3, ReplacedClosed
<1>10. QED BY <1>9

LEMMA EndMembersClosed ==
    ASSUME IInv, QInv, EndMembers
    PROVE  QInv'
<1> DEFINE f == [Top EXCEPT !.phase = "sigs", !.todo = program.sigs[Top.decl]]
           n == Len(stack)
<1>1. /\ want = None /\ answer = None /\ stack # <<>> /\ Top.phase = "members"
      /\ program' = program /\ memo' = memo /\ interned' = interned /\ ctx' = ctx
      /\ want' = want /\ answer' = answer /\ SetTop(f)
      /\ last' = [last EXCEPT !.open = Top.val.open, !.unk = Top.heritage]
  BY DEF EndMembers, PhaseOver, caches
<1>2. Top \in AnyFrame /\ Top.decl \in Decl /\ last \in [low : Int, unk : Int, open : BOOLEAN]
  BY <1>1, TopFrame DEF IInv, Typed, AnyFrame
<1>3. program.sigs[Top.decl] \in Seq(Decl)
  BY <1>2 DEF IInv, Typed
<1>4. /\ Replaces(f) /\ f.phase = "sigs" /\ f.heritage = Top.heritage
      /\ f.val = Top.val /\ f.todo = program.sigs[Top.decl] /\ f.decl = Top.decl
  BY <1>1, <1>2, <1>3 DEF AnyFrame, Replaces
<1>5. last'.low = last.low /\ last'.unk = Top.heritage
  BY <1>1, <1>2
<1> HIDE DEF f
<1> DEFINE m == IF f.phase = "bases" THEN ctx'.unk ELSE f.heritage
           open == IF f.phase = "bases" THEN ToSet(f.todo) \cup Awaited(want', answer') ELSE {}
<1>6. m = HeritageUnk(n) /\ open = Open(n)
  BY <1>1, <1>4, TopClosed
<1>7. Pure(f.decl) =>
        /\ \A y \in f.val.heirs \ {f.decl} :
            ToSet(program.bases[y]) \subseteq f.val.heirs \cup Owed(n, m)
        /\ ToSet(program.bases[f.decl]) \subseteq f.val.heirs \cup Owed(n, m) \cup open
  BY <1>1, <1>4, <1>6, TopClosed
<1> HIDE DEF m, open
<1>8. ASSUME NEW k, k = n PROVE QInv'
  <2>1. FrameClosed(k)'
    BY <1>1, <1>4, <1>7, <1>8, ReplacedFrame DEF m, open
  <2>2. LowOK(k)' /\ SavedOK(k)'
    BY <1>1, <1>4, <1>8, RegistersKept
  <2>3. HeritageOK(k)'
    <3>1. stack'[k] = f /\ Len(stack') = k
      BY <1>1, <1>4, <1>8, ReplacedStack DEF IInv
    <3>2. (Quiet(f.decl) /\ program.bases[f.decl] # <<>>) =>
            f.todo = <<>> /\ last'.low <= f.heritage /\ last'.unk = f.heritage
      BY <1>1, <1>4, <1>5, TopClosed DEF Quiet
    <3>3. QED BY <1>1, <1>4, <3>1, <3>2 DEF HeritageOK, Quiet, Plain
  <2>4. QED BY <1>1, <1>4, <1>8, <2>1, <2>2, <2>3, ReplacedClosed
<1>9. QED BY <1>8

\* The heritage is done: its register becomes the frame's, and what the frames
\* below met as unknown is merged into the context's.
LEMMA EndBasesClosed ==
    ASSUME IInv, QInv, EndBases
    PROVE  QInv'
<1> DEFINE f == [Top EXCEPT !.phase = "members", !.todo = program.members[Top.decl],
                            !.heritage = ctx.unk]
           n == Len(stack)
<1>1. /\ want = None /\ answer = None /\ stack # <<>> /\ Top.phase = "bases" /\ Top.todo = <<>>
      /\ program' = program /\ memo' = memo /\ interned' = interned
      /\ want' = want /\ answer' = answer /\ SetTop(f)
      /\ last' = [last EXCEPT !.low = ctx.low]
      /\ ctx' = [ctx EXCEPT !.unk = Least(Top.unk, @)]
  BY DEF EndBases, PhaseOver, caches
<1>2. /\ Top \in AnyFrame /\ Top.decl \in Decl /\ last \in [low : Int, unk : Int, open : BOOLEAN]
      /\ ctx \in AnyContext /\ ctx.unk \in Int /\ ctx.low \in Int /\ Top.unk \in Int /\ Top.low \in Int
  BY <1>1, TopFrame DEF IInv, Typed, AnyFrame, AnyContext
<1>3. program.members[Top.decl] \in Seq(Decl)
  BY <1>2 DEF IInv, Typed
<1>4. /\ Replaces(f) /\ f.phase = "members" /\ f.heritage = ctx.unk
      /\ f.val = Top.val /\ f.todo = program.members[Top.decl] /\ f.decl = Top.decl
      /\ f.low = Top.low /\ f.unk = Top.unk
  BY <1>1, <1>2, <1>3 DEF AnyFrame, Replaces
<1>5. last'.low = ctx.low
  BY <1>1, <1>2
<1>6. /\ ctx'.low = ctx.low /\ ctx'.unk = Least(Top.unk, ctx.unk)
      /\ ctx'.unk = Top.unk \/ ctx'.unk = ctx.unk
      /\ ctx'.unk <= Top.unk /\ ctx'.unk <= ctx.unk
  BY <1>1, <1>2 DEF AnyContext, Least
<1> HIDE DEF f
<1> DEFINE m == IF f.phase = "bases" THEN ctx'.unk ELSE f.heritage
           open == IF f.phase = "bases" THEN ToSet(f.todo) \cup Awaited(want', answer') ELSE {}
<1>7. m = HeritageUnk(n) /\ Open(n) = {}
  <2>1. Awaited(want, answer) = {} /\ ToSet(Top.todo) = {}
    BY <1>1, AwaitedCases DEF ToSet
  <2>2. QED BY <1>1, <1>4, <2>1, TopClosed
<1>8. Pure(f.decl) =>
        /\ \A y \in f.val.heirs \ {f.decl} :
            ToSet(program.bases[y]) \subseteq f.val.heirs \cup Owed(n, m)
        /\ ToSet(program.bases[f.decl]) \subseteq f.val.heirs \cup Owed(n, m) \cup open
  BY <1>1, <1>4, <1>7, TopClosed
<1> HIDE DEF m, open
<1>9. ASSUME NEW k, k = n PROVE QInv'
  <2>1. FrameClosed(k)'
    BY <1>1, <1>4, <1>8, <1>9, ReplacedFrame DEF m, open
  <2>2. /\ k \in 1..k /\ k \in Nat /\ stack'[k] = f /\ Len(stack') = k /\ stack[k] = Top
        /\ \A i \in 1..k : i # k => stack'[i] = stack[i]
        /\ \A i \in 1..k : stack'[i].low = stack[i].low /\ stack'[i].outer = stack[i].outer
        /\ LowAt(k) = ctx.low /\ UnkAt(k) = ctx.unk
        /\ LowAt(k)' = ctx'.low /\ UnkAt(k)' = ctx'.unk
    BY <1>1, <1>4, <1>9, ReplacedStack DEF IInv
  <2>3. ctx.low <= ctx.unk
    <3>1. LowOK(k)
      BY <1>9, <2>2 DEF QInv, LowInv
    <3>2. \A j \in 1..k : k \in j..k
      BY <2>2
    <3>3. QED BY <1>1, <2>2, <3>1, <3>2 DEF LowOK
  <2>4. LowOK(k)'
    <3>1. CASE ctx'.unk = ctx.unk
      BY <1>6, <2>2, <2>3, <3>1 DEF LowOK
    <3>2. CASE ctx'.unk = Top.unk
      <4>1. ASSUME NEW i, i = k - 1
            PROVE \E j \in 1..k : (\A x \in j..i : stack[x].phase # "bases")
                                   /\ stack[j].low <= Top.unk
        <5>1. i \in 0..n /\ i < n /\ i + 1 = k
          BY <1>9, <2>2, <4>1
        <5>2. LowOK(i) /\ LowAt(i) = Top.low /\ UnkAt(i) = Top.unk
          BY <2>2, <5>1 DEF QInv, LowInv, LowAt, UnkAt
        <5>3. CASE Top.low <= Top.unk
          <6>1. \A x \in k..i : FALSE
            BY <2>2, <4>1
          <6>2. QED BY <2>2, <5>3, <6>1
        <5>4. CASE ~(Top.low <= Top.unk)
          <6>1. \A j \in 1..i : j \in 1..k
            BY <2>2, <4>1
          <6>2. QED BY <5>2, <5>4, <6>1 DEF LowOK
        <5>5. QED BY <5>3, <5>4
      <4>2. PICK j \in 1..k : (\A x \in j..(k - 1) : stack[x].phase # "bases")
                              /\ stack[j].low <= Top.unk
        BY <4>1
      <4>3. \A x \in j..k : stack'[x].phase # "bases"
        <5>1. \A x \in j..k : x = k \/ (x \in j..(k - 1) /\ x \in 1..k /\ x # k)
          BY <2>2
        <5>2. QED BY <1>4, <2>2, <4>2, <5>1
      <4>4. stack'[j].low <= UnkAt(k)'
        BY <2>2, <3>2, <4>2
      <4>5. QED BY <4>3, <4>4 DEF LowOK
    <3>3. QED BY <1>6, <3>1, <3>2
  <2>5. SavedOK(k)'
    <3>1. SavedOK(k)
      BY <1>9, <2>2 DEF QInv, SavedInv
    <3>2. QED BY <1>4, <1>6, <2>2, <3>1 DEF SavedOK
  <2>6. HeritageOK(k)'
    <3>1. (Quiet(f.decl) /\ program.bases[f.decl] # <<>>) => f.todo = <<>>
      BY <1>4 DEF Quiet
    <3>2. last'.low <= f.heritage
      BY <1>4, <1>5, <2>3
    <3>3. QED BY <1>1, <1>4, <2>2, <3>1, <3>2 DEF HeritageOK, Quiet, Plain
  <2>7. QED BY <1>1, <1>4, <1>9, <2>1, <2>4, <2>5, <2>6, ReplacedClosed
<1>10. QED BY <1>9

-----------------------------------------------------------------------------
(* Frames come and go. *)

LEMMA ExpandClosed ==
    ASSUME IInv, QInv, NEW d \in Decl, NEW how \in {"named", "peel"}, Expand(d, how)
    PROVE  QInv'
<1> DEFINE v == [NoMembers EXCEPT !.heirs = {d}]
           f == [decl |-> d, via |-> how, phase |-> "bases", todo |-> program.bases[d],
                 val |-> v, err |-> FALSE, taint |-> {},
                 low |-> ctx.low, unk |-> ctx.unk, heritage |-> Unset, outer |-> ctx]
           n == Len(stack)
<1>1. /\ want' = None /\ answer' = answer /\ stack' = Append(stack, f)
      /\ program' = program /\ memo' = memo /\ interned' = interned
      /\ ctx' = IF how = "peel" THEN FreshContext
                ELSE [ctx EXCEPT !.low = Unset, !.unk = Unset]
  BY DEF Expand
<1>2. want \in Ref /\ want.decl = d /\ want # None
  <2>1. Wanted(d, "named") \/ Wanted(d, "peel")
    BY DEF Expand, Expandable, Unresolved
  <2>2. QED BY <2>1, NotNone
<1>3. /\ answer = None /\ stack \in Seq(AnyFrame) /\ ctx \in AnyContext /\ n \in Nat
      /\ program.bases[d] \in Seq(Decl)
  BY <1>2 DEF IInv, KeptSound, Typed
<1>4. ctx'.low = Unset /\ ctx'.unk = Unset /\ Unset \in Int
  BY <1>1, <1>3, UnsetInt DEF AnyContext, FreshContext
<1>5. v \in Value /\ v.heirs = {d}
  BY DEF NoMembers, Value
<1> HIDE DEF v
<1>6. /\ f \in AnyFrame /\ f.decl = d /\ f.phase = "bases" /\ f.todo = program.bases[d]
      /\ f.val = v /\ f.low = ctx.low /\ f.unk = ctx.unk /\ f.outer = ctx
  <2>1. ctx.low \in Int /\ ctx.unk \in Int
    BY <1>3 DEF AnyContext
  <2>2. QED BY <1>3, <1>4, <1>5, <2>1 DEF AnyFrame
<1> HIDE DEF f
<1>7. /\ stack' \in Seq(AnyFrame) /\ Len(stack') = n + 1
      /\ \A i \in 1..n : stack'[i] = stack[i]
      /\ stack'[n + 1] = f
  BY <1>1, <1>3, <1>6, AppendProperties
\* The registers of the frames that were open are saved.
<1>8. ASSUME NEW i \in 0..n PROVE LowAt(i)' = LowAt(i) /\ UnkAt(i)' = UnkAt(i)
  <2>1. CASE i = n
    <3>1. LowAt(i) = ctx.low /\ UnkAt(i) = ctx.unk
      BY <1>3, <2>1 DEF LowAt, UnkAt
    <3>2. LowAt(i)' = ctx.low /\ UnkAt(i)' = ctx.unk
      BY <1>3, <1>6, <1>7, <2>1 DEF LowAt, UnkAt
    <3>3. QED BY <3>1, <3>2
  <2>2. CASE i # n
    <3>1. i < n /\ i < n + 1 /\ i + 1 \in 1..n
      BY <1>3, <2>2
    <3>2. QED BY <1>7, <3>1 DEF LowAt, UnkAt
  <2>3. QED BY <2>1, <2>2
<1>9. ASSUME NEW i \in 1..n PROVE FrameClosed(i)' /\ SavedOK(i)' /\ HeritageOK(i)'
  <2>1. i \in 0..n /\ stack'[i] = stack[i] /\ UnkAt(i)' = UnkAt(i)
    BY <1>3, <1>7, <1>8
  <2>2. HeritageUnk(i)' = HeritageUnk(i) /\ HeritageUnk(i) \in Int
    BY <2>1, RegisterTypes DEF HeritageUnk, IInv
  <2>3. Pending(i)' = Pending(i)
    <3>1. CASE i = n
      <4>1. Pending(i)' = {d}
        BY <1>3, <1>6, <1>7, <3>1 DEF Pending
      <4>2. {want, answer} \ {None} = {want} /\ ~(i < n)
        BY <1>2, <1>3, <3>1
      <4>3. QED BY <1>2, <4>1, <4>2 DEF Pending
    <3>2. CASE i # n
      <4>1. i < n /\ i < n + 1 /\ i + 1 \in 1..n
        BY <1>3, <3>2
      <4>2. QED BY <1>7, <4>1 DEF Pending
    <3>3. QED BY <3>1, <3>2
  <2>4. FrameClosed(i)'
    <3>1. \A j \in 1..i : j \in 1..n
      BY <1>3
    <3>2. \A j \in 1..i : stack'[j].decl = stack[j].decl /\ stack'[j].via = stack[j].via
      BY <1>7, <3>1
    <3>3. PICK m \in Int : HeritageUnk(i) = m /\ HeritageUnk(i)' = m /\ m <= m
      BY <2>2
    <3>4. FrameClosed(i)
      BY DEF QInv, StackClosed
    <3>5. QED BY <1>1, <1>3, <2>1, <2>3, <3>2, <3>3, <3>4, ClosedKept
  <2>5. SavedOK(i)'
    BY <2>1 DEF QInv, SavedInv, SavedOK
  <2>6. ~(Quiet(stack[i].decl) /\ program.bases[stack[i].decl] # <<>> /\ stack[i].phase # "bases")
    BY <1>2 DEF QInv, HeritageInv, HeritageOK
  <2>7. HeritageOK(i)'
    BY <1>1, <2>1, <2>6 DEF HeritageOK, Quiet, Plain
  <2>8. QED BY <2>4, <2>5, <2>7
<1>10. ASSUME NEW i, i = n + 1 PROVE FrameClosed(i)' /\ SavedOK(i)' /\ HeritageOK(i)' /\ LowOK(i)'
  <2>1. stack'[i] = f /\ Len(stack') = i /\ i \in Nat
    BY <1>3, <1>7, <1>10
  <2>2. Pending(i)' = {}
    <3>1. {want', answer'} \ {None} = {}
      BY <1>1, <1>3
    <3>2. QED BY <2>1, <3>1 DEF Pending
  <2>3. Open(i)' = ToSet(program.bases[d])
    BY <1>6, <2>1, <2>2 DEF Open
  <2>4. FrameClosed(i)'
    BY <1>1, <1>5, <1>6, <2>1, <2>3 DEF FrameClosed
  <2>5. SavedOK(i)' /\ HeritageOK(i)'
    BY <1>6, <2>1 DEF SavedOK, HeritageOK
  <2>6. LowAt(i)' = Unset /\ UnkAt(i)' = Unset
    BY <1>4, <2>1 DEF LowAt, UnkAt
  <2>7. QED BY <1>4, <2>4, <2>5, <2>6 DEF LowOK
<1>11. \A i \in 1..Len(stack') : i \in 1..n \/ i = n + 1
  BY <1>3, <1>7
<1>12. StackClosed' /\ SavedInv' /\ HeritageInv'
  BY <1>9, <1>10, <1>11 DEF StackClosed, SavedInv, HeritageInv
<1>13. LowInv'
  <2>1. ASSUME NEW i \in 0..n PROVE LowOK(i)'
    <3>1. LowOK(i) /\ i \in Nat
      BY <1>3 DEF QInv, LowInv
    <3>2. \A k \in 1..i : k \in 1..n
      BY <1>3
    <3>3. \A k \in 1..i : stack'[k].low = stack[k].low /\ stack'[k].phase = stack[k].phase
      BY <1>7, <3>2
    <3>4. QED BY <1>8, <3>1, <3>3, LowKept
  <2>2. \A i \in 0..Len(stack') : i \in 0..n \/ i = n + 1
    BY <1>3, <1>7
  <2>3. QED BY <1>10, <2>1, <2>2 DEF LowInv
<1>14. KeptComplete'
  <2>1. \A x, u : Complete(x, u)' <=> Complete(x, u)
    BY <1>1, PureConstant
  <2>2. \A x : Pure(x)' <=> Pure(x)
    BY <1>1, PureConstant
  <2>3. QED BY <1>1, <2>1, <2>2 DEF QInv, KeptComplete
<1>15. AnswerClosed' /\ PeelInv'
  BY <1>1, <1>3 DEF AnswerClosed, PeelInv
<1>16. QED BY <1>12, <1>13, <1>14, <1>15 DEF QInv

\* What the innermost expansion has when it finishes: it lacks nothing if it may
\* be kept, and else only what is open below it.
LEMMA FinishedValue ==
    ASSUME IInv, QInv, stack # <<>>, Top.phase = "sigs", Pure(Top.decl), NEW n, n = Len(stack)
    PROVE  /\ ClosedBut(Top.val, Owed(n, Top.heritage))
           /\ (Storable(Top) \/ Cacheable(Top) \/ Top.via = "peel") => Complete(Top.decl, Top.val)
<1> DEFINE d == Top.decl
           v == Top.val
<1>1. /\ n \in 1..n /\ stack \in Seq(AnyFrame) /\ stack[n] = Top /\ n \in Nat
      /\ \A y \in v.heirs \ {d} : ToSet(program.bases[y]) \subseteq v.heirs \cup Owed(n, Top.heritage)
      /\ ToSet(program.bases[d]) \subseteq v.heirs \cup Owed(n, Top.heritage)
      /\ (Quiet(d) /\ program.bases[d] # <<>>) =>
            last.low <= Top.heritage /\ last.unk = Top.heritage
  BY TopClosed
<1>2. Top.heritage \in Int /\ d \in Decl /\ last.low \in Int /\ last.unk \in Int
  BY <1>1, TopFrame DEF IInv, Typed, AnyFrame
<1>3. d \in v.heirs /\ v.heirs \subseteq Line(d)
  BY TopSound DEF FrameOK
<1>4. ClosedBut(v, Owed(n, Top.heritage))
  BY <1>1 DEF ClosedBut
<1>5. ASSUME Storable(Top) \/ Cacheable(Top) \/ Top.via = "peel" PROVE Complete(d, v)
  <2>1. CASE program.bases[d] = <<>>
    BY <1>2, <1>3, <2>1, BaselessComplete DEF IInv
  <2>2. CASE program.bases[d] # <<>>
    <3>1. last.low <= Top.heritage /\ last.unk = Top.heritage
      BY <1>1, <1>2, <2>2, PureFacts DEF IInv
    <3>2. Depth = n + 1 - StartOf(n) /\ StartOf(n) \in Int
      BY <1>1, SegmentIsStart, StartFacts DEF Depth
    <3>3. Top.heritage + 1 >= n + 1 - StartOf(n) \/ stack[n].via = "peel"
      BY <1>1, <1>2, <1>5, <3>1, <3>2 DEF Storable, Cacheable
    <3>4. Owed(n, Top.heritage) \subseteq {d}
      BY <1>1, <1>2, <3>3, OwedByTop
    <3>5. ClosedBut(v, {})
      BY <1>3, <1>4, <3>4, ClosedWeakens
    <3>6. QED BY <1>2, <1>3, <3>5, ClosedIsComplete DEF IInv
  <2>3. QED BY <2>1, <2>2
<1>6. QED BY <1>4, <1>5

LEMMA FinishClosed ==
    ASSUME IInv, QInv, Finish
    PROVE  QInv'
<1> DEFINE f == Top
           d == f.decl
           v == f.val
           e == f.err
           c == Cacheable(f)
           n == Len(stack)
           how == f.via
           rest == Front(stack)
<1>1. /\ want = None /\ answer = None /\ stack # <<>> /\ f.phase = "sigs"
      /\ memo' = IF Storable(f) THEN [memo EXCEPT ![d] = Object(d, v, e)] ELSE memo
      /\ ctx' = IF how = "peel" THEN f.outer ELSE [ctx EXCEPT !.low = Least(f.low, @)]
      /\ Completed(d, how, v, e, c, rest)
      /\ program' = program
  BY DEF Finish, PhaseOver
<1>2. /\ n \in 1..n /\ n \in Nat /\ stack[n] = f /\ stack \in Seq(AnyFrame)
      /\ d \in Decl /\ v \in Value /\ e \in BOOLEAN /\ how \in {"named", "peel"}
      /\ f.low \in Int /\ f.unk \in Int /\ f.heritage \in Int /\ f.outer \in AnyContext
      /\ ctx \in AnyContext /\ ctx.low \in Int /\ ctx.unk \in Int
  <2>1. n \in 1..n /\ n \in Nat /\ stack[n] = f /\ stack \in Seq(AnyFrame) /\ f \in AnyFrame
    BY <1>1, TopFrame DEF IInv, Typed
  <2>2. ctx \in AnyContext /\ ctx.low \in Int /\ ctx.unk \in Int
    BY DEF IInv, Typed, AnyContext
  <2>3. QED BY <2>1, <2>2 DEF AnyFrame
<1>3. /\ rest \in Seq(AnyFrame) /\ Len(rest) = n - 1
      /\ \A i \in 1..(n - 1) : rest[i] = stack[i]
  BY <1>1, <1>2, TopRemoved
<1>4. Sound(d, v)
  BY <1>1, TopSound DEF FrameOK
<1>5. Typed /\ KeptSound /\ KeptComplete
  BY DEF IInv, QInv
<1>6. Pure(d) => /\ ClosedBut(v, Owed(n, f.heritage))
                 /\ (Storable(f) \/ c \/ how = "peel") => Complete(d, v)
  BY <1>1, FinishedValue
<1>7. /\ f.outer.low = f.low /\ f.outer.unk = f.unk
      /\ ctx.unk <= f.unk /\ ctx.unk <= f.heritage
  <2>1. SavedOK(n) /\ UnkAt(n) = ctx.unk
    BY <1>2 DEF QInv, SavedInv, UnkAt
  <2>2. QED BY <1>1, <1>2, <2>1 DEF SavedOK
<1>8. /\ how = "peel" => ctx'.low = f.low /\ ctx'.unk = f.unk
      /\ how # "peel" => /\ ctx'.unk = ctx.unk /\ ctx'.low <= f.low /\ ctx'.low <= ctx.low
      /\ ctx'.low \in Int /\ ctx'.unk \in Int /\ ctx'.unk <= f.unk
  BY <1>1, <1>2, <1>7 DEF AnyContext, Least
<1> HIDE DEF c, rest, d, v, e, f, how
<1>9. /\ answer'.ty = "object" /\ answer'.decl = d
      /\ Pure(d) => answer'.val = v \/ Complete(d, answer'.val)
      /\ \A x \in Decl : Pure(x) /\ interned'[x] # Absent => Complete(x, interned'[x])
      /\ SameRegisters(stack', rest)
  BY <1>1, <1>2, <1>3, <1>5, <1>6, CompletedCloses
<1>10. /\ want' = None /\ answer' \in Answer /\ answer' # None /\ SoundAnswer(answer')
       /\ stack' \in Seq(AnyFrame) /\ SameFrames(stack', rest)
  BY <1>1, <1>2, <1>3, <1>4, <1>5, CompletedFacts, NotNone
<1>11. /\ Len(stack') = n - 1
       /\ \A i \in 1..(n - 1) :
            /\ i \in 1..n /\ i # n
            /\ stack'[i].decl = stack[i].decl /\ stack'[i].via = stack[i].via
            /\ stack'[i].phase = stack[i].phase /\ stack'[i].todo = stack[i].todo
            /\ stack'[i].val = stack[i].val
            /\ stack'[i].low = stack[i].low /\ stack'[i].unk = stack[i].unk
            /\ stack'[i].heritage = stack[i].heritage /\ stack'[i].outer = stack[i].outer
  BY <1>2, <1>3, <1>9, <1>10 DEF SameFrames, SameRegisters
<1>12. /\ \A i \in 0..n : LowAt(i) \in Int /\ UnkAt(i) \in Int
       /\ \A i \in 1..n : HeritageUnk(i) \in Int
  BY <1>5, RegisterTypes
\* The frames below get the registers they had, or lower ones.
<1>13. ASSUME NEW i, i = n - 1
       PROVE  /\ LowAt(i) = f.low /\ UnkAt(i) = f.unk
              /\ LowAt(i)' = ctx'.low /\ UnkAt(i)' = ctx'.unk
  <2>1. i < n /\ i + 1 = n /\ ~(i < n - 1)
    BY <1>2, <1>13
  <2>2. QED BY <1>2, <1>11, <2>1 DEF LowAt, UnkAt
<1>14. ASSUME NEW i \in 0..(n - 1), i # n - 1
       PROVE  LowAt(i)' = LowAt(i) /\ UnkAt(i)' = UnkAt(i)
  <2>1. i < n /\ i < n - 1 /\ i + 1 \in 1..(n - 1)
    BY <1>2, <1>14
  <2>2. QED BY <1>11, <2>1 DEF LowAt, UnkAt
<1>15. ASSUME NEW i \in 0..(n - 1) PROVE UnkAt(i)' \in Int /\ UnkAt(i)' <= UnkAt(i)
  <2>1. CASE i = n - 1
    BY <1>8, <1>13, <2>1
  <2>2. CASE i # n - 1
    <3>1. i \in 0..n
      BY <1>2
    <3>2. QED BY <1>12, <1>14, <2>2, <3>1
  <2>3. QED BY <2>1, <2>2
<1>16. ASSUME NEW i \in 1..(n - 1) PROVE FrameClosed(i)' /\ SavedOK(i)' /\ HeritageOK(i)'
  <2>1. /\ i \in 0..(n - 1) /\ i \in 0..n /\ i \in 1..n /\ i < n /\ i # n
        /\ \A j \in 1..i : j \in 1..(n - 1)
    BY <1>2
  <2>2. Pending(i)' = Pending(i)
    <3>1. CASE i = n - 1
      <4>1. i + 1 = n
        BY <1>2, <3>1
      <4>2. Pending(i) = {d}
        BY <1>2, <2>1, <4>1 DEF Pending, d
      <4>3. {want', answer'} \ {None} = {answer'} /\ ~(i < Len(stack'))
        BY <1>2, <1>10, <1>11, <3>1
      <4>4. Pending(i)' = {d}
        BY <1>9, <4>3 DEF Pending
      <4>5. QED BY <4>2, <4>4
    <3>2. CASE i # n - 1
      <4>1. i + 1 \in 1..(n - 1) /\ i < Len(stack')
        <5>1. Len(stack') = n - 1
          BY <1>11
        <5>2. QED BY <1>2, <2>1, <3>2, <5>1
      <4>2. QED BY <1>11, <2>1, <4>1 DEF Pending
    <3>3. QED BY <3>1, <3>2
  <2>3. UnkAt(i)' \in Int /\ UnkAt(i)' <= UnkAt(i) /\ UnkAt(i) \in Int
    BY <1>12, <1>15, <2>1
  <2>4. FrameClosed(i)'
    <3>1. PICK a \in Int : HeritageUnk(i) = a
      BY <1>12, <2>1
    <3>2. PICK b \in Int : HeritageUnk(i)' = b /\ b <= a
      <4>1. HeritageUnk(i)' \in Int /\ HeritageUnk(i)' <= a
        <5>1. /\ stack'[i].phase = stack[i].phase /\ stack'[i].heritage = stack[i].heritage
          BY <1>11
        <5>2. CASE stack[i].phase = "bases"
          BY <2>3, <3>1, <5>1, <5>2 DEF HeritageUnk
        <5>3. CASE stack[i].phase # "bases"
          BY <3>1, <5>1, <5>3 DEF HeritageUnk
        <5>4. QED BY <5>2, <5>3
      <4>2. QED BY <4>1
    <3>3. \A j \in 1..i : stack'[j].decl = stack[j].decl /\ stack'[j].via = stack[j].via
      BY <1>11, <2>1
    <3>4. FrameClosed(i)
      BY <2>1 DEF QInv, StackClosed
    <3>5. QED BY <1>1, <1>2, <1>11, <2>1, <2>2, <3>1, <3>2, <3>3, <3>4, ClosedKept
  <2>5. SavedOK(i)'
    <3>1. SavedOK(i) /\ stack[i].unk \in Int /\ stack[i].heritage \in Int
      BY <1>5, <2>1, RegisterTypes DEF QInv, SavedInv
    <3>2. PICK u \in Int, w \in Int : UnkAt(i) = u /\ UnkAt(i)' = w /\ w <= u
      BY <2>3
    <3>3. QED BY <1>11, <3>1, <3>2, SavedKept
  <2>6. ~(Quiet(stack[i].decl) /\ program.bases[stack[i].decl] # <<>> /\ stack[i].phase # "bases")
    BY <2>1 DEF QInv, HeritageInv, HeritageOK
  <2>7. HeritageOK(i)'
    BY <1>1, <1>11, <2>6 DEF HeritageOK, Quiet, Plain
  <2>8. QED BY <2>4, <2>5, <2>7
<1>17. StackClosed' /\ SavedInv' /\ HeritageInv'
  BY <1>11, <1>16 DEF StackClosed, SavedInv, HeritageInv
<1>18. LowInv'
  <2> SUFFICES ASSUME NEW i \in 0..(n - 1) PROVE LowOK(i)'
    BY <1>11 DEF LowInv
  <2>1. /\ i \in 0..n /\ i \in Nat /\ LowOK(i)
        /\ \A k \in 1..i : k \in 1..(n - 1)
    BY <1>2 DEF QInv, LowInv
  <2>2. \A k \in 1..i : stack'[k].low = stack[k].low /\ stack'[k].phase = stack[k].phase
    BY <1>11, <2>1
  <2>3. CASE i # n - 1
    BY <1>14, <2>1, <2>2, <2>3, LowKept
  <2>4. CASE i = n - 1 /\ how = "peel"
    <3>1. LowAt(i)' = LowAt(i) /\ UnkAt(i)' = UnkAt(i)
      BY <1>8, <1>13, <2>4
    <3>2. QED BY <2>1, <2>2, <3>1, LowKept
  <2>5. CASE i = n - 1 /\ how # "peel"
    <3>1. LowAt(i)' = ctx'.low /\ UnkAt(i)' = ctx.unk
      BY <1>8, <1>13, <2>5
    <3>2. LowOK(n) /\ LowAt(n) = ctx.low /\ UnkAt(n) = ctx.unk
      BY <1>2 DEF QInv, LowInv, LowAt, UnkAt
    <3>3. CASE ctx.low <= ctx.unk \/ f.low <= ctx.unk
      <4>1. ctx'.low <= ctx.unk
        BY <1>2, <1>8, <2>5, <3>3
      <4>2. QED BY <3>1, <4>1 DEF LowOK
    <3>4. CASE ~(ctx.low <= ctx.unk \/ f.low <= ctx.unk)
      <4>1. PICK j \in 1..n : (\A k \in j..n : stack[k].phase # "bases") /\ stack[j].low <= ctx.unk
        BY <3>2, <3>4 DEF LowOK
      <4>2. j # n
        BY <1>2, <3>4, <4>1
      <4>3. j \in 1..i /\ \A k \in j..i : k \in j..n /\ k \in 1..i
        BY <1>2, <2>5, <4>2
      <4>4. (\A k \in j..i : stack'[k].phase # "bases") /\ stack'[j].low <= UnkAt(i)'
        BY <2>2, <3>1, <4>1, <4>3
      <4>5. QED BY <4>3, <4>4 DEF LowOK
    <3>5. QED BY <3>3, <3>4
  <2>6. QED BY <2>3, <2>4, <2>5
<1>19. KeptComplete'
  <2>1. \A x, u : Complete(x, u)' <=> Complete(x, u)
    BY <1>1, PureConstant
  <2>2. \A x : Pure(x)' <=> Pure(x)
    BY <1>1, PureConstant
  <2>3. ASSUME NEW x \in Decl, Pure(x), memo'[x] # Absent PROVE Complete(x, memo'[x].val)
    <3>1. CASE Storable(f) /\ x = d
      <4>1. memo'[x] = Object(d, v, e)
        BY <1>1, <1>5, <3>1 DEF Typed
      <4>2. memo'[x].val = v
        BY <4>1 DEF Object
      <4>3. QED BY <1>6, <2>3, <3>1, <4>2
    <3>2. CASE ~(Storable(f) /\ x = d)
      <4>1. memo'[x] = memo[x]
        BY <1>1, <1>5, <3>2 DEF Typed
      <4>2. QED BY <1>5, <2>3, <4>1 DEF KeptComplete
    <3>3. QED BY <3>1, <3>2
  <2>4. QED BY <1>9, <2>1, <2>2, <2>3 DEF KeptComplete
<1>20. PeelInv'
  BY <1>9, <1>10 DEF PeelInv
<1>21. AnswerClosed'
  <2>1. CASE Pure(d) => Complete(d, answer'.val)
    BY <1>1, <1>2, <1>9, <1>10, <2>1, CompleteAnswer
  <2>2. CASE ~(Pure(d) => Complete(d, answer'.val))
    <3>1. /\ Pure(d) /\ answer'.val = v /\ how # "peel"
          /\ ClosedBut(v, Owed(n, f.heritage)) /\ ctx'.unk = ctx.unk
      BY <1>6, <1>8, <1>9, <2>2
    <3>2. SUFFICES ASSUME stack' # <<>> PROVE ClosedBut(answer.val, Owed(Len(stack), ctx.unk))'
      BY <1>9 DEF AnswerClosed
    <3>3. ASSUME NEW i, i = n - 1 PROVE ClosedBut(answer.val, Owed(Len(stack), ctx.unk))'
      <4>1. n > 1 /\ i \in 1..n /\ i \in 1..(n - 1) /\ Len(stack') = i
        BY <1>2, <1>10, <1>11, <3>2, <3>3
      <4>2. Owed(n, f.heritage) \subseteq Owed(i, f.heritage) \cup {d}
        BY <1>2, <3>1, <3>3, <4>1, OwedBelow DEF how, d
      <4>3. Owed(i, f.heritage) \subseteq Owed(i, ctx.unk)
        BY <1>2, <1>7, <4>1, OwedGrows
      <4>4. d \in v.heirs
        BY <1>4 DEF Sound
      <4>5. ClosedBut(v, Owed(i, ctx.unk))
        BY <3>1, <4>2, <4>3, <4>4, ClosedWeakens
      <4>6. \A j \in 1..i : stack'[j].decl = stack[j].decl /\ stack'[j].via = stack[j].via
        BY <1>11, <3>3
      <4>7. StartOf(Len(stack))' = StartOf(i)
        <5>1. StartOf(i)' = StartOf(i)
          BY <4>6, OwedSame
        <5>2. QED BY <4>1, <5>1 DEF StartOf
      <4>8. Owed(Len(stack), ctx.unk)' = Owed(i, ctx.unk)
        BY <3>1, <4>1, <4>6, <4>7 DEF Owed
      <4>9. QED BY <1>1, <3>1, <4>5, <4>8 DEF ClosedBut
    <3>4. QED BY <3>3
  <2>3. QED BY <2>1, <2>2
<1>22. QED BY <1>17, <1>18, <1>19, <1>20, <1>21 DEF QInv

\* With nothing open the registers are in order or nothing has been met.
LEMMA IdleClosed ==
    ASSUME QInv, stack = <<>>, stack' = <<>>, program' = program, ctx' = ctx,
           \A d \in Decl : memo'[d] = memo[d] \/ memo'[d] = Absent, interned' = interned,
           want' # None => want'.via = "named"
    PROVE  QInv'
<1>1. Len(stack) = 0 /\ Len(stack') = 0
  OBVIOUS
<1>2. StackClosed' /\ SavedInv' /\ HeritageInv'
  BY <1>1 DEF StackClosed, SavedInv, HeritageInv
<1>3. LowInv'
  <2>1. LowOK(0)
    BY <1>1 DEF QInv, LowInv
  <2>2. LowAt(0)' = LowAt(0) /\ UnkAt(0)' = UnkAt(0)
    BY <1>1 DEF LowAt, UnkAt
  <2>3. LowOK(0)'
    BY <2>1, <2>2, LowKept
  <2>4. QED BY <1>1, <2>3 DEF LowInv
<1>4. KeptComplete'
  <2>1. \A x, u : Complete(x, u)' <=> Complete(x, u)
    BY PureConstant
  <2>2. \A x : Pure(x)' <=> Pure(x)
    BY PureConstant
  <2>3. QED BY <2>1, <2>2 DEF QInv, KeptComplete
<1>5. AnswerClosed' /\ PeelInv'
  BY DEF AnswerClosed, PeelInv
<1>6. QED BY <1>2, <1>3, <1>4, <1>5 DEF QInv

LEMMA StutterClosed ==
    ASSUME IInv, QInv, UNCHANGED vars
    PROVE  QInv'
<1>1. UNCHANGED <<program, named, memo, shared, interned, want, answer, stack, ctx, last, requests>>
  BY DEF vars, caches
<1>2. KeptComplete'
  <2>1. \A x, u : Complete(x, u)' <=> Complete(x, u)
    BY <1>1, PureConstant
  <2>2. \A x : Pure(x)' <=> Pure(x)
    BY <1>1, PureConstant
  <2>3. QED BY <1>1, <2>1, <2>2 DEF QInv, KeptComplete
<1>3. StackClosed'
  <2> SUFFICES ASSUME NEW i \in 1..Len(stack) PROVE FrameClosed(i)'
    BY <1>1 DEF StackClosed
  <2>1. HeritageUnk(i) \in Int /\ HeritageUnk(i)' = HeritageUnk(i)
    BY <1>1, RegisterTypes DEF IInv, HeritageUnk, UnkAt
  <2>2. PICK m \in Int : HeritageUnk(i) = m /\ HeritageUnk(i)' = m /\ m <= m
    BY <2>1
  <2>3. FrameClosed(i) /\ Pending(i)' = Pending(i) /\ stack \in Seq(AnyFrame)
    BY <1>1 DEF QInv, StackClosed, Pending, IInv, Typed
  <2>4. QED BY <1>1, <2>2, <2>3, ClosedKept
<1>4. AnswerClosed' /\ PeelInv'
  <2>1. StartOf(Len(stack))' = StartOf(Len(stack))
    BY <1>1 DEF StartOf
  <2>2. Owed(Len(stack), ctx.unk)' = Owed(Len(stack), ctx.unk)
    BY <1>1, <2>1 DEF Owed
  <2>3. Pure(answer.decl)' <=> Pure(answer.decl)
    BY <1>1 DEF Pure, Line, Quiet, Plain
  <2>4. AnswerClosed'
    BY <1>1, <2>2, <2>3 DEF QInv, AnswerClosed, ClosedBut, Top
  <2>5. PeelInv'
    BY <1>1 DEF QInv, PeelInv, Plain, Top
  <2>6. QED BY <2>4, <2>5
<1>5. LowInv' /\ SavedInv' /\ HeritageInv'
  BY <1>1 DEF QInv, LowInv, LowOK, SavedInv, SavedOK, HeritageInv, HeritageOK, LowAt, UnkAt,
              Quiet, Plain
<1>6. QED BY <1>2, <1>3, <1>4, <1>5 DEF QInv

LEMMA InitQInv ==
    ASSUME Init
    PROVE  QInv
<1>1. /\ Len(stack) = 0 /\ want = None /\ answer = None
      /\ ctx.low = Unset /\ ctx.unk = Unset /\ Unset \in Int
      /\ \A d \in Decl : memo[d] = Absent /\ interned[d] = Absent
  BY UnsetInt DEF Init, FreshContext
<1>2. StackClosed /\ SavedInv /\ HeritageInv
  BY <1>1 DEF StackClosed, SavedInv, HeritageInv
<1>3. LowInv
  <2>1. LowAt(0) = Unset /\ UnkAt(0) = Unset
    BY <1>1 DEF LowAt, UnkAt
  <2>2. LowOK(0)
    BY <1>1, <2>1 DEF LowOK
  <2>3. QED BY <1>1, <2>2 DEF LowInv
<1>4. KeptComplete /\ AnswerClosed /\ PeelInv
  BY <1>1 DEF KeptComplete, AnswerClosed, PeelInv
<1>5. QED BY <1>2, <1>3, <1>4 DEF QInv

LEMMA NextQInv ==
    ASSUME IInv, QInv, [Next]_vars
    PROVE  QInv'
<1>1. CASE Reference
  BY <1>1, ReferenceClosed
<1>2. ASSUME NEW d \in Decl, Resolve(d) PROVE QInv'
  <2>1. CASE Expand(d, "named")
    BY <2>1, ExpandClosed
  <2>2. CASE Expand(d, "peel")
    BY <2>2, ExpandClosed
  <2>3. CASE \/ NamedHit(d) \/ NamedInFlight(d) \/ InternedHit(d)
             \/ ReenterLazily(d) \/ ReenterUnknown(d)
             \/ MemoHit(d, "named") \/ MemoHit(d, "peel") \/ PeelBlocked(d)
    BY <2>3, AnsweredClosed
  <2>4. QED BY <1>2, <2>1, <2>2, <2>3 DEF Resolve
<1>3. CASE AbsorbBase
  BY <1>3, AbsorbBaseClosed
<1>4. CASE AbsorbMember
  BY <1>4, AbsorbMemberClosed
<1>5. CASE EndBases
  BY <1>5, EndBasesClosed
<1>6. CASE EndMembers
  BY <1>6, EndMembersClosed
<1>7. CASE Finish
  BY <1>7, FinishClosed
<1>8. CASE Reply
  <2>1. /\ answer # None /\ stack = <<>> /\ stack' = stack /\ program' = program /\ ctx' = ctx
        /\ memo' = memo /\ interned' = interned /\ want' = want
    BY <1>8 DEF Reply, caches
  <2>2. want = None
    BY <2>1 DEF IInv, KeptSound
  <2>3. QED BY <2>1, <2>2, IdleClosed
<1>9. ASSUME NEW d \in Decl, Request(d) PROVE QInv'
  <2>1. /\ stack = <<>> /\ stack' = stack /\ program' = program /\ ctx' = ctx
        /\ memo' = memo /\ interned' = interned /\ want'.via = "named"
    BY <1>9 DEF Request, Idle, caches
  <2>2. QED BY <2>1, IdleClosed
<1>10. CASE ChangeModule
  <2>1. /\ stack = <<>> /\ stack' = stack /\ program' = program /\ ctx' = ctx
        /\ memo' = [d \in Decl |-> Absent] /\ interned' = interned /\ want' = None
    BY <1>10 DEF ChangeModule, Idle
  <2>2. QED BY <2>1, IdleClosed
<1>11. CASE UNCHANGED vars
  BY <1>11, StutterClosed
<1>12. QED
  BY <1>1, <1>2, <1>3, <1>4, <1>5, <1>6, <1>7, <1>8, <1>9, <1>10, <1>11 DEF Next, Step

\* What a module's memo keeps for a declaration none of whose line is plain or
\* resolves anything after its heritage has every inherited member: an expansion
\* whose heritage met a frame below its own is refused by the comparison of the
\* published register with the depth, in whatever order the bases of a cycle
\* were entered, peeled or recalled (interface.rs:953-959).
THEOREM AlwaysQuietMemoComplete == Spec => []QuietMemoComplete
<1>1. Init => IInv /\ QInv
  BY InitIInv, InitQInv
<1>2. IInv /\ QInv /\ [Next]_vars => IInv' /\ QInv'
  BY NextIInv, NextQInv
<1>3. QInv => QuietMemoComplete
  BY DEF QInv, KeptComplete, Pure, QuietMemoComplete
<1>4. QED BY <1>1, <1>2, <1>3, PTL DEF Spec
=============================================================================
