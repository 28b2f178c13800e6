---------------------------- MODULE InterfaceMemo ----------------------------
(***************************************************************************)
(* Expansion of interface declarations during module analysis, and the     *)
(* four places an expansion is kept for reuse:                             *)
(*   named     resolved_named_types: the module's answers for declarations *)
(*             without type parameters, with their in-flight marks;        *)
(*   memo      the module instantiation memo, in the same map;             *)
(*   shared    its program-lifetime companion;                             *)
(*   interned  program_instantiations, first wins.                         *)
(*                                                                         *)
(* A declaration stands for itself when it is Plain (no type parameters),  *)
(* else for one instantiation of it with clean arguments, written where no *)
(* type parameter is in scope.  The declarations are user interfaces of    *)
(* one file, which the modules of the program use.  A body is its list of  *)
(* bases, the types its members name, and the types its call and construct *)
(* signatures name; it has no index signature.                             *)
(*                                                                         *)
(* Resolution recurses over the bodies.  What a step of it does with the   *)
(* caches depends on the frames that are open, on registers of the context *)
(* (the lowest frame re-entered so far) and on registers of the thread     *)
(* that an expansion publishes for whoever asked for it.                   *)
(***************************************************************************)
EXTENDS Naturals, Sequences, FiniteSets, SequencesExt, FiniteSetsExt

CONSTANTS
    Decl,        \* the interface declarations
    Programs,    \* records: the plain declarations, and bodies
    MaxRequests, \* bound: how many references the modules resolve
    None

ASSUME InterfaceMemoAssumption ==
    /\ IsFiniteSet(Decl)
    /\ Programs \subseteq [plain : SUBSET Decl, bases : [Decl -> Seq(Decl)],
                           members : [Decl -> Seq(Decl)], sigs : [Decl -> Seq(Decl)]]
    /\ MaxRequests \in Nat

VARIABLES
    program,   \* the declarations
    named,     \* [Decl -> Absent, Resolving or an answer]
    memo,      \* [Decl -> an answer or Absent]
    shared,    \* [Decl -> a value or Absent]
    interned,  \* [Decl -> a value or Absent]
    want,      \* the reference being resolved, or None
    answer,    \* what it resolved to, or None
    stack,     \* the open expansions, a Seq(Frame)
    ctx,       \* the context's registers: low, unk and the cycles noted
    last,      \* the thread's registers: low, unk and open
    requests   \* how many references were resolved

caches == <<named, memo, shared, interned>>
vars == <<program, caches, want, answer, stack, ctx, last, requests>>

-----------------------------------------------------------------------------
(* The state. *)

\* A structural expansion: the interfaces whose members it has, the members and
\* signatures that are the sentinel unknown, and the synthetic open index.
Value == [heirs : SUBSET Decl, cut : SUBSET (Decl \X Decl), open : BOOLEAN]

NoMembers == [heirs |-> {}, cut |-> {}, open |-> FALSE]

\* ResolvedType: an expansion (or a reference to one), a lazy reference that
\* expands when peeled, or unknown; and had_error.
Answer == [decl : Decl, ty : {"object", "lazy", "unknown"}, val : Value, err : BOOLEAN]

Object(d, v, e) == [decl |-> d, ty |-> "object", val |-> v, err |-> e]
Lazy(d) == [decl |-> d, ty |-> "lazy", val |-> NoMembers, err |-> FALSE]
Unknown(d, e) == [decl |-> d, ty |-> "unknown", val |-> NoMembers, err |-> e]

Absent == [state |-> "absent"]
Resolving == [state |-> "resolving"]

\* A reference that is being resolved: by name, or by peeling a lazy one.
Ref == [decl : Decl, via : {"named", "peel"}]

ASSUME NoneAssumption == None \notin Ref \cup Answer

\* usize::MAX of the registers: above every index of the resolving stack.
Unset == Cardinality(Decl) + 1

FreshContext == [low |-> Unset, unk |-> Unset, noted |-> {}]

Context == [low : 0..Unset, unk : 0..Unset, noted : SUBSET Decl]

\* An expansion in progress: how it was asked for, what is left of its body, what
\* it has so far, what happened since it began, the registers it saved.
Frame == [decl : Decl, via : {"named", "peel"},
          phase : {"bases", "members", "sigs"}, todo : Seq(Decl),
          val : Value, err : BOOLEAN,
          taint : SUBSET {"emitted", "degraded", "inflight"},
          low : 0..Unset, unk : 0..Unset, heritage : 0..Unset,
          outer : Context]

\* The declarations without type parameters.
Plain == program.plain

Top == stack[Len(stack)]

\* The innermost expansion becomes f.
SetTop(f) == stack' = [stack EXCEPT ![Len(stack)] = f]

\* A peel recovers a context of its own and starts with an empty stack.
SegmentStart ==
    Max({1} \cup {i \in DOMAIN stack : stack[i].via = "peel"})

Depth == Len(stack) + 1 - SegmentStart

Index(d) == (CHOOSE i \in SegmentStart..Len(stack) : stack[i].decl = d) - SegmentStart

OnStack(d) == \E i \in SegmentStart..Len(stack) : stack[i].decl = d

BeingPeeled(d) == \E i \in DOMAIN stack : stack[i].via = "peel" /\ stack[i].decl = d

\* The frames from position lo on, having seen t happen.
Tainted(s, lo, t) ==
    [i \in DOMAIN s |-> IF i < lo THEN s[i]
                        ELSE [s[i] EXCEPT !.taint = @ \cup {t}]]

Least(a, b) == IF a < b THEN a ELSE b

Init ==
    /\ program \in Programs
    /\ named = [d \in Decl |-> Absent]
    /\ memo = [d \in Decl |-> Absent]
    /\ shared = [d \in Decl |-> Absent]
    /\ interned = [d \in Decl |-> Absent]
    /\ want = None
    /\ answer = None
    /\ stack = <<>>
    /\ ctx = FreshContext
    /\ last = [low |-> Unset, unk |-> Unset, open |-> FALSE]
    /\ requests = 0

Idle == want = None /\ answer = None /\ stack = <<>>

-----------------------------------------------------------------------------
(* References. *)

\* A module resolves a reference in one of its own annotations.
Request(d) ==
    /\ Idle
    /\ requests < MaxRequests
    /\ requests' = requests + 1
    /\ want' = [decl |-> d, via |-> "named"]
    /\ UNCHANGED <<program, caches, answer, stack, ctx, last>>

\* The analysis turns to another module.
ChangeModule ==
    /\ Idle
    /\ \E d \in Decl : named[d] # Absent \/ memo[d] # Absent
    /\ named' = [d \in Decl |-> Absent]
    /\ memo' = [d \in Decl |-> Absent]
    /\ UNCHANGED <<program, shared, interned, want, answer, stack, ctx, last, requests>>

\* The innermost expansion reaches the next type its body names.
Reference ==
    /\ want = None /\ answer = None
    /\ stack # <<>>
    /\ Top.todo # <<>>
    /\ want' = [decl |-> Head(Top.todo), via |-> "named"]
    /\ SetTop([Top EXCEPT !.todo = Tail(@)])
    /\ UNCHANGED <<program, caches, answer, ctx, last, requests>>

Wanted(d, how) == want = [decl |-> d, via |-> how]

Answered(a) == answer' = a /\ want' = None

\* A plain declaration that the module has resolved.
NamedHit(d) ==
    /\ Wanted(d, "named") /\ d \in Plain
    /\ named[d] \in Answer
    /\ Answered(named[d])
    /\ UNCHANGED <<program, caches, stack, ctx, last, requests>>

\* A plain declaration in flight on frames below a peel.
NamedInFlight(d) ==
    /\ Wanted(d, "named") /\ d \in Plain
    /\ named[d] = Resolving /\ ~ OnStack(d)
    /\ Answered(Unknown(d, TRUE))
    /\ stack' = Tainted(stack, 1, "inflight")
    /\ UNCHANGED <<program, caches, ctx, last, requests>>

\* An instantiation that some module interned.
InternedHit(d) ==
    /\ \/ Wanted(d, "named") /\ d \notin Plain
       \/ Wanted(d, "peel")
    /\ interned[d] # Absent
    /\ Answered(Object(d, interned[d], FALSE))
    /\ UNCHANGED <<program, caches, stack, ctx, last, requests>>

\* The reference must be resolved by resolve_interface.
Unresolved(d) ==
    \/ /\ Wanted(d, "named") /\ d \in Plain
       /\ named[d] = Absent \/ (named[d] = Resolving /\ OnStack(d))
    \/ Wanted(d, "named") /\ d \notin Plain /\ interned[d] = Absent

\* Asking for an instantiation clears the register its answer is judged by.
Asked(d) == IF d \in Plain THEN last ELSE [last EXCEPT !.unk = Unset]

\* The declaration is open further up the stack, and a reference to it is lazy:
\* always for a plain one, else when it is the innermost frame.
ReenterLazily(d) ==
    /\ Unresolved(d) /\ OnStack(d)
    /\ d \in Plain \/ Index(d) + 1 = Depth
    /\ ctx' = [ctx EXCEPT !.low = Least(@, Index(d))]
    /\ Answered(Lazy(d))
    /\ named' = IF d \in Plain THEN [named EXCEPT ![d] = Lazy(d)] ELSE named
    /\ last' = Asked(d)
    /\ UNCHANGED <<program, memo, shared, interned, stack, requests>>

\* It is open further up: the back-edge is unknown, and noted once.
ReenterUnknown(d) ==
    /\ Unresolved(d) /\ OnStack(d)
    /\ d \notin Plain /\ Index(d) + 1 # Depth
    /\ ctx' = [low   |-> Least(ctx.low, Index(d)),
               unk   |-> Least(ctx.unk, Index(d)),
               noted |-> ctx.noted \cup {d}]
    /\ stack' = IF d \in ctx.noted THEN stack ELSE Tainted(stack, SegmentStart, "emitted")
    /\ Answered(Unknown(d, FALSE))
    /\ last' = Asked(d)
    /\ UNCHANGED <<program, caches, requests>>

-----------------------------------------------------------------------------
(* Expansions. *)

\* The reference needs a body: resolve_interface, or resolve_arc of a lazy
\* reference, has found nothing open or interned.
Expandable(d, how) ==
    \/ how = "named" /\ Unresolved(d) /\ ~ OnStack(d)
    \/ how = "peel" /\ Wanted(d, "peel") /\ interned[d] = Absent /\ ~ BeingPeeled(d)

Memoized(d) == memo[d] # Absent \/ shared[d] # Absent

\* The memo's key has the identity of the declaration table unless the body is of
\* another file.  A peel works on a clone of the table, so what is resolved for a
\* peel may miss an entry that is there.
MayMiss(d, how) ==
    Memoized(d) => how = "peel" \/ \E i \in DOMAIN stack : stack[i].via = "peel"

Recalled(d) == IF memo[d] # Absent THEN memo[d] ELSE Object(d, shared[d], FALSE)

\* Mutant of Completed: an answer with an error is not written to the memo.
CompletedCleanOnly(d, how, v, e, cacheable, rest) ==
    LET keeps == ~ e /\ (d \in Plain \/ how = "peel" \/ cacheable)
        kept  == IF interned[d] # Absent THEN interned[d] ELSE v
        a     == Object(d, IF keeps THEN kept ELSE v, how = "named" /\ e)
    IN  /\ interned' = IF keeps THEN [interned EXCEPT ![d] = kept] ELSE interned
        /\ named' = IF how = "named" /\ d \in Plain /\ ~ e
                    THEN [named EXCEPT ![d] = a] ELSE named
        /\ stack' = IF how = "peel" /\ e THEN Tainted(rest, 1, "degraded") ELSE rest
        /\ Answered(a)

\* What the caller of resolve_interface does with the result: an expansion
\* without error is interned when the declaration is plain, when it was peeled,
\* or when the instantiation is cacheable, and an entry that is there already
\* replaces it.  A peel that had an error degrades the expansions around it.
Completed(d, how, v, e, cacheable, rest) ==
    LET keeps == ~ e /\ (d \in Plain \/ how = "peel" \/ cacheable)
        kept  == IF interned[d] # Absent THEN interned[d] ELSE v
        a     == Object(d, IF keeps THEN kept ELSE v, how = "named" /\ e)
    IN  /\ interned' = IF keeps THEN [interned EXCEPT ![d] = kept] ELSE interned
        /\ named' = IF how = "named" /\ d \in Plain
                    THEN [named EXCEPT ![d] = a] ELSE named
        /\ stack' = IF how = "peel" /\ e THEN Tainted(rest, 1, "degraded") ELSE rest
        /\ Answered(a)

MemoHit(d, how) ==
    /\ Expandable(d, how) /\ Memoized(d)
    /\ Completed(d, how, Recalled(d).val, Recalled(d).err, TRUE, stack)
    /\ last' = IF how = "named" THEN Asked(d) ELSE last
    /\ UNCHANGED <<program, memo, shared, ctx, requests>>

\* A lazy reference that is being peeled further up the thread.
PeelBlocked(d) ==
    /\ Wanted(d, "peel") /\ interned[d] = Absent /\ BeingPeeled(d)
    /\ Answered(Unknown(d, FALSE))
    /\ stack' = Tainted(stack, 1, "degraded")
    /\ UNCHANGED <<program, caches, ctx, last, requests>>

Expand(d, how) ==
    /\ Expandable(d, how) /\ MayMiss(d, how)
    /\ want' = None
    /\ stack' = Append(stack,
           [decl |-> d, via |-> how, phase |-> "bases", todo |-> program.bases[d],
            val |-> [NoMembers EXCEPT !.heirs = {d}], err |-> FALSE, taint |-> {},
            low |-> ctx.low, unk |-> ctx.unk, heritage |-> Unset, outer |-> ctx])
    /\ ctx' = IF how = "peel" THEN FreshContext
              ELSE [ctx EXCEPT !.low = Unset, !.unk = Unset]
    /\ named' = IF how = "named" /\ d \in Plain
                THEN [named EXCEPT ![d] = Resolving] ELSE named
    /\ last' = IF how = "named" THEN Asked(d) ELSE last
    /\ UNCHANGED <<program, memo, shared, interned, answer, requests>>

\* Mutant of Inherited: the base's synthetic open index is not inherited.
InheritedDeclared(v, a) ==
    IF a.ty = "unknown" THEN [v EXCEPT !.open = TRUE]
    ELSE [heirs |-> v.heirs \cup a.val.heirs, cut |-> v.cut \cup a.val.cut,
          open |-> v.open \/ a.err]

\* A base contributes its members and its openness; one that is unknown, or had
\* an error, leaves the derived type open.
Inherited(v, a) ==
    IF a.ty = "unknown" THEN [v EXCEPT !.open = TRUE]
    ELSE [heirs |-> v.heirs \cup a.val.heirs, cut |-> v.cut \cup a.val.cut,
          open |-> v.open \/ a.val.open \/ a.err]

\* Mutant of AbsorbBase: a lazy base is resolved by name again.
AbsorbBaseByName ==
    /\ answer # None /\ stack # <<>>
    /\ Top.phase = "bases"
    /\ answer' = None
    /\ IF answer.ty = "lazy"
       THEN want' = [decl |-> answer.decl, via |-> "named"] /\ UNCHANGED stack
       ELSE /\ want' = None
            /\ SetTop([Top EXCEPT !.val = Inherited(@, answer), !.err = @ \/ answer.err])
    /\ UNCHANGED <<program, caches, ctx, last, requests>>

\* The innermost expansion receives a base; a lazy one is peeled first.
AbsorbBase ==
    /\ answer # None /\ stack # <<>>
    /\ Top.phase = "bases"
    /\ answer' = None
    /\ IF answer.ty = "lazy"
       THEN want' = [decl |-> answer.decl, via |-> "peel"] /\ UNCHANGED stack
       ELSE /\ want' = None
            /\ SetTop([Top EXCEPT !.val = Inherited(@, answer), !.err = @ \/ answer.err])
    /\ UNCHANGED <<program, caches, ctx, last, requests>>

\* It receives the type of a member or of a signature.
AbsorbMember ==
    /\ answer # None /\ stack # <<>>
    /\ Top.phase # "bases"
    /\ answer' = None
    /\ LET cut == IF answer.ty = "unknown" THEN {<<Top.decl, answer.decl>>} ELSE {}
           v   == [Top.val EXCEPT !.cut = @ \cup cut]
       IN  SetTop([Top EXCEPT !.val = v, !.err = @ \/ answer.err])
    /\ UNCHANGED <<program, caches, want, ctx, last, requests>>

PhaseOver(phase) ==
    /\ want = None /\ answer = None
    /\ stack # <<>>
    /\ Top.phase = phase /\ Top.todo = <<>>

\* The heritage is resolved: its lowest re-entered frame is published.
EndBases ==
    /\ PhaseOver("bases")
    /\ last' = [last EXCEPT !.low = ctx.low]
    /\ ctx' = [ctx EXCEPT !.unk = Least(Top.unk, @)]
    /\ SetTop([Top EXCEPT !.phase = "members", !.todo = program.members[Top.decl],
                          !.heritage = ctx.unk])
    /\ UNCHANGED <<program, caches, want, answer, requests>>

\* The members are resolved: openness and the heritage's unknown re-entry are
\* published.
EndMembers ==
    /\ PhaseOver("members")
    /\ last' = [last EXCEPT !.open = Top.val.open, !.unk = Top.heritage]
    /\ SetTop([Top EXCEPT !.phase = "sigs", !.todo = program.sigs[Top.decl]])
    /\ UNCHANGED <<program, caches, want, answer, ctx, requests>>

\* Mutant of Storable: the heritage's re-entries are not looked at.
StorableAnyHeritage(f) == f.taint = {}

\* May the expansion enter the module's memo?
Storable(f) == last.low + 1 >= Depth /\ f.taint = {}

\* Mutant of Shareable: open bases are shared.
ShareableOpen(f) == Storable(f) /\ ~ f.err

\* And the program's?
Shareable(f) == Storable(f) /\ ~ f.err /\ ~ last.open

\* May an instantiation without error be interned?
Cacheable(f) == "emitted" \notin f.taint /\ last.unk + 1 >= Depth

\* The signatures are resolved: the expansion is complete.
Finish ==
    /\ PhaseOver("sigs")
    /\ LET f == Top
       IN  /\ memo' = IF Storable(f)
                      THEN [memo EXCEPT ![f.decl] = Object(f.decl, f.val, f.err)] ELSE memo
           /\ shared' = IF Shareable(f) THEN [shared EXCEPT ![f.decl] = f.val] ELSE shared
           /\ ctx' = IF f.via = "peel" THEN f.outer
                     ELSE [ctx EXCEPT !.low = Least(f.low, @)]
           /\ Completed(f.decl, f.via, f.val, f.err, Cacheable(f), Front(stack))
    /\ UNCHANGED <<program, last, requests>>

\* The module has its answer.
Reply ==
    /\ answer # None /\ stack = <<>>
    /\ answer' = None
    /\ UNCHANGED <<program, caches, want, stack, ctx, last, requests>>

-----------------------------------------------------------------------------

Resolve(d) ==
    \/ NamedHit(d) \/ NamedInFlight(d) \/ InternedHit(d)
    \/ ReenterLazily(d) \/ ReenterUnknown(d)
    \/ MemoHit(d, "named") \/ MemoHit(d, "peel") \/ PeelBlocked(d)
    \/ Expand(d, "named") \/ Expand(d, "peel")

Step ==
    \/ Reference
    \/ \E d \in Decl : Resolve(d)
    \/ AbsorbBase \/ AbsorbMember
    \/ EndBases \/ EndMembers \/ Finish
    \/ Reply

Next == Step \/ (\E d \in Decl : Request(d)) \/ ChangeModule

Spec == Init /\ [][Next]_vars

\* The thread that resolves a reference keeps running.
FairSpec == Spec /\ WF_vars(Step)

-----------------------------------------------------------------------------
(* Properties. *)

\* The interfaces d derives from, and d: the least set with d in it that has the
\* bases of its members.
Line(d) ==
    {x \in Decl : \A S \in SUBSET Decl :
        (d \in S /\ \A y \in S : ToSet(program.bases[y]) \subseteq S) => x \in S}

Complete(d, v) == v.heirs = Line(d)

Kept(d) == {c[d] : c \in {shared, interned}} \cup
           {c[d].val : c \in {x \in {memo, named} : x[d] \in Answer /\ x[d].ty = "object"}}

\* An expansion that lacks an inherited member is open, wherever it is kept: no
\* access to a member it lacks is reported (interface.rs:1308-1313).
IncompleteIsOpen ==
    \A d \in Decl : \A v \in Kept(d) \ {Absent} : Complete(d, v) \/ v.open

\* No declaration stays marked in flight once the resolution is over: every
\* later reference to it would read unknown.
MarksReleased == Idle => \A d \in Decl : named[d] # Resolving

\* d is generic (what a plain one resolved to is kept for its module, whatever was
\* open around it) and nothing of its body is resolved after its heritage.
Quiet(d) ==
    /\ d \notin Plain
    /\ program.bases[d] = <<>> \/ (program.members[d] = <<>> /\ program.sigs[d] = <<>>)

\* What the program shares has every inherited member, though a member expanded
\* in between may overwrite the register of the heritage (interface.rs:989-992):
\* openness is published after the members.  A signature may overwrite that too.
SharedComplete ==
    \A d \in Decl : (shared[d] # Absent /\ (program.bases[d] = <<>> \/ program.sigs[d] = <<>>))
        => Complete(d, shared[d])

\* What a module's memo keeps has every inherited member (interface.rs:953-959).
MemoComplete == \A d \in Decl : memo[d] # Absent => Complete(d, memo[d].val)

\* It does where the registers are still those of the heritage, whatever is open
\* around the expansion and whatever the bases resolved to.
QuietMemoComplete ==
    \A d \in Decl : (memo[d] # Absent /\ \A x \in Line(d) : Quiet(x))
        => Complete(d, memo[d].val)

\* Every reference is answered.
Answers == want # None ~> Idle
=============================================================================
