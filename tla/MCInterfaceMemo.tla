--------------------------- MODULE MCInterfaceMemo ---------------------------
(* Small programs for InterfaceMemo: declarations 1..N, bodies in order. *)
EXTENDS InterfaceMemo

CONSTANT N

MCDecl == 1..N

\* Heritage without cycles: a declaration derives from earlier ones.
Heritages == {f \in [MCDecl -> SUBSET MCDecl] : \A d \in MCDecl : \A b \in f[d] : b < d}

\* Functions from declarations to at most k references each.
Names(k) == [MCDecl -> {S \in SUBSET MCDecl : Cardinality(S) <= k}]

InOrder(f) == [d \in MCDecl |-> SetToSortSeq(f[d], <)]

ProgramsWith(plains, members, sigs) ==
    {[plain |-> p, bases |-> InOrder(b), members |-> InOrder(m), sigs |-> InOrder(s)] :
       p \in plains, b \in Heritages, m \in members, s \in sigs}

\* At most one plain declaration, with a member each.
MemberPrograms(names) ==
    ProgramsWith({S \in SUBSET MCDecl : Cardinality(S) <= 1}, names, Names(0))

\* Plain declarations, the first with perhaps several members.
PlainPrograms(names) ==
    {p \in ProgramsWith({MCDecl}, names, Names(0)) :
       \A d \in MCDecl \ {1} : Len(p.members[d]) <= 1}

\* Declarations that name nothing after their heritage, or have none.
LeafPrograms(names) ==
    {p \in ProgramsWith({{}}, names, Names(0)) :
       \A d \in MCDecl : p.bases[d] = <<>> \/ p.members[d] = <<>>}

\* The last declaration has a signature and no member.
SignaturePrograms(names) ==
    {p \in ProgramsWith({{}}, names, Names(1)) :
       \A d \in MCDecl : IF d = N THEN p.members[d] = <<>> ELSE p.sigs[d] = <<>>}

MCPrograms ==
    MemberPrograms(Names(1)) \cup PlainPrograms(Names(2))
    \cup LeafPrograms(Names(2)) \cup SignaturePrograms(Names(1))

\* Generic declarations with members.
MCGenericPrograms == ProgramsWith({{}}, Names(2), Names(0))
=============================================================================
