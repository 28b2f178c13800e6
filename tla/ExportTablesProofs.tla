------------------------- MODULE ExportTablesProofs --------------------------
(***************************************************************************)
(* What a resolved export table promises, for every number of modules and  *)
(* every program.  It is sound: each of its symbols is one the language's  *)
(* rules give the module under that name, and one that no chain of         *)
(* re-exports leaves usable as a value is marked type-only.  Cycles do not *)
(* matter: a module that is re-entered answers with its local table, which *)
(* is short of names and never wrong about one.  And the table of a module *)
(* that the search entered first is complete, if no cycle was cut or all   *)
(* are cycles of stars.                                                    *)
(***************************************************************************)
EXTENDS ExportTables, SequenceTheorems, FiniteSetTheorems, WellFoundedInduction, TLAPS

Typed ==
    /\ program \in Programs
    /\ next \in 1..(N + 1)
    /\ resolved \in [Module -> Table \cup {None}]
    /\ stack \in Seq(Frame)

\* What the program exports, and what it exports as more than a type.
All == Exported(program, Statement)
Usable == Exported(program, UsableStatement)

SymbolsFit(m, t) == \A n \in Name : Backed(m, n, t.symbols[n], All)

MarksFit(m, t) == \A n \in Name : n \in t.typeOnly \/ Backed(m, n, t.symbols[n], Usable)

TableFits(m, t) == SymbolsFit(m, t) /\ MarksFit(m, t)

\* A module in progress: what it has fits, and so would the symbols that its
\* type-only stars add, all of which get a mark.
FrameFits(f) ==
    /\ f.todo \subseteq DOMAIN program.exports[f.module]
    /\ TableFits(f.module, f.table)
    /\ \A k \in 1..Len(f.later) : SymbolsFit(f.module, f.later[k])

ResolvedFits == \A m \in Module : resolved[m] # None => TableFits(m, resolved[m])

StackFits == \A k \in 1..Len(stack) : FrameFits(stack[k])

IInv == Typed /\ ResolvedFits /\ StackFits

-----------------------------------------------------------------------------
(* Statements and symbols. *)

LEMMA SymbolTypes ==
    /\ Absent \in Symbol /\ UnknownSymbol \in Symbol
    /\ \A m \in Module : NamespaceOf(m) \in Symbol
    /\ \A m \in Module, n \in Name : Declared(m, n) \in Symbol
BY DEF Absent, UnknownSymbol, NamespaceOf, Declared, Symbol

LEMMA StatementFields ==
    ASSUME NEW s \in Statement
    PROVE  /\ s.to # None => s.to \in Module
           /\ s.typeOnly \in BOOLEAN
           /\ s.kind # "star" => s.as \in Name
           /\ s.kind = "named" => s.name \in Name
           /\ ~ s.typeOnly => s \in UsableStatement
<1>1. CASE s \in [kind : {"named"}, to : Target, name : Name, as : Name, typeOnly : BOOLEAN]
  BY <1>1 DEF Target, UsableStatement, StatementOf
<1>2. CASE s \in [kind : {"namespace"}, to : Target, name : {None}, as : Name, typeOnly : BOOLEAN]
  BY <1>2 DEF Target, UsableStatement, StatementOf
<1>3. CASE s \in StarStatement(BOOLEAN)
  BY <1>3 DEF Target, UsableStatement, StatementOf, StarStatement
<1>4. QED BY <1>1, <1>2, <1>3 DEF Statement, StatementOf

LEMMA StatementOfModule ==
    ASSUME Typed, NEW m \in Module, NEW i \in DOMAIN program.exports[m]
    PROVE  /\ program.exports[m][i] \in Statement
           /\ program.exports[m][i] \in ToSet(program.exports[m])
<1>1. program.exports[m] \in Seq(Statement)
  BY ExportTablesAssumption DEF Typed, Program
<1>2. QED BY <1>1, ElementOfSeq DEF ToSet

-----------------------------------------------------------------------------
(* Rounds.  What the program exports, and what a module reaches, is computed *)
(* in rounds.  That there is such a sequence of rounds, and what holds in    *)
(* each, follows from the least number for which it would fail.              *)

LEMMA LeastExists ==
    ASSUME NEW T \in SUBSET Nat, T # {}
    PROVE  \E x \in T : \A y \in T : x <= y
<1> DEFINE R == OpToRel(<, Nat)
<1>1. IsWellFoundedOn(R, Nat)
  BY NatLessThanWellFounded
<1> HIDE DEF R
<1>2. PICK x \in T : \A y \in T : ~(<<y, x>> \in R)
  BY <1>1, WFMin
<1>3. \A y \in T : ~(y < x)
  BY <1>2 DEF R, OpToRel
<1>4. \A y \in T : x <= y
  BY <1>3
<1>5. QED BY <1>4

\* One round of Exported, and all of them.
Round(p, S, R) ==
    R \cup UNION {UNION {Reexported(m, s, R) : s \in ToSet(p.exports[m]) \cap S} : m \in Module}

Rounds(p, S) ==
    CHOOSE u : u = [k \in 0..(N * Cardinality(Name)) |->
                        IF k = 0 THEN Originals(p, S) ELSE Round(p, S, u[k - 1])]

LEMMA ExportedRounds ==
    ASSUME NEW p, NEW S
    PROVE  Exported(p, S) = Rounds(p, S)[N * Cardinality(Name)]
BY DEF Exported, Rounds, Round

\* u is the first n rounds.
AreRounds(p, S, n, u) ==
    u = [k \in 0..n |-> IF k = 0 THEN Originals(p, S) ELSE Round(p, S, u[k - 1])]

LEMMA RoundsExist ==
    ASSUME NEW p, NEW S, NEW n \in Nat
    PROVE  \E u : AreRounds(p, S, n, u)
<1> DEFINE Exists(j) == \E u : AreRounds(p, S, j, u)
           T == {j \in Nat : ~ Exists(j)}
<1>1. SUFFICES T = {}
  OBVIOUS
<1>2. SUFFICES ASSUME T # {} PROVE FALSE
  OBVIOUS
<1>3. PICK j \in T : \A y \in T : j <= y
  BY <1>2, LeastExists
<1>4. j \in Nat /\ ~ Exists(j) /\ (j > 0 => j - 1 \in Nat /\ Exists(j - 1))
  <2> HIDE DEF Exists
  <2>1. j \in Nat /\ ~ Exists(j)
    BY <1>3
  <2>2. ASSUME j > 0 PROVE j - 1 \in Nat /\ Exists(j - 1)
    BY <1>3, <2>1, <2>2
  <2>3. QED BY <2>1, <2>2
<1>5. CASE j = 0
  <2> DEFINE h == [k \in 0..0 |-> Originals(p, S)]
  <2>1. h = [k \in 0..0 |-> IF k = 0 THEN Originals(p, S) ELSE Round(p, S, h[k - 1])]
    OBVIOUS
  <2>2. QED BY <1>4, <1>5, <2>1 DEF AreRounds
<1>6. CASE j > 0
  <2>1. PICK u : u = [k \in 0..(j - 1) |-> IF k = 0 THEN Originals(p, S)
                                           ELSE Round(p, S, u[k - 1])]
    BY <1>4, <1>6 DEF AreRounds
  <2> DEFINE h == [k \in 0..j |-> IF k = j THEN Round(p, S, u[j - 1]) ELSE u[k]]
  <2>2. ASSUME NEW k \in 0..j
        PROVE  h[k] = IF k = 0 THEN Originals(p, S) ELSE Round(p, S, h[k - 1])
    <3>1. CASE k = j
      <4>1. h[k - 1] = u[j - 1] /\ k # 0
        BY <1>4, <1>6, <3>1
      <4>2. QED BY <3>1, <4>1
    <3>2. CASE k # j
      <4>1. k \in 0..(j - 1) /\ h[k] = u[k]
        BY <1>4, <3>2
      <4>2. u[k] = IF k = 0 THEN Originals(p, S) ELSE Round(p, S, u[k - 1])
        BY <2>1, <4>1
      <4>3. k # 0 => h[k - 1] = u[k - 1]
        BY <1>4, <4>1
      <4>4. QED BY <4>1, <4>2, <4>3
    <3>3. QED BY <3>1, <3>2
  <2>3. h = [k \in 0..j |-> IF k = 0 THEN Originals(p, S) ELSE Round(p, S, h[k - 1])]
    BY <2>2
  <2> HIDE DEF h
  <2>4. QED BY <1>4, <2>3 DEF AreRounds
<1>7. QED BY <1>4, <1>5, <1>6

\* The entries in R are closed under the rules.
ClosedUnder(p, S, R) ==
    /\ Originals(p, S) \subseteq R
    /\ \A m \in Module : \A s \in ToSet(p.exports[m]) \cap S : Reexported(m, s, R) \subseteq R

\* What the program exports is in every set that is closed under the rules.
LEMMA ExportedLeast ==
    ASSUME NEW p, NEW S, NEW R, ClosedUnder(p, S, R)
    PROVE  Exported(p, S) \subseteq R
<1> DEFINE K == N * Cardinality(Name)
           u == Rounds(p, S)
<1>1. K \in Nat
  <2>1. Cardinality(Name) \in Nat /\ N \in Nat
    BY ExportTablesAssumption, FS_CardinalityType
  <2>2. QED BY <2>1
<1> HIDE DEF K
<1>2. u = [k \in 0..K |-> IF k = 0 THEN Originals(p, S) ELSE Round(p, S, u[k - 1])]
  <2>1. \E w : AreRounds(p, S, K, w)
    BY <1>1, RoundsExist
  <2>2. QED BY <2>1 DEF Rounds, K, AreRounds
<1> HIDE DEF u
<1> DEFINE T == {k \in Nat : k \in 0..K /\ ~(u[k] \subseteq R)}
<1>3. T = {}
  <2>1. SUFFICES ASSUME T # {} PROVE FALSE
    OBVIOUS
  <2>2. PICK j \in T : \A y \in T : j <= y
    BY <2>1, LeastExists
  <2>3. j \in Nat /\ j \in 0..K /\ ~(u[j] \subseteq R)
    BY <2>2
  <2>4. j # 0 => j - 1 \in Nat /\ j - 1 \in 0..K /\ u[j - 1] \subseteq R
    BY <1>1, <2>2, <2>3
  <2>5. CASE j = 0
    BY <1>2, <2>3, <2>5 DEF ClosedUnder
  <2>6. CASE j # 0
    <3>1. u[j] = Round(p, S, u[j - 1])
      BY <1>2, <2>3, <2>6
    <3>2. \A m \in Module : \A s \in ToSet(p.exports[m]) \cap S :
            Reexported(m, s, u[j - 1]) \subseteq Reexported(m, s, R)
      BY <2>4, <2>6 DEF Reexported
    <3>3. Round(p, S, u[j - 1]) \subseteq R
      BY <2>4, <2>6, <3>2 DEF Round, ClosedUnder
    <3>4. QED BY <2>3, <3>1, <3>3
  <2>7. QED BY <2>5, <2>6
<1>4. K \in 0..K
  BY <1>1
<1>5. u[K] \subseteq R
  BY <1>1, <1>3, <1>4
<1>6. QED BY <1>5, ExportedRounds DEF K, u

\* The entries have the shape of entries; where symbol y is found.
Shaped(R) == \A e \in R : e[1] \in Module /\ e[2] \in Name /\ e = <<e[1], e[2], e[3]>>

Cells(R, y) == {c \in Module \X Name : <<c[1], c[2], y>> \in R}

LEMMA StatementShape ==
    ASSUME NEW p \in Programs, NEW m \in Module, NEW s \in ToSet(p.exports[m])
    PROVE  s \in Statement /\ p.locals[m] \in SUBSET Name
<1>1. p.exports[m] \in Seq(Statement) /\ p.locals[m] \in SUBSET Name
  BY ExportTablesAssumption DEF Program
<1>2. PICK i \in DOMAIN p.exports[m] : s = p.exports[m][i]
  BY DEF ToSet
<1>3. QED BY <1>1, <1>2, ElementOfSeq

LEMMA ShapedRounds ==
    ASSUME NEW p \in Programs, NEW S
    PROVE  /\ Shaped(Originals(p, S))
           /\ \A R : Shaped(R) => Shaped(Round(p, S, R))
<1>1. ASSUME NEW e \in Originals(p, S)
      PROVE  e[1] \in Module /\ e[2] \in Name /\ e = <<e[1], e[2], e[3]>>
  <2>1. PICK m \in Module :
            \/ \E n \in p.locals[m] : e = <<m, n, Declared(m, n)>>
            \/ \E s \in ToSet(p.exports[m]) : s.kind = "namespace" /\ e = <<m, s.as, NamespaceOf(s.to)>>
    BY DEF Originals
  <2>2. ASSUME NEW n \in p.locals[m], e = <<m, n, Declared(m, n)>>
        PROVE  e[1] \in Module /\ e[2] \in Name /\ e = <<e[1], e[2], e[3]>>
    <3>1. n \in Name
      BY ExportTablesAssumption DEF Program
    <3>2. QED BY <2>2, <3>1
  <2>3. ASSUME NEW s \in ToSet(p.exports[m]), s.kind = "namespace",
               e = <<m, s.as, NamespaceOf(s.to)>>
        PROVE  e[1] \in Module /\ e[2] \in Name /\ e = <<e[1], e[2], e[3]>>
    <3>1. s.as \in Name
      BY <2>3, StatementShape, StatementFields
    <3>2. QED BY <2>3, <3>1
  <2>4. QED BY <2>1, <2>2, <2>3
<1>2. ASSUME NEW R, Shaped(R), NEW e \in Round(p, S, R), e \notin R
      PROVE  e[1] \in Module /\ e[2] \in Name /\ e = <<e[1], e[2], e[3]>>
  <2>1. PICK m \in Module : \E s \in ToSet(p.exports[m]) : e \in Reexported(m, s, R)
    BY <1>2 DEF Round
  <2>2. PICK s \in ToSet(p.exports[m]) : e \in Reexported(m, s, R)
    BY <2>1
  <2>3. PICK d \in R : /\ e = <<m, IF IsStar(s) THEN d[2] ELSE s.as, d[3]>>
    BY <2>2 DEF Reexported
  <2>4. (IF IsStar(s) THEN d[2] ELSE s.as) \in Name
    BY <1>2, StatementShape, StatementFields DEF Shaped, IsStar
  <2>5. QED BY <2>3, <2>4
<1>3. QED BY <1>1, <1>2 DEF Shaped

\* The rules keep the symbol, so a round treats each by itself.
LEMMA RoundBySymbol ==
    ASSUME NEW p, NEW S, NEW R, Shaped(R), NEW Q, NEW y, Cells(R, y) \subseteq Cells(Q, y)
    PROVE  Cells(Round(p, S, R), y) \subseteq Cells(Round(p, S, Q), y)
<1> SUFFICES ASSUME NEW c \in Module \X Name, <<c[1], c[2], y>> \in Round(p, S, R)
             PROVE  <<c[1], c[2], y>> \in Round(p, S, Q)
  BY DEF Cells
<1> DEFINE e == <<c[1], c[2], y>>
<1>1. ASSUME NEW d \in R, d[3] = y PROVE d \in Q
  <2>1. d[1] \in Module /\ d[2] \in Name /\ d = <<d[1], d[2], y>>
    BY <1>1 DEF Shaped
  <2>2. <<d[1], d[2]>> \in Cells(R, y)
    BY <1>1, <2>1 DEF Cells
  <2>3. <<d[1], d[2]>> \in Cells(Q, y)
    BY <2>2
  <2>4. <<d[1], d[2], y>> \in Q
    BY <2>3 DEF Cells
  <2>5. QED BY <2>1, <2>4
<1>2. CASE e \in R
  BY <1>1, <1>2 DEF Round
<1>3. CASE e \notin R
  <2>1. PICK m \in Module : \E s \in ToSet(p.exports[m]) \cap S : e \in Reexported(m, s, R)
    BY <1>3 DEF Round
  <2>2. PICK s \in ToSet(p.exports[m]) \cap S : e \in Reexported(m, s, R)
    BY <2>1
  <2>3. s.to # None /\ s.kind # "namespace"
    BY <2>2 DEF Reexported
  <2>4. PICK d \in R : /\ d[1] = s.to /\ (IsStar(s) \/ d[2] = s.name)
                       /\ e = <<m, IF IsStar(s) THEN d[2] ELSE s.as, d[3]>>
    BY <2>2, <2>3 DEF Reexported
  <2>5. d[3] = y
    BY <2>4
  <2>6. e \in Reexported(m, s, Q)
    BY <1>1, <2>3, <2>4, <2>5 DEF Reexported
  <2>7. QED BY <2>6 DEF Round
<1>4. QED BY <1>2, <1>3

\* After k rounds a symbol is nowhere, at k + 1 places or at all it comes to.
LEMMA RoundsGrow ==
    ASSUME NEW p \in Programs, NEW S
    PROVE  \A k \in 0..(N * Cardinality(Name)) :
                /\ Originals(p, S) \subseteq Rounds(p, S)[k] /\ Shaped(Rounds(p, S)[k])
                /\ \A y : \/ Cells(Round(p, S, Rounds(p, S)[k]), y) = Cells(Rounds(p, S)[k], y)
                          \/ Cardinality(Cells(Rounds(p, S)[k], y)) >= k + 1
<1> DEFINE K == N * Cardinality(Name)
           u == Rounds(p, S)
           Step(R) == Round(p, S, R)
           Good(k) == /\ Originals(p, S) \subseteq u[k] /\ Shaped(u[k])
                      /\ \A y : \/ Cells(Step(u[k]), y) = Cells(u[k], y)
                                \/ Cardinality(Cells(u[k], y)) >= k + 1
<1>1. K \in Nat
  <2>1. Cardinality(Name) \in Nat /\ N \in Nat
    BY ExportTablesAssumption, FS_CardinalityType
  <2>2. QED BY <2>1
<1> HIDE DEF K
<1>2. u = [k \in 0..K |-> IF k = 0 THEN Originals(p, S) ELSE Step(u[k - 1])]
  <2>1. \E w : AreRounds(p, S, K, w)
    BY <1>1, RoundsExist
  <2>2. QED BY <2>1 DEF Rounds, K, AreRounds
<1> HIDE DEF u
<1>3. u[0] = Originals(p, S) /\ \A k \in 1..K : k - 1 \in 0..K /\ u[k] = Step(u[k - 1])
  <2>1. 0 \in 0..K /\ \A k \in 1..K : k \in 0..K /\ k # 0 /\ k - 1 \in 0..K
    BY <1>1
  <2>2. QED BY <1>2, <2>1
<1>4. \A R, y : IsFiniteSet(Cells(R, y)) /\ Cardinality(Cells(R, y)) \in Nat
  <2>1. IsFiniteSet(Module)
    BY ExportTablesAssumption, FS_Interval DEF Module
  <2>2. IsFiniteSet(Module \X Name)
    BY <2>1, ExportTablesAssumption, FS_Product
  <2>3. \A R, y : Cells(R, y) \in SUBSET (Module \X Name)
    BY DEF Cells
  <2>4. QED BY <2>2, <2>3, FS_Subset, FS_CardinalityType
<1>5. \A R, y : Cells(R, y) \subseteq Cells(Step(R), y)
  BY DEF Cells, Round
<1>6. ASSUME NEW R, Shaped(R), NEW y, Cells(R, y) = {} PROVE Cells(Step(R), y) = {}
  <2>1. \A m, s : Reexported(m, s, {}) = {}
    BY DEF Reexported
  <2>2. Step({}) = {}
    BY <2>1 DEF Round
  <2>3. Cells({}, y) = {}
    BY DEF Cells
  <2>4. Cells(Step(R), y) \subseteq Cells(Step({}), y)
    BY <1>6, <2>3, RoundBySymbol
  <2>5. QED BY <2>2, <2>3, <2>4
<1>7. Good(0)
  <2>1. Shaped(u[0])
    BY <1>3, ShapedRounds
  <2>2. ASSUME NEW y, Cells(u[0], y) # {} PROVE Cardinality(Cells(u[0], y)) >= 0 + 1
    <3>1. Cardinality(Cells(u[0], y)) # 0
      BY <1>4, <2>2, FS_EmptySet
    <3>2. QED BY <1>4, <3>1
  <2>3. QED BY <1>3, <1>6, <2>1, <2>2
<1>8. ASSUME NEW k \in 1..K, Good(k - 1) PROVE Good(k)
  <2> DEFINE R == u[k - 1]
  <2>1. u[k] = Step(R) /\ k - 1 \in 0..K
    BY <1>3
  <2>2. Originals(p, S) \subseteq u[k] /\ Shaped(u[k]) /\ Shaped(R)
    BY <1>8, <2>1, ShapedRounds DEF Round
  <2>3. ASSUME NEW y
        PROVE  Cells(Step(u[k]), y) = Cells(u[k], y) \/ Cardinality(Cells(u[k], y)) >= k + 1
    <3>1. CASE Cells(u[k], y) = Cells(R, y)
      <4>1. Cells(Step(u[k]), y) \subseteq Cells(Step(R), y)
        BY <2>2, <3>1, RoundBySymbol
      <4>2. Cells(u[k], y) \subseteq Cells(Step(u[k]), y)
        BY <1>5
      <4>3. Cells(Step(u[k]), y) = Cells(u[k], y)
        BY <2>1, <4>1, <4>2
      <4>4. QED BY <4>3
    <3>2. CASE Cells(u[k], y) # Cells(R, y)
      <4>1. Cells(R, y) \subseteq Cells(u[k], y)
        BY <1>5, <2>1
      <4>2. Cardinality(Cells(R, y)) >= (k - 1) + 1
        BY <1>8, <2>1, <3>2
      <4>3. /\ Cardinality(Cells(R, y)) <= Cardinality(Cells(u[k], y))
            /\ Cardinality(Cells(R, y)) # Cardinality(Cells(u[k], y))
        BY <1>4, <3>2, <4>1, FS_Subset
      <4>4. Cardinality(Cells(u[k], y)) >= k + 1
        BY <1>1, <1>4, <4>2, <4>3
      <4>5. QED BY <4>4
    <3>3. QED BY <3>1, <3>2
  <2>4. QED BY <2>2, <2>3
<1> HIDE DEF Good
<1>9. \A k \in 0..K : Good(k)
  <2> DEFINE T == {k \in Nat : k \in 0..K /\ ~ Good(k)}
  <2>1. SUFFICES ASSUME T # {} PROVE FALSE
    BY <1>1
  <2>2. PICK j \in T : \A y \in T : j <= y
    BY <2>1, LeastExists
  <2>3. j \in Nat /\ j \in 0..K /\ ~ Good(j) /\ j # 0
    BY <1>7, <2>2
  <2>4. j \in 1..K /\ j - 1 \in Nat /\ j - 1 \in 0..K
    BY <1>1, <2>3
  <2>5. Good(j - 1)
    BY <2>2, <2>3, <2>4
  <2>6. QED BY <1>8, <2>3, <2>4, <2>5
<1>10. QED BY <1>9 DEF Good, u, K

\* The rounds suffice: a symbol has no more places than there are modules and
\* names.
LEMMA RoundsSuffice ==
    ASSUME NEW p \in Programs, NEW S
    PROVE  ClosedUnder(p, S, Exported(p, S))
<1> DEFINE K == N * Cardinality(Name)
           R == Rounds(p, S)[K]
<1>1. K \in Nat /\ K \in 0..K
  <2>1. Cardinality(Name) \in Nat /\ N \in Nat
    BY ExportTablesAssumption, FS_CardinalityType
  <2>2. QED BY <2>1
<1>2. /\ Originals(p, S) \subseteq R /\ Shaped(R)
      /\ \A y : Cells(Round(p, S, R), y) = Cells(R, y) \/ Cardinality(Cells(R, y)) >= K + 1
  BY <1>1, RoundsGrow
<1>3. R = Exported(p, S)
  BY ExportedRounds
<1>4. \A y : Cardinality(Cells(R, y)) \in Nat /\ Cardinality(Cells(R, y)) <= K
  <2>1. IsFiniteSet(Module) /\ Cardinality(Module) = N
    BY ExportTablesAssumption, FS_Interval DEF Module
  <2>2. IsFiniteSet(Module \X Name) /\ Cardinality(Module \X Name) = K
    BY <2>1, ExportTablesAssumption, FS_Product
  <2>3. \A y : Cells(R, y) \in SUBSET (Module \X Name)
    BY DEF Cells
  <2> HIDE DEF K, R
  <2>4. QED BY <2>2, <2>3, FS_Subset, FS_CardinalityType
<1> HIDE DEF K, R
<1>5. \A y : Cells(Round(p, S, R), y) = Cells(R, y)
  BY <1>1, <1>2, <1>4
<1>6. Round(p, S, R) \subseteq R
  <2> SUFFICES ASSUME NEW e \in Round(p, S, R) PROVE e \in R
    OBVIOUS
  <2>1. e[1] \in Module /\ e[2] \in Name /\ e = <<e[1], e[2], e[3]>>
    BY <1>2, ShapedRounds DEF Shaped
  <2>2. <<e[1], e[2]>> \in Cells(Round(p, S, R), e[3])
    BY <2>1 DEF Cells
  <2>3. <<e[1], e[2]>> \in Cells(R, e[3])
    BY <1>5, <2>2
  <2>4. <<e[1], e[2], e[3]>> \in R
    BY <2>3 DEF Cells
  <2>5. QED BY <2>1, <2>4
<1>7. \A m \in Module : \A s \in ToSet(p.exports[m]) \cap S : Reexported(m, s, R) \subseteq R
  BY <1>6 DEF Round
<1>8. QED BY <1>2, <1>3, <1>7 DEF ClosedUnder

-----------------------------------------------------------------------------
(* The rules. *)

\* A rule of the language, for S all the statements or the usable ones.
LEMMA Rules ==
    ASSUME Typed, NEW S \in {Statement, UsableStatement}, NEW m \in Module,
           NEW s \in ToSet(program.exports[m]) \cap S, s.to # None
    PROVE  /\ s.kind = "namespace" => <<m, s.as, NamespaceOf(s.to)>> \in Exported(program, S)
           /\ s.kind = "star" => \A n, y : <<s.to, n, y>> \in Exported(program, S)
                                    => <<m, n, y>> \in Exported(program, S)
           /\ s.kind = "named" => \A y : <<s.to, s.name, y>> \in Exported(program, S)
                                    => <<m, s.as, y>> \in Exported(program, S)
<1> DEFINE R == Exported(program, S)
<1>1. Originals(program, S) \subseteq R /\ Reexported(m, s, R) \subseteq R
  BY RoundsSuffice DEF Typed, ClosedUnder
<1> HIDE DEF R
<1>2. ASSUME s.kind = "namespace" PROVE <<m, s.as, NamespaceOf(s.to)>> \in R
  <2>1. <<m, s.as, NamespaceOf(s.to)>> \in Originals(program, S)
    BY <1>2 DEF Originals
  <2>2. QED BY <1>1, <2>1
<1>3. ASSUME s.kind = "star", NEW n, NEW y, <<s.to, n, y>> \in R PROVE <<m, n, y>> \in R
  <2> DEFINE e == <<s.to, n, y>>
  <2>1. e[1] = s.to /\ e[2] = n /\ e[3] = y
    OBVIOUS
  <2>2. <<m, IF IsStar(s) THEN e[2] ELSE s.as, e[3]>> \in Reexported(m, s, R)
    BY <1>3, <2>1 DEF Reexported, IsStar
  <2>3. QED BY <1>1, <1>3, <2>1, <2>2 DEF IsStar
<1>4. ASSUME s.kind = "named", NEW y, <<s.to, s.name, y>> \in R PROVE <<m, s.as, y>> \in R
  <2> DEFINE e == <<s.to, s.name, y>>
  <2>1. e[1] = s.to /\ e[2] = s.name /\ e[3] = y
    OBVIOUS
  <2>2. <<m, IF IsStar(s) THEN e[2] ELSE s.as, e[3]>> \in Reexported(m, s, R)
    BY <1>4, <2>1 DEF Reexported, IsStar
  <2>3. QED BY <1>1, <1>4, <2>1, <2>2 DEF IsStar
<1>5. QED BY <1>2, <1>3, <1>4 DEF R

\* So a module's star passes on what its target is backed by, and a named export
\* one symbol of it.
LEMMA StarBacks ==
    ASSUME Typed, NEW S \in {Statement, UsableStatement}, NEW m \in Module,
           NEW s \in ToSet(program.exports[m]) \cap S, s.to # None, s.kind = "star",
           NEW n, NEW y, Backed(s.to, n, y, Exported(program, S))
    PROVE  Backed(m, n, y, Exported(program, S))
BY Rules DEF Backed

LEMMA NamedBacks ==
    ASSUME Typed, NEW S \in {Statement, UsableStatement}, NEW m \in Module,
           NEW s \in ToSet(program.exports[m]) \cap S, s.to # None, s.kind = "named",
           NEW y, Backed(s.to, s.name, y, Exported(program, S))
    PROVE  Backed(m, s.as, y, Exported(program, S))
BY Rules DEF Backed

LEMMA NamespaceBacks ==
    ASSUME Typed, NEW S \in {Statement, UsableStatement}, NEW m \in Module,
           NEW s \in ToSet(program.exports[m]) \cap S, s.to # None, s.kind = "namespace"
    PROVE  Backed(m, s.as, NamespaceOf(s.to), Exported(program, S))
BY Rules DEF Backed

-----------------------------------------------------------------------------
(* Tables. *)

LEMMA LocalTableFits ==
    ASSUME Typed, NEW m \in Module
    PROVE  LocalTable(m) \in Table /\ TableFits(m, LocalTable(m))
<1> DEFINE t == LocalTable(m)
<1>1. /\ t.symbols = [n \in Name |-> IF n \in program.locals[m] THEN Declared(m, n) ELSE Absent]
      /\ t.types = {} /\ t.typeOnly = {} /\ t.openStar = FALSE
  BY DEF LocalTable
<1>2. t.symbols \in [Name -> Symbol]
  BY <1>1, SymbolTypes
<1>3. t \in Table
  BY <1>2 DEF LocalTable, Table
<1>4. ASSUME NEW S \in {Statement, UsableStatement}, NEW n \in Name
      PROVE  Backed(m, n, t.symbols[n], Exported(program, S))
  <2>1. Originals(program, S) \subseteq Exported(program, S)
    BY RoundsSuffice DEF Typed, ClosedUnder
  <2>2. n \in program.locals[m] => <<m, n, Declared(m, n)>> \in Originals(program, S)
    BY DEF Originals
  <2>3. QED BY <1>1, <2>1, <2>2 DEF Backed
<1>5. QED BY <1>3, <1>4 DEF TableFits, SymbolsFit, MarksFit, All, Usable

LEMMA TargetTableFits ==
    ASSUME IInv, NEW m \in Module
    PROVE  TargetTable(m) \in Table /\ TableFits(m, TargetTable(m))
BY LocalTableFits DEF IInv, Typed, ResolvedFits, TargetTable

\* Setting one symbol.
LEMMA WithSymbolFits ==
    ASSUME NEW m, NEW t \in Table, NEW n \in Name, NEW y \in Symbol
    PROVE  /\ WithSymbol(t, n, y) \in Table
           /\ WithSymbol(t, n, y).typeOnly = t.typeOnly
           /\ WithSymbol(t, n, y).types = t.types
           /\ SymbolsFit(m, t) /\ Backed(m, n, y, All) => SymbolsFit(m, WithSymbol(t, n, y))
           /\ MarksFit(m, t) /\ (n \in t.typeOnly \/ Backed(m, n, y, Usable))
                => MarksFit(m, WithSymbol(t, n, y))
<1> DEFINE u == WithSymbol(t, n, y)
<1>1. t.symbols \in [Name -> Symbol] /\ t.types \in SUBSET Name /\ t.typeOnly \in SUBSET Name
  BY DEF Table
<1>2. /\ u \in Table /\ u.typeOnly = t.typeOnly /\ u.types = t.types
      /\ u.symbols = [t.symbols EXCEPT ![n] = y]
  BY DEF WithSymbol, Table
<1>3. \A x \in Name : u.symbols[x] = IF x = n THEN y ELSE t.symbols[x]
  BY <1>1, <1>2
<1> HIDE DEF u
<1>4. QED BY <1>2, <1>3 DEF SymbolsFit, MarksFit, u

LEMMA WithTypeFits ==
    ASSUME NEW m, NEW t \in Table, NEW n \in Name
    PROVE  /\ WithType(t, n) \in Table
           /\ TableFits(m, t) => TableFits(m, WithType(t, n))
<1>1. /\ WithType(t, n) \in Table /\ WithType(t, n).symbols = t.symbols
      /\ WithType(t, n).typeOnly = t.typeOnly
  BY DEF WithType, Table
<1>2. QED BY <1>1 DEF TableFits, SymbolsFit, MarksFit

LEMMA MarkedIfFits ==
    ASSUME NEW m, NEW t \in Table, NEW n \in Name, NEW b \in BOOLEAN
    PROVE  /\ MarkedIf(t, n, b) \in Table
           /\ MarkedIf(t, n, b).symbols = t.symbols
           /\ MarkedIf(t, n, b).typeOnly = t.typeOnly \cup {x \in {n} : b}
           /\ TableFits(m, t) => TableFits(m, MarkedIf(t, n, b))
<1>1. /\ MarkedIf(t, n, b) \in Table /\ MarkedIf(t, n, b).symbols = t.symbols
      /\ MarkedIf(t, n, b).typeOnly = t.typeOnly \cup {x \in {n} : b}
  BY DEF MarkedIf, Table
<1>2. QED BY <1>1 DEF TableFits, SymbolsFit, MarksFit

\* Copying a star's symbols: the copies are backed if the target's symbols are
\* backed for the module, and those without a mark if the target's are.
LEMMA StarCopiedFits ==
    ASSUME NEW m, NEW t \in Table, NEW target \in Table, NEW marks \in SUBSET Name,
           TableFits(m, t), SymbolsFit(m, target),
           \A n \in Name : n \in marks \/ Backed(m, n, target.symbols[n], Usable)
    PROVE  StarCopied(t, target, marks) \in Table /\ TableFits(m, StarCopied(t, target, marks))
<1> DEFINE u == StarCopied(t, target, marks)
           sym == [n \in Name |-> IF Has(t, n) THEN t.symbols[n] ELSE target.symbols[n]]
           add == {n \in marks : ~ Has(t, n) /\ Has(target, n)}
<1>1. t.symbols \in [Name -> Symbol] /\ target.symbols \in [Name -> Symbol]
      /\ t.typeOnly \in SUBSET Name
  BY DEF Table
<1>2. sym \in [Name -> Symbol] /\ add \in SUBSET Name
  BY <1>1
<1>3. u = [t EXCEPT !.symbols = sym, !.typeOnly = @ \cup add]
  BY DEF StarCopied
<1>4. \A n \in Name : sym[n] = IF Has(t, n) THEN t.symbols[n] ELSE target.symbols[n]
  OBVIOUS
<1>5. \A n \in Name : n \in add <=> n \in marks /\ ~ Has(t, n) /\ Has(target, n)
  OBVIOUS
<1> HIDE DEF sym, add
<1>6. u \in Table /\ u.symbols = sym /\ u.typeOnly = t.typeOnly \cup add
  BY <1>2, <1>3 DEF Table
<1> HIDE DEF u
<1>7. SymbolsFit(m, u)
  BY <1>4, <1>6 DEF TableFits, SymbolsFit
<1>8. ASSUME NEW n \in Name PROVE n \in u.typeOnly \/ Backed(m, n, u.symbols[n], Usable)
  <2>1. CASE Has(t, n)
    BY <1>4, <1>6, <2>1 DEF TableFits, MarksFit
  <2>2. CASE ~ Has(t, n) /\ Has(target, n)
    BY <1>4, <1>5, <1>6, <2>2
  <2>3. CASE ~ Has(t, n) /\ ~ Has(target, n)
    BY <1>4, <1>6, <2>3 DEF Has, Backed
  <2>4. QED BY <2>1, <2>2, <2>3
<1>9. QED BY <1>6, <1>7, <1>8 DEF TableFits, MarksFit, u

\* Asking for a name that is found: the symbol the statement passes on is backed,
\* and marked unless the statement and the target leave it usable.
LEMMA FoundFits ==
    ASSUME Typed, NEW m \in Module, NEW s \in ToSet(program.exports[m]), s \in Statement,
           s.kind = "named", s.to # None, NEW t \in Table, TableFits(m, t),
           NEW target \in Table, TableFits(s.to, target)
    PROVE  Found(t, s, target) \in Table /\ TableFits(m, Found(t, s, target))
<1> DEFINE n == s.name
           y == target.symbols[n]
           r == Republished(t, s.as, y)
           b == s.typeOnly \/ n \in target.typeOnly
           v == IF Has(target, n) THEN MarkedIf(r, s.as, b) ELSE t
<1>1. s.as \in Name /\ n \in Name /\ s.to \in Module
  BY StatementFields
<1>2. y \in Symbol
  BY <1>1 DEF Table
<1>3. Backed(m, s.as, y, All)
  <2>1. Backed(s.to, s.name, y, Exported(program, Statement))
    BY <1>1 DEF TableFits, SymbolsFit, All
  <2>2. s \in ToSet(program.exports[m]) \cap Statement
    OBVIOUS
  <2>3. QED BY <2>1, <2>2, NamedBacks DEF All
<1>4. b \/ Backed(m, s.as, y, Usable)
  <2>1. SUFFICES ASSUME ~ b PROVE Backed(m, s.as, y, Usable)
    OBVIOUS
  <2>2. s \in ToSet(program.exports[m]) \cap UsableStatement
    BY <2>1, StatementFields
  <2>3. Backed(s.to, s.name, y, Exported(program, UsableStatement))
    BY <1>1, <2>1 DEF TableFits, MarksFit, Usable
  <2>4. QED BY <2>2, <2>3, NamedBacks DEF Usable
<1>5. b \in BOOLEAN
  BY StatementFields
<1>6. /\ r \in Table /\ SymbolsFit(m, r) /\ r.typeOnly = t.typeOnly
      /\ \A x \in Name \ {s.as} : x \in r.typeOnly \/ Backed(m, x, r.symbols[x], Usable)
      /\ b \/ s.as \in r.typeOnly \/ Backed(m, s.as, r.symbols[s.as], Usable)
  <2>1. CASE Has(t, s.as)
    <3>1. r = t
      BY <2>1 DEF Republished
    <3>2. QED BY <1>1, <3>1 DEF TableFits, MarksFit
  <2>2. CASE ~ Has(t, s.as)
    <3>1. r = WithSymbol(t, s.as, y)
      BY <2>2 DEF Republished
    <3>2. r \in Table /\ SymbolsFit(m, r) /\ r.typeOnly = t.typeOnly
      BY <1>1, <1>2, <1>3, <3>1, WithSymbolFits DEF TableFits
    <3>3. \A x \in Name : r.symbols[x] = IF x = s.as THEN y ELSE t.symbols[x]
      BY <1>1, <3>1 DEF WithSymbol, Table
    <3>4. QED BY <1>1, <1>4, <3>2, <3>3 DEF TableFits, MarksFit
  <2>3. QED BY <2>1, <2>2
<1> HIDE DEF r, b, y
<1>7. v \in Table /\ TableFits(m, v)
  <2>1. CASE ~ Has(target, n)
    BY <2>1
  <2>2. CASE Has(target, n)
    <3>1. /\ v \in Table /\ v.symbols = r.symbols
          /\ v.typeOnly = r.typeOnly \cup {x \in {s.as} : b}
      <4>1. v = MarkedIf(r, s.as, b)
        BY <2>2
      <4> HIDE DEF v
      <4>2. r \in Table /\ s.as \in Name /\ b \in BOOLEAN
        BY <1>1, <1>5, <1>6
      <4>3. QED BY <4>1, <4>2, MarkedIfFits, SMTT(20)
    <3> HIDE DEF v
    <3>2. QED BY <1>6, <3>1, SMTT(20) DEF TableFits, SymbolsFit, MarksFit
  <2>3. QED BY <2>1, <2>2
<1>8. Found(t, s, target) = IF n \in target.types THEN WithType(v, s.as) ELSE v
  BY DEF Found, Specifier, v, r, b, y
<1> HIDE DEF v
<1>9. QED BY <1>1, <1>7, <1>8, WithTypeFits

LEMMA UnfoundFits ==
    ASSUME NEW m, NEW s \in Statement, s.kind = "named", NEW t \in Table, TableFits(m, t)
    PROVE  Unfound(t, s) \in Table /\ TableFits(m, Unfound(t, s))
<1> DEFINE w == WithType(t, s.as)
<1>1. s.as \in Name
  BY StatementFields
<1>2. w \in Table /\ TableFits(m, w)
  BY <1>1, WithTypeFits
<1> HIDE DEF w
<1>3. Backed(m, s.as, UnknownSymbol, All) /\ Backed(m, s.as, UnknownSymbol, Usable)
  BY DEF Backed
<1>4. WithSymbol(w, s.as, UnknownSymbol) \in Table /\ TableFits(m, WithSymbol(w, s.as, UnknownSymbol))
  BY <1>1, <1>2, <1>3, SymbolTypes, WithSymbolFits DEF TableFits
<1>5. Unfound(t, s) = IF s.typeOnly THEN w ELSE WithSymbol(w, s.as, UnknownSymbol)
  BY DEF Unfound, w
<1>6. QED BY <1>2, <1>4, <1>5

-----------------------------------------------------------------------------
(* The steps. *)

\* The program does not change, and neither does what it exports.
LEMMA ProgramConstant ==
    ASSUME program' = program
    PROVE  /\ \A m, t : TableFits(m, t)' <=> TableFits(m, t)
           /\ \A f : FrameFits(f)' <=> FrameFits(f)
<1>1. All' = All /\ Usable' = Usable
  BY DEF All, Usable
<1>2. \A m, t : (SymbolsFit(m, t)' <=> SymbolsFit(m, t)) /\ (MarksFit(m, t)' <=> MarksFit(m, t))
  BY <1>1 DEF SymbolsFit, MarksFit
<1>3. \A m, t : TableFits(m, t)' <=> TableFits(m, t)
  BY <1>2 DEF TableFits
<1>4. QED BY <1>2, <1>3 DEF FrameFits

LEMMA TopFacts ==
    ASSUME IInv, stack # <<>>
    PROVE  /\ Len(stack) \in 1..Len(stack) /\ Top = stack[Len(stack)]
           /\ Top \in Frame /\ FrameFits(Top)
           /\ Top.module \in Module /\ Top.table \in Table /\ Top.later \in Seq(Table)
           /\ Top.todo \in SUBSET Nat
<1>1. stack \in Seq(Frame)
  BY DEF IInv, Typed
<1>2. Len(stack) \in 1..Len(stack)
  BY <1>1
<1>3. Top \in Frame
  BY <1>1, <1>2, ElementOfSeq DEF Top
<1>4. QED BY <1>2, <1>3 DEF Top, Frame, IInv, StackFits

\* The statement the innermost module has reached is one of its statements.
LEMMA StatementFacts ==
    ASSUME IInv, NEW i, Reached(i)
    PROVE  /\ stack # <<>> /\ i \in Top.todo
           /\ StatementAt(i) \in Statement
           /\ StatementAt(i) \in ToSet(program.exports[Top.module])
<1>1. stack # <<>> /\ i \in Top.todo
  BY DEF Reached
<1>2. Top.module \in Module /\ i \in DOMAIN program.exports[Top.module]
  BY <1>1, TopFacts DEF FrameFits
<1>3. QED BY <1>1, <1>2, StatementOfModule DEF IInv, StatementAt

\* A step that changes the innermost frame only.
LEMMA TopStep ==
    ASSUME IInv, stack # <<>>, program' = program, resolved' = resolved, next' = next,
           NEW f \in Frame, FrameFits(f), SetTop(f)
    PROVE  IInv'
<1>1. stack \in Seq(Frame) /\ Len(stack) \in 1..Len(stack)
  BY TopFacts DEF IInv, Typed
<1>2. /\ stack' \in Seq(Frame) /\ Len(stack') = Len(stack) /\ stack'[Len(stack)] = f
      /\ \A k \in 1..Len(stack) : k # Len(stack) => stack'[k] = stack[k]
  BY <1>1, ExceptSeq DEF SetTop
<1>3. \A k \in 1..Len(stack') : FrameFits(stack'[k])
  BY <1>2 DEF IInv, StackFits
<1>4. \A g : FrameFits(g)' <=> FrameFits(g)
  BY ProgramConstant
<1>5. \A m, t : TableFits(m, t)' <=> TableFits(m, t)
  BY ProgramConstant
<1>6. StackFits'
  BY <1>3, <1>4 DEF StackFits
<1>7. ResolvedFits'
  BY <1>5 DEF IInv, ResolvedFits
<1>8. Typed'
  BY <1>2 DEF IInv, Typed
<1>9. QED BY <1>6, <1>7, <1>8 DEF IInv

\* A module is entered with its local table.
LEMMA PushStep ==
    ASSUME IInv, NEW m \in Module, Push(m), program' = program, resolved' = resolved,
           next' \in 1..(N + 1)
    PROVE  IInv'
<1> DEFINE f == [module |-> m, todo |-> DOMAIN program.exports[m],
                 table |-> LocalTable(m), later |-> <<>>]
<1>1. stack' = Append(stack, f) /\ stack \in Seq(Frame)
  BY DEF Push, IInv, Typed
<1>2. program.exports[m] \in Seq(Statement)
  BY ExportTablesAssumption DEF IInv, Typed, Program
<1>3. LocalTable(m) \in Table /\ TableFits(m, LocalTable(m))
  BY LocalTableFits DEF IInv
<1>4. DOMAIN program.exports[m] \in SUBSET Nat
  BY <1>2
<1>5. <<>> \in Seq(Table) /\ 1..Len(<<>>) = {}
  OBVIOUS
<1>6. f \in Frame /\ f.module = m /\ f.todo = DOMAIN program.exports[m]
      /\ f.table = LocalTable(m) /\ f.later = <<>>
  BY <1>3, <1>4, <1>5 DEF Frame
<1> HIDE DEF f
<1>7. FrameFits(f)
  BY <1>3, <1>5, <1>6 DEF FrameFits
<1>8. /\ stack' \in Seq(Frame) /\ Len(stack') = Len(stack) + 1 /\ Len(stack) \in Nat
      /\ \A k \in 1..Len(stack) : stack'[k] = stack[k]
      /\ stack'[Len(stack) + 1] = f
  BY <1>1, <1>6, AppendProperties
<1>9. \A k \in 1..Len(stack') : k \in 1..Len(stack) \/ k = Len(stack) + 1
  BY <1>8
<1>10. \A k \in 1..Len(stack') : FrameFits(stack'[k])
  BY <1>7, <1>8, <1>9 DEF IInv, StackFits
<1>11. \A g : FrameFits(g)' <=> FrameFits(g)
  BY ProgramConstant
<1>12. \A x, t : TableFits(x, t)' <=> TableFits(x, t)
  BY ProgramConstant
<1>13. StackFits' /\ ResolvedFits'
  BY <1>10, <1>11, <1>12 DEF StackFits, ResolvedFits, IInv
<1>14. Typed'
  BY <1>8 DEF IInv, Typed
<1>15. QED BY <1>13, <1>14 DEF IInv

LEMMA ResolveNextStep ==
    ASSUME IInv, ResolveNext
    PROVE  IInv'
<1>1. /\ stack = <<>> /\ next \in 1..(N + 1) /\ next <= N /\ next' = next + 1
      /\ program' = program /\ resolved' = resolved
  BY DEF ResolveNext, IInv, Typed
<1>2. next \in Module /\ next' \in 1..(N + 1)
  BY <1>1, ExportTablesAssumption DEF Module
<1>3. CASE Push(next)
  BY <1>1, <1>2, <1>3, PushStep
<1>4. CASE stack' = stack
  <2>1. \A g : FrameFits(g)' <=> FrameFits(g)
    BY <1>1, ProgramConstant
  <2>2. \A m, t : TableFits(m, t)' <=> TableFits(m, t)
    BY <1>1, ProgramConstant
  <2>3. QED BY <1>1, <1>2, <1>4, <2>1, <2>2 DEF IInv, Typed, StackFits, ResolvedFits
<1>5. QED BY <1>3, <1>4 DEF ResolveNext

\* The table of a statement's target, where there is one.
LEMMA TargetFacts ==
    ASSUME IInv, NEW s \in Statement, s.to # None
    PROVE  TargetTable(s.to) \in Table /\ TableFits(s.to, TargetTable(s.to))
BY StatementFields, TargetTableFits

\* The statement is done, and the table fits.
LEMMA AdvanceStep ==
    ASSUME IInv, stack # <<>>, NEW i, NEW t \in Table, TableFits(Top.module, t), Advance(i, t),
           program' = program, resolved' = resolved, next' = next
    PROVE  IInv'
<1> DEFINE f == [Top EXCEPT !.todo = @ \ {i}, !.table = t]
<1>1. Top \in Frame /\ FrameFits(Top)
  BY TopFacts
<1>2. /\ f \in Frame /\ f.module = Top.module /\ f.todo = Top.todo \ {i}
      /\ f.table = t /\ f.later = Top.later
  BY <1>1 DEF Frame
<1>3. SetTop(f)
  BY DEF Advance
<1> HIDE DEF f
<1>4. FrameFits(f)
  BY <1>1, <1>2 DEF FrameFits
<1>5. QED BY <1>2, <1>3, <1>4, TopStep

LEMMA ReexportNamedStep ==
    ASSUME IInv, NEW i, ReexportNamed(i)
    PROVE  IInv'
<1> DEFINE s == StatementAt(i)
           t == Top.table
           m == Top.module
           target == TargetTable(s.to)
           found == s.to # None /\ (Has(target, Specifier(s)) \/ Specifier(s) \in target.types)
           u == IF found THEN Found(t, s, target) ELSE Unfound(t, s)
<1>1. /\ Reached(i) /\ s.kind = "named" /\ Advance(i, u)
      /\ program' = program /\ resolved' = resolved /\ next' = next
  BY DEF ReexportNamed, At
<1>2. /\ stack # <<>> /\ s \in Statement /\ s \in ToSet(program.exports[m])
  BY <1>1, StatementFacts
<1>3. m \in Module /\ t \in Table /\ TableFits(m, t)
  BY <1>2, TopFacts DEF FrameFits
<1>4. Unfound(t, s) \in Table /\ TableFits(m, Unfound(t, s))
  BY <1>1, <1>2, <1>3, UnfoundFits
<1>5. s.to # None => Found(t, s, target) \in Table /\ TableFits(m, Found(t, s, target))
  BY <1>1, <1>2, <1>3, TargetFacts, FoundFits DEF IInv
<1>6. u \in Table /\ TableFits(m, u)
  BY <1>4, <1>5
<1> HIDE DEF u
<1>7. QED BY <1>1, <1>2, <1>6, AdvanceStep

LEMMA ReexportNamespaceStep ==
    ASSUME IInv, NEW i, ReexportNamespace(i)
    PROVE  IInv'
<1> DEFINE s == StatementAt(i)
           m == Top.module
           t == MarkedIf(Top.table, s.as, s.typeOnly)
           y == IF s.to = None THEN UnknownSymbol ELSE NamespaceOf(s.to)
           u == WithSymbol(t, s.as, y)
<1>1. /\ Reached(i) /\ s.kind = "namespace" /\ Advance(i, u)
      /\ program' = program /\ resolved' = resolved /\ next' = next
  BY DEF ReexportNamespace, At
<1>2. /\ stack # <<>> /\ s \in Statement /\ s \in ToSet(program.exports[m])
  BY <1>1, StatementFacts
<1>3. m \in Module /\ Top.table \in Table /\ TableFits(m, Top.table)
  BY <1>2, TopFacts DEF FrameFits
<1>4. s.as \in Name /\ s.typeOnly \in BOOLEAN /\ (s.to # None => s.to \in Module)
  BY <1>1, <1>2, StatementFields
<1>5. /\ t \in Table /\ TableFits(m, t)
      /\ t.typeOnly = Top.table.typeOnly \cup {x \in {s.as} : s.typeOnly}
  BY <1>3, <1>4, MarkedIfFits
<1>6. y \in Symbol
  BY <1>4, SymbolTypes
<1>7. Backed(m, s.as, y, All)
  <2>1. CASE s.to = None
    BY <2>1 DEF Backed
  <2>2. CASE s.to # None
    <3>1. s \in ToSet(program.exports[m]) \cap Statement
      BY <1>2
    <3>2. Backed(m, s.as, NamespaceOf(s.to), Exported(program, Statement))
      BY <1>1, <1>3, <2>2, <3>1, NamespaceBacks DEF IInv
    <3>3. QED BY <2>2, <3>2 DEF All
  <2>3. QED BY <2>1, <2>2
<1>8. s.as \in t.typeOnly \/ Backed(m, s.as, y, Usable)
  <2>1. CASE s.to = None
    BY <2>1 DEF Backed
  <2>2. CASE s.typeOnly
    BY <1>5, <2>2
  <2>3. CASE s.to # None /\ ~ s.typeOnly
    <3>1. s \in ToSet(program.exports[m]) \cap UsableStatement
      BY <1>2, <2>3, StatementFields
    <3>2. Backed(m, s.as, NamespaceOf(s.to), Exported(program, UsableStatement))
      BY <1>1, <1>3, <2>3, <3>1, NamespaceBacks DEF IInv
    <3>3. QED BY <2>3, <3>2 DEF Usable
  <2>4. QED BY <2>1, <2>2, <2>3
<1> HIDE DEF t, y
<1>9. u \in Table /\ TableFits(m, u)
  BY <1>4, <1>5, <1>6, <1>7, <1>8, WithSymbolFits DEF TableFits
<1> HIDE DEF u
<1>10. QED BY <1>1, <1>2, <1>9, AdvanceStep

LEMMA ReexportStarStep ==
    ASSUME IInv, NEW i, ReexportStar(i)
    PROVE  IInv'
<1> DEFINE s == StatementAt(i)
           m == Top.module
           target == TargetTable(s.to)
           opened == [Top.table EXCEPT !.openStar = TRUE]
           typed == [Top.table EXCEPT !.types = @ \cup target.types]
           f == [Top EXCEPT !.todo = @ \ {i}, !.table = typed, !.later = Append(@, target)]
<1>1. /\ Reached(i) /\ s.kind = "star"
      /\ program' = program /\ resolved' = resolved /\ next' = next
  BY DEF ReexportStar, At
<1>2. /\ stack # <<>> /\ s \in Statement /\ s \in ToSet(program.exports[m])
  BY <1>1, StatementFacts
<1>3. /\ m \in Module /\ Top.table \in Table /\ TableFits(m, Top.table) /\ Top \in Frame
      /\ Top.later \in Seq(Table) /\ FrameFits(Top)
  BY <1>2, TopFacts DEF FrameFits
<1>4. CASE s.to = None /\ Advance(i, opened)
  <2>1. opened \in Table /\ opened.symbols = Top.table.symbols
        /\ opened.typeOnly = Top.table.typeOnly
    BY <1>3 DEF Table
  <2> HIDE DEF opened
  <2>2. TableFits(m, opened)
    BY <1>3, <2>1 DEF TableFits, SymbolsFit, MarksFit
  <2>3. QED BY <1>1, <1>2, <1>4, <2>1, <2>2, AdvanceStep
<1>5. ASSUME s.to # None
      PROVE  /\ target \in Table /\ SymbolsFit(m, target)
             /\ typed \in Table /\ TableFits(m, typed)
  <2>1. target \in Table /\ TableFits(s.to, target)
    BY <1>2, <1>5, TargetFacts
  <2>2. s \in ToSet(program.exports[m]) \cap Statement
    BY <1>2
  <2>3. SymbolsFit(m, target)
    <3> SUFFICES ASSUME NEW n \in Name PROVE Backed(m, n, target.symbols[n], All)
      BY DEF SymbolsFit
    <3>1. Backed(s.to, n, target.symbols[n], Exported(program, Statement))
      BY <2>1 DEF TableFits, SymbolsFit, All
    <3>2. QED BY <1>1, <1>3, <1>5, <2>2, <3>1, StarBacks DEF IInv, All
  <2>4. typed \in Table /\ typed.symbols = Top.table.symbols
        /\ typed.typeOnly = Top.table.typeOnly
    BY <1>3, <2>1 DEF Table
  <2> HIDE DEF typed
  <2>5. TableFits(m, typed)
    BY <1>3, <2>4 DEF TableFits, SymbolsFit, MarksFit
  <2>6. QED BY <2>1, <2>3, <2>4, <2>5
<1>6. CASE s.to # None /\ ~ s.typeOnly /\ Advance(i, StarCopied(typed, target, target.typeOnly))
  <2>1. target \in Table /\ TableFits(s.to, target) /\ target.typeOnly \in SUBSET Name
    BY <1>2, <1>6, TargetFacts DEF Table
  <2>2. s \in ToSet(program.exports[m]) \cap UsableStatement
    BY <1>2, <1>6, StatementFields
  <2>3. ASSUME NEW n \in Name
        PROVE  n \in target.typeOnly \/ Backed(m, n, target.symbols[n], Usable)
    <3>1. SUFFICES ASSUME n \notin target.typeOnly PROVE Backed(m, n, target.symbols[n], Usable)
      OBVIOUS
    <3>2. Backed(s.to, n, target.symbols[n], Exported(program, UsableStatement))
      BY <2>1, <3>1 DEF TableFits, MarksFit, Usable
    <3>3. QED BY <1>1, <1>3, <1>6, <2>2, <3>2, StarBacks DEF IInv, Usable
  <2> HIDE DEF typed, target
  <2>4. /\ StarCopied(typed, target, target.typeOnly) \in Table
        /\ TableFits(m, StarCopied(typed, target, target.typeOnly))
    BY <1>5, <1>6, <2>1, <2>3, StarCopiedFits
  <2>5. QED BY <1>1, <1>2, <1>6, <2>4, AdvanceStep
<1>7. CASE s.to # None /\ s.typeOnly /\ SetTop(f)
  <2> HIDE DEF typed, target
  <2>1. target \in Table /\ SymbolsFit(m, target) /\ typed \in Table /\ TableFits(m, typed)
    BY <1>5, <1>7
  <2>2. /\ Append(Top.later, target) \in Seq(Table)
        /\ Len(Append(Top.later, target)) = Len(Top.later) + 1 /\ Len(Top.later) \in Nat
        /\ \A k \in 1..Len(Top.later) : Append(Top.later, target)[k] = Top.later[k]
        /\ Append(Top.later, target)[Len(Top.later) + 1] = target
    BY <1>3, <2>1, AppendProperties
  <2>3. /\ f \in Frame /\ f.module = m /\ f.todo = Top.todo \ {i} /\ f.table = typed
        /\ f.later = Append(Top.later, target)
    BY <1>3, <2>1, <2>2 DEF Frame
  <2> HIDE DEF f
  <2>4. \A k \in 1..Len(f.later) : k \in 1..Len(Top.later) \/ k = Len(Top.later) + 1
    BY <2>2, <2>3
  <2>5. \A k \in 1..Len(f.later) : SymbolsFit(m, f.later[k])
    BY <1>3, <2>1, <2>2, <2>3, <2>4 DEF FrameFits
  <2>6. FrameFits(f)
    BY <1>3, <2>1, <2>3, <2>5 DEF FrameFits
  <2>7. QED BY <1>1, <1>2, <1>7, <2>3, <2>6, TopStep
<1>8. QED BY <1>4, <1>6, <1>7 DEF ReexportStar

LEMMA CopyTypeOnlyStarStep ==
    ASSUME IInv, CopyTypeOnlyStar
    PROVE  IInv'
<1> DEFINE target == Head(Top.later)
           t == LaterStar(Top.table, target)
           f == [Top EXCEPT !.table = t, !.later = Tail(@)]
           m == Top.module
<1>1. /\ stack # <<>> /\ Top.later # <<>> /\ SetTop(f)
      /\ program' = program /\ resolved' = resolved /\ next' = next
  BY DEF CopyTypeOnlyStar
<1>2. /\ Top \in Frame /\ FrameFits(Top) /\ Top.later \in Seq(Table) /\ Top.table \in Table
      /\ TableFits(m, Top.table)
  BY <1>1, TopFacts DEF FrameFits
<1>3. /\ 1 \in 1..Len(Top.later) /\ target = Top.later[1]
      /\ Tail(Top.later) \in Seq(Table) /\ Len(Tail(Top.later)) = Len(Top.later) - 1
      /\ \A k \in 1..Len(Tail(Top.later)) : Tail(Top.later)[k] = Top.later[k + 1]
      /\ Len(Top.later) \in Nat
  BY <1>1, <1>2, HeadTailProperties
<1>4. target \in Table /\ SymbolsFit(m, target)
  BY <1>2, <1>3, ElementOfSeq DEF FrameFits
<1> HIDE DEF target
<1>5. t \in Table /\ TableFits(m, t)
  BY <1>2, <1>4, StarCopiedFits DEF LaterStar
<1> HIDE DEF t
<1>6. /\ f \in Frame /\ f.module = m /\ f.todo = Top.todo /\ f.table = t
      /\ f.later = Tail(Top.later)
  BY <1>2, <1>3, <1>5 DEF Frame
<1> HIDE DEF f
<1>7. ASSUME NEW k \in 1..Len(f.later) PROVE SymbolsFit(m, f.later[k])
  <2>1. k + 1 \in 1..Len(Top.later) /\ k \in 1..Len(Tail(Top.later))
    BY <1>3, <1>6
  <2>2. QED BY <1>2, <1>3, <1>6, <2>1 DEF FrameFits
<1>8. FrameFits(f)
  BY <1>2, <1>5, <1>6, <1>7 DEF FrameFits
<1>9. QED BY <1>1, <1>6, <1>8, TopStep

LEMMA FinishModuleStep ==
    ASSUME IInv, FinishModule
    PROVE  IInv'
<1> DEFINE m == Top.module
           n == Len(stack) - 1
<1>1. /\ stack # <<>> /\ stack' = Front(stack)
      /\ resolved' = [resolved EXCEPT ![m] = Top.table]
      /\ program' = program /\ next' = next
  BY DEF FinishModule
<1>2. m \in Module /\ Top.table \in Table /\ TableFits(m, Top.table)
  BY <1>1, TopFacts DEF FrameFits
<1>3. stack \in Seq(Frame) /\ resolved \in [Module -> Table \cup {None}]
      /\ Len(stack) \in Nat /\ n \in Nat
  BY <1>1 DEF IInv, Typed
<1>4. \A k \in 1..n : k \in 1..Len(stack) /\ stack[k] \in Frame
  <2>1. \A k \in 1..n : k \in 1..Len(stack)
    BY <1>3
  <2>2. QED BY <1>3, <2>1, ElementOfSeq
<1> HIDE DEF n
<1>5. /\ stack' \in Seq(Frame) /\ Len(stack') = n
      /\ \A k \in 1..n : stack'[k] = stack[k]
  <2>1. stack' = SubSeq(stack, 1, n)
    BY <1>1 DEF Front, n
  <2>2. SubSeq(stack, 1, n) = [k \in 1..n |-> stack[k]]
    BY <1>3 DEF n
  <2>3. stack' \in [1..n -> Frame]
    BY <1>4, <2>1, <2>2
  <2>4. stack' \in Seq(Frame) /\ Len(stack') = n
    BY <1>3, <2>3, IsASeq
  <2>5. \A k \in 1..n : stack'[k] = stack[k]
    BY <2>1, <2>2
  <2>6. QED BY <2>4, <2>5
<1>6. \A k \in 1..Len(stack') : FrameFits(stack'[k])
  BY <1>4, <1>5 DEF IInv, StackFits
<1>7. \A g : FrameFits(g)' <=> FrameFits(g)
  BY <1>1, ProgramConstant
<1>8. \A x, t : TableFits(x, t)' <=> TableFits(x, t)
  BY <1>1, ProgramConstant
<1>9. StackFits'
  BY <1>6, <1>7 DEF StackFits
<1>10. ResolvedFits'
  BY <1>1, <1>2, <1>3, <1>8 DEF IInv, ResolvedFits
<1>11. Typed'
  BY <1>1, <1>2, <1>3, <1>5 DEF IInv, Typed
<1>12. QED BY <1>9, <1>10, <1>11 DEF IInv

LEMMA StutterStep ==
    ASSUME IInv, UNCHANGED vars
    PROVE  IInv'
<1>1. UNCHANGED <<program, next, resolved, stack>>
  BY DEF vars
<1>2. \A g : FrameFits(g)' <=> FrameFits(g)
  BY <1>1, ProgramConstant
<1>3. \A x, t : TableFits(x, t)' <=> TableFits(x, t)
  BY <1>1, ProgramConstant
<1>4. QED BY <1>1, <1>2, <1>3 DEF IInv, Typed, StackFits, ResolvedFits

LEMMA InitIInv ==
    ASSUME Init
    PROVE  IInv
<1>1. 1 \in 1..(N + 1)
  BY ExportTablesAssumption
<1>2. 1..Len(stack) = {} /\ stack \in Seq(Frame)
  BY DEF Init
<1>3. QED BY <1>1, <1>2 DEF Init, IInv, Typed, ResolvedFits, StackFits

LEMMA NextIInv ==
    ASSUME IInv, [Next]_vars
    PROVE  IInv'
<1>1. CASE ResolveNext
  BY <1>1, ResolveNextStep
<1>2. CASE stack # <<>> /\ StatementStep
  <2>1. PICK i \in Top.todo :
            Descend(i) \/ ReexportNamed(i) \/ ReexportNamespace(i) \/ ReexportStar(i)
    BY <1>2 DEF StatementStep
  <2>2. CASE Descend(i)
    <3>1. /\ StatementAt(i).to # None /\ Push(StatementAt(i).to)
          /\ program' = program /\ resolved' = resolved /\ next' = next
      BY <2>2 DEF Descend
    <3>2. StatementAt(i).to \in Module
      BY <2>2, <3>1, StatementFacts, StatementFields DEF Descend
    <3>3. next' \in 1..(N + 1)
      BY <3>1 DEF IInv, Typed
    <3>4. QED BY <3>1, <3>2, <3>3, PushStep
  <2>3. QED BY <2>1, <2>2, ReexportNamedStep, ReexportNamespaceStep, ReexportStarStep
<1>3. CASE CopyTypeOnlyStar
  BY <1>3, CopyTypeOnlyStarStep
<1>4. CASE FinishModule
  BY <1>4, FinishModuleStep
<1>5. CASE Terminated \/ UNCHANGED vars
  BY <1>5, StutterStep DEF Terminated
<1>6. QED BY <1>1, <1>2, <1>3, <1>4, <1>5 DEF Next

\* The invariant behind both theorems: not only the resolved tables but those of
\* the modules in progress fit, with what their type-only stars still owe.
THEOREM InductiveInvariant == Spec => []IInv
<1>1. Init => IInv
  BY InitIInv
<1>2. IInv /\ [Next]_vars => IInv'
  BY NextIInv
<1>3. QED BY <1>1, <1>2, PTL DEF Spec

-----------------------------------------------------------------------------
(* Sound tables. *)

\* No resolved table of resolve_module_export_tables has a symbol under a name
\* that the module does not export it by, in whatever order the files come and
\* wherever the depth-first search cuts a cycle (table.rs:806-810).
THEOREM AlwaysTablesSound == Spec => []TablesSound
<1>1. IInv => TablesSound
  BY DEF IInv, ResolvedFits, TableFits, SymbolsFit, All, TablesSound
<1>2. QED BY <1>1, InductiveInvariant, PTL

\* A symbol that reached a table only through type-only statements is in its
\* type_only_exports: no copy of resolve_module_export_table, not even that of
\* the type-only stars at the end, drops the mark.
THEOREM AlwaysTypeOnlyKept == Spec => []TypeOnlyKept
<1>1. IInv => TypeOnlyKept
  BY DEF IInv, ResolvedFits, TableFits, MarksFit, Usable, TypeOnlyKept
<1>2. QED BY <1>1, InductiveInvariant, PTL

\* One round of Reach, and all of them.
Onward(p, S) == S \cup ({s.to : s \in UNION {ToSet(p.exports[x]) : x \in S}} \ {None})

Waves(p, m) ==
    CHOOSE u : u = [k \in 0..N |-> IF k = 0 THEN {m} ELSE Onward(p, u[k - 1])]

AreWaves(p, m, n, u) == u = [k \in 0..n |-> IF k = 0 THEN {m} ELSE Onward(p, u[k - 1])]

LEMMA ReachWaves == \A m : Reach(m) = Waves(program, m)[N]
BY DEF Reach, Waves, Onward

LEMMA ReachConstant ==
    ASSUME program' = program
    PROVE  \A m : Reach(m)' = Reach(m)
<1>1. \A m : Reach(m)' = Waves(program', m)[N]
  BY DEF Reach, Waves, Onward
<1>2. QED BY <1>1, ReachWaves

LEMMA WavesExist ==
    ASSUME NEW p, NEW m, NEW n \in Nat
    PROVE  \E u : AreWaves(p, m, n, u)
<1> DEFINE Exists(j) == \E u : AreWaves(p, m, j, u)
           T == {j \in Nat : ~ Exists(j)}
<1>1. SUFFICES T = {}
  OBVIOUS
<1>2. SUFFICES ASSUME T # {} PROVE FALSE
  OBVIOUS
<1>3. PICK j \in T : \A y \in T : j <= y
  BY <1>2, LeastExists
<1>4. j \in Nat /\ ~ Exists(j) /\ (j > 0 => j - 1 \in Nat /\ Exists(j - 1))
  <2> HIDE DEF Exists
  <2>1. j \in Nat /\ ~ Exists(j)
    BY <1>3
  <2>2. ASSUME j > 0 PROVE j - 1 \in Nat /\ Exists(j - 1)
    BY <1>3, <2>1, <2>2
  <2>3. QED BY <2>1, <2>2
<1>5. CASE j = 0
  <2> DEFINE h == [k \in 0..0 |-> {m}]
  <2>1. h = [k \in 0..0 |-> IF k = 0 THEN {m} ELSE Onward(p, h[k - 1])]
    OBVIOUS
  <2>2. QED BY <1>4, <1>5, <2>1 DEF AreWaves
<1>6. CASE j > 0
  <2>1. PICK u : u = [k \in 0..(j - 1) |-> IF k = 0 THEN {m} ELSE Onward(p, u[k - 1])]
    BY <1>4, <1>6 DEF AreWaves
  <2> DEFINE h == [k \in 0..j |-> IF k = j THEN Onward(p, u[j - 1]) ELSE u[k]]
  <2>2. ASSUME NEW k \in 0..j
        PROVE  h[k] = IF k = 0 THEN {m} ELSE Onward(p, h[k - 1])
    <3>1. CASE k = j
      <4>1. h[k - 1] = u[j - 1] /\ k # 0
        BY <1>4, <1>6, <3>1
      <4>2. QED BY <3>1, <4>1
    <3>2. CASE k # j
      <4>1. k \in 0..(j - 1) /\ h[k] = u[k]
        BY <1>4, <3>2
      <4>2. u[k] = IF k = 0 THEN {m} ELSE Onward(p, u[k - 1])
        BY <2>1, <4>1
      <4>3. k # 0 => h[k - 1] = u[k - 1]
        BY <1>4, <4>1
      <4>4. QED BY <4>1, <4>2, <4>3
    <3>3. QED BY <3>1, <3>2
  <2>3. h = [k \in 0..j |-> IF k = 0 THEN {m} ELSE Onward(p, h[k - 1])]
    BY <2>2
  <2> HIDE DEF h
  <2>4. QED BY <1>4, <2>3 DEF AreWaves
<1>7. QED BY <1>4, <1>5, <1>6

\* The rounds of Reach stay among the modules; each is the last or has more
\* modules than rounds have passed.
LEMMA WavesGrow ==
    ASSUME Typed, NEW m \in Module
    PROVE  /\ \A k \in 0..N : /\ m \in Waves(program, m)[k] /\ Waves(program, m)[k] \in SUBSET Module
                              /\ \/ Onward(program, Waves(program, m)[k]) = Waves(program, m)[k]
                                 \/ Cardinality(Waves(program, m)[k]) >= k + 1
           /\ \A S : (m \in S /\ Onward(program, S) \subseteq S) => \A k \in 0..N : Waves(program, m)[k] \subseteq S
<1> DEFINE u == Waves(program, m)
           Good(k) == /\ m \in u[k] /\ u[k] \in SUBSET Module
                      /\ Onward(program, u[k]) = u[k] \/ Cardinality(u[k]) >= k + 1
<1>1. N \in Nat
  BY ExportTablesAssumption
<1>2. u = [k \in 0..N |-> IF k = 0 THEN {m} ELSE Onward(program, u[k - 1])]
  <2>1. \E w : AreWaves(program, m, N, w)
    BY <1>1, WavesExist
  <2>2. QED BY <2>1 DEF Waves, AreWaves
<1> HIDE DEF u
<1>3. u[0] = {m} /\ \A k \in 1..N : k - 1 \in 0..N /\ u[k] = Onward(program, u[k - 1])
  <2>1. 0 \in 0..N /\ \A k \in 1..N : k \in 0..N /\ k # 0 /\ k - 1 \in 0..N
    BY <1>1
  <2>2. QED BY <1>2, <2>1
<1>4. IsFiniteSet(Module)
  BY <1>1, FS_Interval DEF Module
<1>5. \A S \in SUBSET Module : Onward(program, S) \in SUBSET Module /\ S \subseteq Onward(program, S)
  <2> SUFFICES ASSUME NEW S \in SUBSET Module, NEW y \in Onward(program, S), y \notin S PROVE y \in Module
    BY DEF Onward
  <2>1. PICK x \in S : \E s \in ToSet(program.exports[x]) : y = s.to /\ y # None
    BY DEF Onward
  <2>2. PICK s \in ToSet(program.exports[x]) : y = s.to /\ y # None
    BY <2>1
  <2>3. program.exports[x] \in Seq(Statement)
    BY ExportTablesAssumption DEF Typed, Program
  <2>4. s \in Statement
    BY <2>2, <2>3, ElementOfSeq DEF ToSet
  <2>5. QED BY <2>2, <2>4, StatementFields
<1>6. Good(0)
  <2>1. Cardinality({m}) = 1 /\ u[0] = {m}
    BY <1>3, FS_Singleton
  <2>2. QED BY <2>1
<1>7. ASSUME NEW k \in 1..N, Good(k - 1) PROVE Good(k)
  <2>1. u[k] = Onward(program, u[k - 1]) /\ k - 1 \in 0..N
    BY <1>3
  <2>2. u[k] \in SUBSET Module /\ u[k - 1] \subseteq u[k] /\ m \in u[k]
    BY <1>5, <1>7, <2>1
  <2>3. CASE Onward(program, u[k - 1]) = u[k - 1]
    BY <2>1, <2>2, <2>3
  <2>4. CASE Onward(program, u[k - 1]) # u[k - 1]
    <3>1. IsFiniteSet(u[k]) /\ IsFiniteSet(u[k - 1])
      BY <1>4, <1>7, <2>2, FS_Subset
    <3>2. Cardinality(u[k]) \in Nat /\ Cardinality(u[k - 1]) \in Nat
      BY <3>1, FS_CardinalityType
    <3>3. /\ Cardinality(u[k - 1]) <= Cardinality(u[k])
          /\ Cardinality(u[k - 1]) # Cardinality(u[k])
      BY <2>1, <2>2, <2>4, <3>1, FS_Subset
    <3>4. Cardinality(u[k - 1]) >= (k - 1) + 1
      BY <1>7, <2>4
    <3>5. Cardinality(u[k]) >= k + 1
      BY <1>1, <3>2, <3>3, <3>4
    <3>6. QED BY <2>2, <3>5
  <2>5. QED BY <2>3, <2>4
<1> HIDE DEF Good
<1>8. \A k \in 0..N : Good(k)
  <2> DEFINE T == {k \in Nat : k \in 0..N /\ ~ Good(k)}
  <2>1. SUFFICES ASSUME T # {} PROVE FALSE
    BY <1>1
  <2>2. PICK j \in T : \A y \in T : j <= y
    BY <2>1, LeastExists
  <2>3. j \in Nat /\ j \in 0..N /\ ~ Good(j) /\ j # 0
    BY <1>6, <2>2
  <2>4. j \in 1..N /\ j - 1 \in Nat /\ j - 1 \in 0..N
    BY <1>1, <2>3
  <2>5. Good(j - 1)
    BY <2>2, <2>3, <2>4
  <2>6. QED BY <1>7, <2>3, <2>4, <2>5
<1>9. ASSUME NEW S, m \in S, Onward(program, S) \subseteq S PROVE \A k \in 0..N : u[k] \subseteq S
  <2> DEFINE T == {k \in Nat : k \in 0..N /\ ~(u[k] \subseteq S)}
  <2>1. SUFFICES ASSUME T # {} PROVE FALSE
    BY <1>1
  <2>2. PICK j \in T : \A y \in T : j <= y
    BY <2>1, LeastExists
  <2>3. j \in Nat /\ j \in 0..N /\ ~(u[j] \subseteq S) /\ j # 0
    BY <1>3, <1>9, <2>2
  <2>4. j \in 1..N /\ j - 1 \in Nat /\ j - 1 \in 0..N
    BY <1>1, <2>3
  <2>5. u[j - 1] \subseteq S
    BY <2>2, <2>3, <2>4
  <2>6. Onward(program, u[j - 1]) \subseteq Onward(program, S)
    BY <2>5 DEF Onward
  <2>7. QED BY <1>3, <1>9, <2>3, <2>4, <2>6
<1>10. QED BY <1>8, <1>9 DEF Good, u

\* What m reaches is the least set with m in it that has the targets of its
\* modules' statements.
LEMMA ReachLeast ==
    ASSUME Typed, NEW m \in Module
    PROVE  /\ m \in Reach(m) /\ Reach(m) \in SUBSET Module
           /\ \A x \in Reach(m) : \A s \in ToSet(program.exports[x]) : s.to # None => s.to \in Reach(m)
           /\ \A S : (m \in S /\ \A x \in S : \A s \in ToSet(program.exports[x]) :
                                    s.to # None => s.to \in S) => Reach(m) \subseteq S
<1> DEFINE R == Waves(program, m)[N]
<1>1. N \in Nat /\ N \in 0..N
  BY ExportTablesAssumption
<1>2. /\ m \in R /\ R \in SUBSET Module
      /\ Onward(program, R) = R \/ Cardinality(R) >= N + 1
      /\ \A S : (m \in S /\ Onward(program, S) \subseteq S) => R \subseteq S
  BY <1>1, WavesGrow
<1>3. Reach(m) = R
  BY ReachWaves
<1> HIDE DEF R
<1>4. Cardinality(R) \in Nat /\ Cardinality(R) <= N
  <2>1. IsFiniteSet(Module) /\ Cardinality(Module) = N
    BY <1>1, ExportTablesAssumption, FS_Interval DEF Module
  <2>2. QED BY <1>2, <2>1, FS_Subset, FS_CardinalityType
<1>5. Onward(program, R) = R
  BY <1>1, <1>2, <1>4
<1>6. \A x \in R : \A s \in ToSet(program.exports[x]) : s.to # None => s.to \in R
  BY <1>5 DEF Onward
<1>7. ASSUME NEW S, m \in S,
             \A x \in S : \A s \in ToSet(program.exports[x]) : s.to # None => s.to \in S
      PROVE  R \subseteq S
  <2>1. Onward(program, S) \subseteq S
    BY <1>7 DEF Onward
  <2>2. QED BY <1>2, <1>7, <2>1
<1>8. QED BY <1>2, <1>3, <1>6, <1>7

\* What a module reaches, it reaches by way of each module it reaches.
LEMMA ReachWithin ==
    ASSUME Typed, NEW m \in Module, NEW x \in Reach(m)
    PROVE  x \in Module /\ Reach(x) \subseteq Reach(m)
<1>1. x \in Module
  BY ReachLeast
<1>2. QED BY <1>1, ReachLeast

-----------------------------------------------------------------------------
(* Complete tables.  A second invariant says where a name that a module     *)
(* should export is while the search is under way.                          *)

\* The search has come to the module.
Visited(x) == resolved[x] # None \/ resolving[x]

\* The module of a statement.
TargetAt(x, i) == program.exports[x][i].to

\* A module is in progress once, and has no table yet.
ProgressInv ==
    /\ resolving \in [Module -> BOOLEAN]
    /\ \A x \in Module : resolving[x] <=> \E k \in 1..Len(stack) : stack[k].module = x
    /\ \A x \in Module : resolving[x] => resolved[x] = None
    /\ \A j, k \in 1..Len(stack) : stack[j].module = stack[k].module => j = k

\* It waits, at a statement that is left, for the module above it, and reaches
\* all that are above it.
ChainInv ==
    /\ \A k \in 1..Len(stack) : k < Len(stack) =>
            \E i \in stack[k].todo : TargetAt(stack[k].module, i) = stack[k + 1].module
    /\ \A j, k \in 1..Len(stack) : j <= k => stack[k].module \in Reach(stack[j].module)

\* The search has come to the target of every statement that is done.
TargetsVisited(x, done) ==
    \A i \in done : TargetAt(x, i) # None => Visited(TargetAt(x, i))

DoneBy(f) == (DOMAIN program.exports[f.module]) \ f.todo

VisitInv ==
    /\ \A x \in Module : resolved[x] # None => TargetsVisited(x, DOMAIN program.exports[x])
    /\ \A k \in 1..Len(stack) : TargetsVisited(stack[k].module, DoneBy(stack[k]))

\* A table with these type-only stars to copy has the name, or will.
Coming(t, later, n) == Has(t, n) \/ \E j \in 1..Len(later) : Has(later[j], n)

\* So does a module in progress, if not by the finished target of a statement
\* that is left.
Holds(f, n) ==
    \/ Coming(f.table, f.later, n)
    \/ \E i \in f.todo : /\ TargetAt(f.module, i) # None
                         /\ resolved[TargetAt(f.module, i)] # None
                         /\ Has(resolved[TargetAt(f.module, i)], n)

\* A search of stars that was entered with nothing resolved loses no declaration:
\* of whatever it has come to, some module in progress holds the names.
HeldInv ==
    (stack # <<>> /\ stack[1].module \in entered /\ StarsOnly(stack[1].module)) =>
        \A x \in Reach(stack[1].module) : Visited(x) =>
            \A n \in program.locals[x] : \E k \in 1..Len(stack) : Holds(stack[k], n)

\* Once it is over the entry has them.
EntryInv ==
    /\ entered \subseteq Module
    /\ \A m \in entered : resolved[m] = None => stack # <<>> /\ stack[1].module = m
    /\ \A m \in entered : (resolved[m] # None /\ StarsOnly(m)) =>
            \A x \in Reach(m) : \A n \in program.locals[x] : Has(resolved[m], n)

\* What a statement that is done has left, if no cycle was cut: its target's names
\* are in the table or will be copied into it.
Passed(s, t, later) ==
    s.to # None =>
        /\ s.kind = "namespace" => Has(t, s.as)
        /\ s.kind = "named" => resolved[s.to] # None /\ (Has(resolved[s.to], s.name) => Has(t, s.as))
        /\ s.kind = "star" =>
                /\ resolved[s.to] # None
                /\ \A n \in Name : Has(resolved[s.to], n) => Coming(t, later, n)

PassedOn(x, done, t, later) ==
    /\ \A n \in program.locals[x] : Has(t, n)
    /\ \A i \in done : Passed(program.exports[x][i], t, later)

FreeInv ==
    /\ \A x \in Module : (resolved[x] # None /\ CycleFree(x)) =>
            PassedOn(x, DOMAIN program.exports[x], resolved[x], <<>>)
    /\ \A k \in 1..Len(stack) : CycleFree(stack[k].module) =>
            PassedOn(stack[k].module, DoneBy(stack[k]), stack[k].table, stack[k].later)

EInv == ProgressInv /\ ChainInv /\ VisitInv /\ HeldInv /\ EntryInv /\ FreeInv

-----------------------------------------------------------------------------
(* The names of a table. *)

LEMMA StarCopiedHas ==
    ASSUME NEW t \in Table, NEW target, NEW marks, NEW n \in Name
    PROVE  Has(StarCopied(t, target, marks), n) <=> Has(t, n) \/ Has(target, n)
<1> DEFINE sym == [x \in Name |-> IF Has(t, x) THEN t.symbols[x] ELSE target.symbols[x]]
           add == {x \in marks : ~ Has(t, x) /\ Has(target, x)}
<1>1. StarCopied(t, target, marks) = [t EXCEPT !.symbols = sym, !.typeOnly = @ \cup add]
  BY DEF StarCopied
<1>2. sym[n] = IF Has(t, n) THEN t.symbols[n] ELSE target.symbols[n]
  OBVIOUS
<1> HIDE DEF sym, add
<1>3. StarCopied(t, target, marks).symbols = sym
  BY <1>1 DEF Table
<1>4. QED BY <1>2, <1>3 DEF Has

LEMMA StarCopiedTyped ==
    ASSUME NEW t \in Table, NEW target \in Table, NEW marks \in SUBSET Name
    PROVE  StarCopied(t, target, marks) \in Table
<1> DEFINE sym == [n \in Name |-> IF Has(t, n) THEN t.symbols[n] ELSE target.symbols[n]]
           add == {n \in marks : ~ Has(t, n) /\ Has(target, n)}
<1>1. StarCopied(t, target, marks) = [t EXCEPT !.symbols = sym, !.typeOnly = @ \cup add]
  BY DEF StarCopied
<1>2. t.symbols \in [Name -> Symbol] /\ target.symbols \in [Name -> Symbol]
  BY DEF Table
<1>3. sym \in [Name -> Symbol] /\ add \in SUBSET Name
  BY <1>2
<1> HIDE DEF sym, add
<1>4. QED BY <1>1, <1>3 DEF Table

LEMMA WithSymbolHas ==
    ASSUME NEW t \in Table, NEW n \in Name, NEW x \in Name, NEW y, y # Absent
    PROVE  Has(WithSymbol(t, x, y), n) <=> n = x \/ Has(t, n)
<1>1. t.symbols \in [Name -> Symbol]
  BY DEF Table
<1>2. WithSymbol(t, x, y).symbols = [t.symbols EXCEPT ![x] = y]
  BY DEF WithSymbol, Table
<1>3. QED BY <1>1, <1>2 DEF Has

LEMMA WithTypeHas ==
    ASSUME NEW t \in Table, NEW n, NEW x
    PROVE  Has(WithType(t, x), n) <=> Has(t, n)
<1>1. WithType(t, x).symbols = t.symbols
  BY DEF WithType, Table
<1>2. QED BY <1>1 DEF Has

LEMMA MarkedIfHas ==
    ASSUME NEW t \in Table, NEW n, NEW x, NEW b \in BOOLEAN
    PROVE  Has(MarkedIf(t, x, b), n) <=> Has(t, n)
<1>1. MarkedIf(t, x, b).symbols = t.symbols
  BY DEF MarkedIf, Table
<1>2. QED BY <1>1 DEF Has

LEMMA LocalTableHas ==
    ASSUME Typed, NEW m \in Module, NEW n \in program.locals[m]
    PROVE  n \in Name /\ Has(LocalTable(m), n)
<1>1. n \in Name
  BY ExportTablesAssumption DEF Typed, Program
<1>2. LocalTable(m).symbols[n] = Declared(m, n)
  BY <1>1 DEF LocalTable
<1>3. Declared(m, n) # Absent
  <2>1. Declared(m, n).kind = "declared" /\ Absent.kind = "absent"
    BY DEF Declared, Absent
  <2>2. QED BY <2>1
<1>4. QED BY <1>1, <1>2, <1>3 DEF Has

LEMMA SymbolsPresent ==
    UnknownSymbol # Absent /\ \A m : NamespaceOf(m) # Absent
<1>1. UnknownSymbol.kind = "unknown" /\ Absent.kind = "absent"
  BY DEF UnknownSymbol, Absent
<1>2. \A m : NamespaceOf(m).kind = "namespace"
  BY DEF NamespaceOf
<1>3. QED BY <1>1, <1>2

\* A named export takes no name away, and has the one that it asks for.
LEMMA FoundHas ==
    ASSUME NEW s \in Statement, s.kind = "named", NEW t \in Table, NEW target \in Table,
           NEW n \in Name
    PROVE  /\ Has(t, n) => Has(Found(t, s, target), n)
           /\ Has(target, s.name) => Has(Found(t, s, target), s.as)
<1> DEFINE y == target.symbols[s.name]
           r == Republished(t, s.as, y)
           b == s.typeOnly \/ s.name \in target.typeOnly
           v == IF Has(target, s.name) THEN MarkedIf(r, s.as, b) ELSE t
<1>1. s.as \in Name /\ s.name \in Name /\ b \in BOOLEAN
  BY StatementFields
<1>2. y \in Symbol
  BY <1>1 DEF Table
<1>3. r \in Table
  <2>1. CASE Has(t, s.as)
    BY <2>1 DEF Republished
  <2>2. CASE ~ Has(t, s.as)
    BY <1>1, <1>2, <2>2, WithSymbolFits DEF Republished
  <2>3. QED BY <2>1, <2>2
<1>4. Has(target, s.name) => (\A x \in Name : Has(t, x) => Has(r, x)) /\ Has(r, s.as)
  <2> SUFFICES ASSUME Has(target, s.name)
               PROVE  (\A x \in Name : Has(t, x) => Has(r, x)) /\ Has(r, s.as)
    OBVIOUS
  <2>1. y # Absent
    BY DEF Has
  <2> HIDE DEF y
  <2>2. QED BY <1>1, <2>1, WithSymbolHas DEF Republished
<1> HIDE DEF r, b, y
<1>5. v \in Table /\ (Has(t, n) => Has(v, n)) /\ (Has(target, s.name) => Has(v, s.as))
  BY <1>1, <1>3, <1>4, MarkedIfHas, MarkedIfFits
<1>6. Found(t, s, target) = IF s.name \in target.types THEN WithType(v, s.as) ELSE v
  BY DEF Found, Specifier, v, r, b, y
<1> HIDE DEF v
<1>7. QED BY <1>5, <1>6, WithTypeHas

LEMMA UnfoundHas ==
    ASSUME NEW s \in Statement, s.kind = "named", NEW t \in Table, NEW n \in Name, Has(t, n)
    PROVE  Has(Unfound(t, s), n)
<1> DEFINE w == WithType(t, s.as)
<1>1. s.as \in Name
  BY StatementFields
<1>2. w \in Table /\ Has(w, n)
  BY <1>1, WithTypeFits, WithTypeHas
<1>3. Unfound(t, s) = IF s.typeOnly THEN w ELSE WithSymbol(w, s.as, UnknownSymbol)
  BY DEF Unfound, w
<1> HIDE DEF w
<1>4. Has(WithSymbol(w, s.as, UnknownSymbol), n)
  BY <1>1, <1>2, SymbolsPresent, WithSymbolHas
<1>5. QED BY <1>2, <1>3, <1>4

-----------------------------------------------------------------------------
(* The steps preserve the second invariant. *)

\* What depends on the program alone, and on the finished tables too.
LEMMA ShapeConstant ==
    ASSUME program' = program
    PROVE  /\ \A x : Reach(x)' = Reach(x)
           /\ \A x : (StarsOnly(x)' <=> StarsOnly(x)) /\ (CycleFree(x)' <=> CycleFree(x))
           /\ \A x, i : TargetAt(x, i)' = TargetAt(x, i)
           /\ \A f : DoneBy(f)' = DoneBy(f)
<1>1. \A x : Reach(x)' = Reach(x)
  BY ReachConstant
<1>2. QED BY <1>1 DEF StarsOnly, CycleFree, TargetAt, DoneBy

LEMMA ViewConstant ==
    ASSUME program' = program, resolved' = resolved
    PROVE  /\ \A f, n : Holds(f, n)' <=> Holds(f, n)
           /\ \A x, d, t, l : PassedOn(x, d, t, l)' <=> PassedOn(x, d, t, l)
<1>1. \A x, i : TargetAt(x, i)' = TargetAt(x, i)
  BY ShapeConstant
<1>2. \A f, n : Holds(f, n)' <=> Holds(f, n)
  BY <1>1 DEF Holds
<1>3. \A s, t, l : Passed(s, t, l)' <=> Passed(s, t, l)
  BY DEF Passed
<1>4. QED BY <1>2, <1>3 DEF PassedOn

\* The frames and their modules.
LEMMA FrameFacts ==
    ASSUME IInv, NEW k \in 1..Len(stack)
    PROVE  /\ stack[k] \in Frame /\ stack[k].module \in Module
           /\ stack[k].todo \subseteq DOMAIN program.exports[stack[k].module]
<1>1. stack \in Seq(Frame)
  BY DEF IInv, Typed
<1>2. stack[k] \in Frame
  BY <1>1, ElementOfSeq
<1>3. QED BY <1>2 DEF Frame, IInv, StackFits, FrameFits

\* A step that changes the innermost frame only: it goes on with the same module,
\* what it has done has been visited, and it loses no name.
LEMMA TopKeeps ==
    ASSUME IInv, EInv, stack # <<>>, UNCHANGED <<program, resolved, resolving, entered>>,
           NEW f \in Frame, SetTop(f), f.module = Top.module, f.todo \subseteq Top.todo,
           TargetsVisited(f.module, DoneBy(f)),
           StarsOnly(stack[1].module) => \A n \in Name : Holds(Top, n) => Holds(f, n),
           CycleFree(f.module) => PassedOn(f.module, DoneBy(f), f.table, f.later)
    PROVE  EInv'
<1> DEFINE h == Len(stack)
<1>1. stack \in Seq(Frame) /\ h \in 1..h /\ h \in Nat /\ 1 \in 1..h /\ Top = stack[h]
  BY TopFacts DEF IInv, Typed
<1>2. /\ Len(stack') = h /\ stack'[h] = f /\ stack' # <<>>
      /\ \A k \in 1..h : k # h => stack'[k] = stack[k]
  <2>1. /\ Len(stack') = h /\ stack'[h] = f /\ stack' \in Seq(Frame)
        /\ \A k \in 1..h : k # h => stack'[k] = stack[k]
    BY <1>1, ExceptSeq DEF SetTop
  <2>2. QED BY <1>1, <2>1
<1> HIDE DEF h
<1>3. \A k \in 1..h : stack'[k].module = stack[k].module
  BY <1>1, <1>2
<1>4. h = Len(stack)
  BY DEF h
<1>5. ProgressInv'
  BY <1>2, <1>3, <1>4 DEF EInv, ProgressInv
<1>6. ChainInv'
  <2>1. \A k \in 1..h : k < h => k # h /\ k + 1 \in 1..h
    BY <1>1
  <2>2. \A k \in 1..h : k < h => \E i \in stack'[k].todo :
            TargetAt(stack'[k].module, i) = stack'[k + 1].module
    BY <1>2, <1>3, <1>4, <2>1 DEF EInv, ChainInv
  <2>3. \A j, k \in 1..h : j <= k => stack'[k].module \in Reach(stack'[j].module)
    BY <1>3, <1>4 DEF EInv, ChainInv
  <2>4. QED BY <1>2, <2>2, <2>3, ShapeConstant DEF ChainInv
<1>7. \A x, d : TargetsVisited(x, d)' <=> TargetsVisited(x, d)
  BY ShapeConstant DEF TargetsVisited, Visited
<1>8. VisitInv'
  <2>1. \A k \in 1..h : TargetsVisited(stack'[k].module, DoneBy(stack'[k]))
    BY <1>2, <1>4 DEF EInv, VisitInv
  <2>2. QED BY <1>2, <1>7, <2>1, ShapeConstant DEF EInv, VisitInv
<1>9. \A g, n : Holds(g, n)' <=> Holds(g, n)
  BY ViewConstant
<1>10. HeldInv'
  <2> SUFFICES ASSUME stack'[1].module \in entered, StarsOnly(stack'[1].module),
                      NEW x \in Reach(stack'[1].module), Visited(x), NEW n \in program.locals[x]
               PROVE  \E k \in 1..h : Holds(stack'[k], n)
    <3>1. \A x : Visited(x)' <=> Visited(x)
      BY DEF Visited
    <3>2. QED BY <1>2, <1>9, <3>1, ShapeConstant DEF HeldInv
  <2>1. stack'[1].module = stack[1].module /\ stack[1].module \in Module
    BY <1>1, <1>3, <1>4, FrameFacts
  <2>2. x \in Module /\ n \in Name
    BY <2>1, ReachLeast, LocalTableHas DEF IInv
  <2>3. PICK k \in 1..h : Holds(stack[k], n)
    BY <1>4, <2>1 DEF EInv, HeldInv
  <2>4. CASE k = h
    BY <1>1, <1>2, <2>1, <2>2, <2>3, <2>4
  <2>5. CASE k # h
    BY <1>2, <2>3, <2>5
  <2>6. QED BY <2>4, <2>5
<1>11. EntryInv'
  <2>1. stack'[1].module = stack[1].module
    BY <1>1, <1>3
  <2>2. QED BY <1>2, <2>1, ShapeConstant DEF EInv, EntryInv
<1>12. FreeInv'
  <2>1. \A k \in 1..h : CycleFree(stack'[k].module) =>
            PassedOn(stack'[k].module, DoneBy(stack'[k]), stack'[k].table, stack'[k].later)
    BY <1>2, <1>4 DEF EInv, FreeInv
  <2>2. QED BY <1>2, <2>1, ShapeConstant, ViewConstant DEF EInv, FreeInv
<1>13. QED BY <1>5, <1>6, <1>8, <1>10, <1>11, <1>12 DEF EInv

\* The target of a statement that need not be entered was visited, and if the
\* module reaches no cycle it is finished: were it in progress, it would reach
\* the module.
LEMMA TargetDone ==
    ASSUME IInv, EInv, NEW i, Reached(i),
           StatementAt(i).to # None => ~ Unentered(StatementAt(i).to)
    PROVE  /\ TargetsVisited(Top.module, (DOMAIN program.exports[Top.module]) \ (Top.todo \ {i}))
           /\ StatementAt(i) = program.exports[Top.module][i]
           /\ CycleFree(Top.module) /\ StatementAt(i).to # None
                => resolved[StatementAt(i).to] # None
           /\ StarsOnly(stack[1].module) => StatementAt(i).kind = "star"
<1> DEFINE s == StatementAt(i)
           m == Top.module
           h == Len(stack)
<1>1. /\ stack # <<>> /\ i \in Top.todo /\ s \in Statement /\ s \in ToSet(program.exports[m])
      /\ s = program.exports[m][i]
  BY StatementFacts DEF StatementAt
<1>2. /\ h \in 1..h /\ 1 \in 1..h /\ Top = stack[h] /\ m \in Module
      /\ stack \in Seq(Frame)
  <2>1. stack \in Seq(Frame) /\ h \in 1..h /\ Top = stack[h] /\ m \in Module
    BY <1>1, TopFacts DEF IInv, Typed
  <2>2. QED BY <2>1
<1>3. TargetAt(m, i) = s.to
  BY <1>1 DEF TargetAt
<1>4. s.to # None => s.to \in Module /\ Visited(s.to)
  BY <1>1, StatementFields DEF Unentered, Visited
<1>5. TargetsVisited(m, DoneBy(Top))
  BY <1>2 DEF EInv, VisitInv
<1>6. TargetsVisited(m, (DOMAIN program.exports[m]) \ (Top.todo \ {i}))
  BY <1>3, <1>4, <1>5 DEF TargetsVisited, DoneBy
<1>7. ASSUME CycleFree(m), s.to # None PROVE resolved[s.to] # None
  <2> SUFFICES ASSUME resolved[s.to] = None PROVE FALSE
    OBVIOUS
  <2>1. resolving[s.to] /\ s.to \in Module
    BY <1>4, <1>7 DEF Visited
  <2>2. PICK k \in 1..h : stack[k].module = s.to
    BY <2>1 DEF EInv, ProgressInv
  <2>3. k <= h
    BY <1>2
  <2>4. m \in Reach(s.to)
    BY <1>2, <2>2, <2>3 DEF EInv, ChainInv
  <2>5. m \in Reach(m)
    BY <1>2, ReachLeast DEF IInv
  <2>6. QED BY <1>1, <1>7, <2>4, <2>5 DEF CycleFree
<1>8. ASSUME StarsOnly(stack[1].module) PROVE s.kind = "star"
  <2>1. 1 <= h
    BY <1>2
  <2>2. m \in Reach(stack[1].module)
    BY <1>2, <2>1 DEF EInv, ChainInv
  <2>3. QED BY <1>1, <1>8, <2>2 DEF StarsOnly, IsStar
<1>9. QED BY <1>1, <1>6, <1>7, <1>8

\* A table and its type-only stars may gain names.
LEMMA PassedGrows ==
    ASSUME Typed, NEW g \in Frame, PassedOn(g.module, DoneBy(g), g.table, g.later),
           NEW t, NEW later,
           \A n \in Name : Has(g.table, n) => Has(t, n),
           \A n \in Name : Coming(g.table, g.later, n) => Coming(t, later, n)
    PROVE  PassedOn(g.module, DoneBy(g), t, later)
<1> DEFINE m == g.module
<1>1. m \in Module
  BY DEF Frame
<1>2. \A n \in program.locals[m] : Has(t, n)
  BY <1>1, LocalTableHas DEF PassedOn
<1>3. ASSUME NEW j \in DoneBy(g) PROVE Passed(program.exports[m][j], t, later)
  <2> DEFINE z == program.exports[m][j]
  <2>1. Passed(z, g.table, g.later)
    BY DEF PassedOn
  <2>2. z.kind # "star" => z.as \in Name
    BY <1>1, StatementOfModule, StatementFields DEF DoneBy
  <2> HIDE DEF z
  <2>3. Passed(z, t, later)
    BY <2>1, <2>2 DEF Passed
  <2>4. QED BY <2>3 DEF z
<1>4. QED BY <1>2, <1>3 DEF PassedOn

\* The innermost module is done with a statement: no name is lost, and the
\* statement has passed on what a finished target has.
LEMMA StatementKeeps ==
    ASSUME IInv, EInv, NEW i, NEW kind, At(i, kind),
           UNCHANGED <<program, resolved, resolving, entered>>,
           NEW f \in Frame, SetTop(f), f.module = Top.module, f.todo = Top.todo \ {i},
           \A n \in Name : Has(Top.table, n) => Has(f.table, n),
           \A n \in Name : Coming(Top.table, Top.later, n) => Coming(f.table, f.later, n),
           (StatementAt(i).to # None /\ resolved[StatementAt(i).to] # None)
                => Passed(StatementAt(i), f.table, f.later)
    PROVE  EInv'
<1> DEFINE s == StatementAt(i)
           m == Top.module
<1>1. /\ Reached(i) /\ s.kind = kind /\ (s.to # None => ~ Unentered(s.to))
      /\ stack # <<>> /\ i \in Top.todo /\ s \in Statement
  BY StatementFacts DEF At
<1>2. /\ TargetsVisited(m, (DOMAIN program.exports[m]) \ (Top.todo \ {i}))
      /\ s = program.exports[m][i]
      /\ CycleFree(m) /\ s.to # None => resolved[s.to] # None
      /\ StarsOnly(stack[1].module) => s.kind = "star"
  BY <1>1, TargetDone
<1>3. /\ Len(stack) \in 1..Len(stack) /\ Top = stack[Len(stack)] /\ m \in Module
      /\ Top \in Frame /\ FrameFits(Top)
  BY <1>1, TopFacts
<1>4. DoneBy(f) = (DOMAIN program.exports[m]) \ (Top.todo \ {i})
  BY DEF DoneBy
<1>5. DoneBy(f) = DoneBy(Top) \cup {i}
  BY <1>1, <1>3, <1>4 DEF DoneBy, FrameFits
<1>6. ASSUME StarsOnly(stack[1].module), NEW n \in Name, Holds(Top, n) PROVE Holds(f, n)
  <2>1. CASE Coming(Top.table, Top.later, n)
    BY <2>1 DEF Holds
  <2>2. ASSUME NEW j \in Top.todo, TargetAt(m, j) # None, resolved[TargetAt(m, j)] # None,
               Has(resolved[TargetAt(m, j)], n)
        PROVE  Holds(f, n)
    <3>1. CASE j = i
      <4>1. TargetAt(m, j) = s.to /\ s.kind = "star"
        BY <1>2, <1>6, <3>1 DEF TargetAt
      <4>2. Passed(s, f.table, f.later)
        BY <2>2, <4>1
      <4>3. Coming(f.table, f.later, n)
        BY <2>2, <4>1, <4>2 DEF Passed
      <4>4. QED BY <4>3 DEF Holds
    <3>2. CASE j # i
      BY <2>2, <3>2 DEF Holds
    <3>3. QED BY <3>1, <3>2
  <2>3. QED BY <1>6, <2>1, <2>2 DEF Holds
<1>7. ASSUME CycleFree(m) PROVE PassedOn(m, DoneBy(f), f.table, f.later)
  <2>1. PassedOn(m, DoneBy(Top), Top.table, Top.later)
    BY <1>3, <1>7 DEF EInv, FreeInv
  <2>2. PassedOn(m, DoneBy(Top), f.table, f.later)
    BY <1>3, <2>1, PassedGrows, SMTT(20) DEF IInv
  <2>3. Passed(s, f.table, f.later)
    BY <1>2, <1>7 DEF Passed
  <2>4. QED BY <1>2, <1>5, <2>2, <2>3 DEF PassedOn
<1>8. QED BY <1>1, <1>2, <1>4, <1>6, <1>7, TopKeeps

\* A statement that leaves the type-only stars alone.
LEMMA AdvanceKeeps ==
    ASSUME IInv, EInv, NEW i, NEW kind, At(i, kind),
           UNCHANGED <<program, resolved, resolving, entered>>,
           NEW t \in Table, Advance(i, t),
           \A n \in Name : Has(Top.table, n) => Has(t, n),
           (StatementAt(i).to # None /\ resolved[StatementAt(i).to] # None)
                => Passed(StatementAt(i), t, Top.later)
    PROVE  EInv'
<1> DEFINE f == [Top EXCEPT !.todo = @ \ {i}, !.table = t]
<1>1. Top \in Frame
  BY StatementFacts, TopFacts DEF At
<1>2. /\ f \in Frame /\ f.module = Top.module /\ f.todo = Top.todo \ {i}
      /\ f.table = t /\ f.later = Top.later
  BY <1>1 DEF Frame
<1>3. SetTop(f)
  BY DEF Advance
<1> HIDE DEF f
<1>4. \A n \in Name : Coming(Top.table, Top.later, n) => Coming(t, Top.later, n)
  BY DEF Coming
<1>5. QED BY <1>2, <1>3, <1>4, StatementKeeps

LEMMA ReexportNamedKeeps ==
    ASSUME IInv, EInv, NEW i, ReexportNamed(i)
    PROVE  EInv'
<1> DEFINE s == StatementAt(i)
           t == Top.table
           target == TargetTable(s.to)
           found == s.to # None /\ (Has(target, Specifier(s)) \/ Specifier(s) \in target.types)
           u == IF found THEN Found(t, s, target) ELSE Unfound(t, s)
<1>1. /\ At(i, "named") /\ Reached(i) /\ s.kind = "named" /\ Advance(i, u)
      /\ UNCHANGED <<program, resolved, resolving, entered>>
  BY DEF ReexportNamed, At
<1>2. /\ stack # <<>> /\ s \in Statement /\ s \in ToSet(program.exports[Top.module])
  BY <1>1, StatementFacts
<1>3. Top.module \in Module /\ t \in Table /\ TableFits(Top.module, t)
  BY <1>2, TopFacts DEF FrameFits
<1>4. s.to # None => target \in Table /\ TableFits(s.to, target)
  BY <1>2, TargetFacts
<1>5. u \in Table
  <2>1. found => Found(t, s, target) \in Table
    BY <1>1, <1>2, <1>3, <1>4, FoundFits DEF IInv
  <2>2. Unfound(t, s) \in Table
    BY <1>1, <1>2, <1>3, UnfoundFits
  <2>3. QED BY <2>1, <2>2
<1>6. \A n \in Name : Has(t, n) => Has(u, n)
  BY <1>1, <1>2, <1>3, <1>4, FoundHas, UnfoundHas
<1>7. ASSUME s.to # None, resolved[s.to] # None PROVE Passed(s, u, Top.later)
  <2>1. target = resolved[s.to]
    BY <1>7 DEF TargetTable
  <2>2. s.as \in Name
    BY <1>1, <1>2, StatementFields
  <2>3. Has(target, s.name) => Has(u, s.as)
    <3> SUFFICES ASSUME Has(target, s.name) PROVE Has(u, s.as)
      OBVIOUS
    <3>1. found
      BY <1>7 DEF Specifier
    <3>2. Has(Found(t, s, target), s.as)
      BY <1>1, <1>2, <1>3, <1>4, <1>7, <2>2, FoundHas
    <3>3. QED BY <3>1, <3>2
  <2> HIDE DEF u
  <2>4. QED BY <1>1, <1>7, <2>1, <2>3 DEF Passed
<1> HIDE DEF u
<1>8. QED BY <1>1, <1>5, <1>6, <1>7, AdvanceKeeps

LEMMA ReexportNamespaceKeeps ==
    ASSUME IInv, EInv, NEW i, ReexportNamespace(i)
    PROVE  EInv'
<1> DEFINE s == StatementAt(i)
           t == MarkedIf(Top.table, s.as, s.typeOnly)
           y == IF s.to = None THEN UnknownSymbol ELSE NamespaceOf(s.to)
           u == WithSymbol(t, s.as, y)
<1>1. /\ At(i, "namespace") /\ Reached(i) /\ s.kind = "namespace" /\ Advance(i, u)
      /\ UNCHANGED <<program, resolved, resolving, entered>>
  BY DEF ReexportNamespace, At
<1>2. stack # <<>> /\ s \in Statement
  BY <1>1, StatementFacts
<1>3. Top.table \in Table
  BY <1>2, TopFacts
<1>4. s.as \in Name /\ s.typeOnly \in BOOLEAN /\ (s.to # None => s.to \in Module)
  BY <1>1, <1>2, StatementFields
<1>5. t \in Table /\ \A n \in Name : Has(t, n) <=> Has(Top.table, n)
  BY <1>3, <1>4, MarkedIfFits, MarkedIfHas
<1>6. y \in Symbol /\ y # Absent
  BY <1>4, SymbolTypes, SymbolsPresent
<1> HIDE DEF t, y
<1>7. u \in Table /\ Has(u, s.as) /\ \A n \in Name : Has(Top.table, n) => Has(u, n)
  BY <1>4, <1>5, <1>6, WithSymbolFits, WithSymbolHas
<1> HIDE DEF u
<1>8. Passed(s, u, Top.later)
  BY <1>1, <1>7 DEF Passed
<1>9. QED BY <1>1, <1>7, <1>8, AdvanceKeeps

LEMMA ReexportStarKeeps ==
    ASSUME IInv, EInv, NEW i, ReexportStar(i)
    PROVE  EInv'
<1> DEFINE s == StatementAt(i)
           target == TargetTable(s.to)
           opened == [Top.table EXCEPT !.openStar = TRUE]
           typed == [Top.table EXCEPT !.types = @ \cup target.types]
           f == [Top EXCEPT !.todo = @ \ {i}, !.table = typed, !.later = Append(@, target)]
<1>1. /\ At(i, "star") /\ Reached(i) /\ s.kind = "star"
      /\ UNCHANGED <<program, resolved, resolving, entered>>
  BY DEF ReexportStar, At
<1>2. stack # <<>> /\ s \in Statement
  BY <1>1, StatementFacts
<1>3. Top.table \in Table /\ Top \in Frame /\ Top.later \in Seq(Table)
  BY <1>2, TopFacts
<1>4. CASE s.to = None /\ Advance(i, opened)
  <2>1. opened \in Table /\ opened.symbols = Top.table.symbols
    BY <1>3 DEF Table
  <2> HIDE DEF opened
  <2>2. \A n \in Name : Has(Top.table, n) => Has(opened, n)
    BY <2>1 DEF Has
  <2>3. QED BY <1>1, <1>4, <2>1, <2>2, AdvanceKeeps
<1>5. ASSUME s.to # None
      PROVE  /\ target \in Table /\ (resolved[s.to] # None => target = resolved[s.to])
             /\ typed \in Table /\ \A n \in Name : Has(typed, n) <=> Has(Top.table, n)
  <2>1. target \in Table
    BY <1>2, <1>5, TargetFacts
  <2>2. typed \in Table /\ typed.symbols = Top.table.symbols
    BY <1>3, <2>1 DEF Table
  <2> HIDE DEF typed
  <2>3. QED BY <2>1, <2>2 DEF Has, TargetTable
<1>6. CASE s.to # None /\ ~ s.typeOnly /\ Advance(i, StarCopied(typed, target, target.typeOnly))
  <2> DEFINE u == StarCopied(typed, target, target.typeOnly)
  <2> HIDE DEF typed, target
  <2>1. target \in Table /\ typed \in Table /\ target.typeOnly \in SUBSET Name
    BY <1>5, <1>6 DEF Table
  <2>2. u \in Table
    BY <2>1, StarCopiedTyped
  <2>3. \A n \in Name : Has(u, n) <=> Has(typed, n) \/ Has(target, n)
    BY <2>1, StarCopiedHas
  <2> HIDE DEF u
  <2>4. resolved[s.to] # None => Passed(s, u, Top.later)
    BY <1>1, <1>5, <1>6, <2>3 DEF Passed, Coming
  <2>5. QED BY <1>1, <1>5, <1>6, <2>2, <2>3, <2>4, AdvanceKeeps DEF u
<1>7. CASE s.to # None /\ s.typeOnly /\ SetTop(f)
  <2> HIDE DEF typed, target
  <2> DEFINE l == Append(Top.later, target)
             c == Len(Top.later)
  <2>1. /\ target \in Table /\ (resolved[s.to] # None => target = resolved[s.to])
        /\ typed \in Table /\ \A n \in Name : Has(typed, n) <=> Has(Top.table, n)
    BY <1>5, <1>7
  <2>2. /\ l \in Seq(Table) /\ Len(l) = c + 1 /\ c \in Nat
        /\ \A k \in 1..c : l[k] = Top.later[k]
        /\ l[c + 1] = target
    BY <1>3, <2>1, AppendProperties
  <2>3. /\ f \in Frame /\ f.module = Top.module /\ f.todo = Top.todo \ {i} /\ f.table = typed
        /\ f.later = l
    BY <1>3, <2>1, <2>2 DEF Frame
  <2> HIDE DEF f, l
  <2>4. (\A k \in 1..c : k \in 1..Len(l)) /\ c + 1 \in 1..Len(l)
    BY <2>2
  <2>5. \A n \in Name : Coming(Top.table, Top.later, n) => Coming(typed, l, n)
    BY <2>1, <2>2, <2>4 DEF Coming
  <2>6. \A n \in Name : Has(target, n) => Coming(typed, l, n)
    BY <2>2, <2>4 DEF Coming
  <2>7. resolved[s.to] # None => Passed(s, typed, l)
    BY <1>1, <1>7, <2>1, <2>6 DEF Passed
  <2>8. QED BY <1>1, <1>7, <2>1, <2>3, <2>5, <2>7, StatementKeeps
<1>8. QED BY <1>4, <1>6, <1>7 DEF ReexportStar

LEMMA CopyTypeOnlyStarKeeps ==
    ASSUME IInv, EInv, CopyTypeOnlyStar
    PROVE  EInv'
<1> DEFINE target == Head(Top.later)
           t == LaterStar(Top.table, target)
           f == [Top EXCEPT !.table = t, !.later = Tail(@)]
           m == Top.module
<1>1. /\ stack # <<>> /\ Top.later # <<>> /\ SetTop(f)
      /\ UNCHANGED <<program, resolved, resolving, entered>>
  BY DEF CopyTypeOnlyStar
<1>2. /\ Top \in Frame /\ FrameFits(Top) /\ Top.later \in Seq(Table) /\ Top.table \in Table
      /\ m \in Module /\ TableFits(m, Top.table)
      /\ Len(stack) \in 1..Len(stack) /\ Top = stack[Len(stack)]
  BY <1>1, TopFacts DEF FrameFits
<1>3. /\ 1 \in 1..Len(Top.later) /\ target = Top.later[1]
      /\ Tail(Top.later) \in Seq(Table) /\ Len(Tail(Top.later)) = Len(Top.later) - 1
      /\ \A k \in 1..Len(Tail(Top.later)) : Tail(Top.later)[k] = Top.later[k + 1]
      /\ Len(Top.later) \in Nat
  BY <1>1, <1>2, HeadTailProperties
<1>4. target \in Table /\ SymbolsFit(m, target)
  BY <1>2, <1>3, ElementOfSeq DEF FrameFits
<1>5. t \in Table /\ \A n \in Name : Has(t, n) <=> Has(Top.table, n) \/ Has(target, n)
  BY <1>2, <1>4, StarCopiedFits, StarCopiedHas DEF LaterStar
<1>6. target = Top.later[1]
  BY <1>3
<1> HIDE DEF target, t
<1>7. /\ f \in Frame /\ f.module = m /\ f.todo = Top.todo /\ f.table = t
      /\ f.later = Tail(Top.later)
  BY <1>2, <1>3, <1>5 DEF Frame
<1> HIDE DEF f
<1>8. ASSUME NEW n \in Name, Coming(Top.table, Top.later, n) PROVE Coming(f.table, f.later, n)
  <2>1. CASE Has(Top.table, n)
    BY <1>5, <1>7, <2>1 DEF Coming
  <2>2. ASSUME NEW j \in 1..Len(Top.later), Has(Top.later[j], n)
        PROVE  Coming(f.table, f.later, n)
    <3>1. CASE j = 1
      BY <1>5, <1>6, <1>7, <2>2, <3>1 DEF Coming
    <3>2. CASE j # 1
      <4>1. j - 1 \in 1..Len(f.later) /\ (j - 1) + 1 = j
        BY <1>3, <1>7, <3>2
      <4>2. f.later[j - 1] = Top.later[j]
        BY <1>3, <1>7, <4>1
      <4>3. QED BY <2>2, <4>1, <4>2 DEF Coming
    <3>3. QED BY <3>1, <3>2
  <2>3. QED BY <1>8, <2>1, <2>2 DEF Coming
<1>9. DoneBy(f) = DoneBy(Top)
  BY <1>7 DEF DoneBy
<1>10. TargetsVisited(m, DoneBy(f))
  BY <1>2, <1>9 DEF EInv, VisitInv
<1>11. \A n \in Name : Holds(Top, n) => Holds(f, n)
  BY <1>7, <1>8 DEF Holds
<1>12. ASSUME CycleFree(m) PROVE PassedOn(m, DoneBy(f), f.table, f.later)
  <2>1. PassedOn(m, DoneBy(Top), Top.table, Top.later)
    BY <1>2, <1>12 DEF EInv, FreeInv
  <2>2. \A n \in Name : Has(Top.table, n) => Has(f.table, n)
    BY <1>5, <1>7
  <2>3. QED BY <1>2, <1>7, <1>8, <1>9, <2>1, <2>2, PassedGrows DEF IInv
<1>13. QED BY <1>1, <1>7, <1>10, <1>11, <1>12, TopKeeps

\* A module is entered: from a statement that is left, or by the outer loop, and
\* then what it can reach was not visited or it is no entry.
LEMMA PushKeeps ==
    ASSUME IInv, EInv, NEW m \in Module, Push(m), Unentered(m),
           program' = program, resolved' = resolved,
           stack # <<>> => /\ entered' = entered
                           /\ \E i \in Top.todo : TargetAt(Top.module, i) = m,
           stack = <<>> => /\ entered' \in {entered, entered \cup {m}}
                           /\ m \in entered' => \A x \in Reach(m) : resolved[x] = None
    PROVE  EInv'
<1> DEFINE h == Len(stack)
           f == [module |-> m, todo |-> DOMAIN program.exports[m],
                 table |-> LocalTable(m), later |-> <<>>]
<1>1. /\ stack' = Append(stack, f) /\ stack \in Seq(Frame)
      /\ resolving' = [resolving EXCEPT ![m] = TRUE]
  BY DEF Push, IInv, Typed
<1>2. f.module = m /\ f.todo = DOMAIN program.exports[m] /\ f.table = LocalTable(m)
      /\ f.later = <<>>
  OBVIOUS
<1>3. LocalTable(m) \in Table /\ <<>> \in Seq(Table) /\ DOMAIN program.exports[m] \in SUBSET Nat
  <2>1. program.exports[m] \in Seq(Statement)
    BY ExportTablesAssumption DEF IInv, Typed, Program
  <2>2. QED BY <2>1, LocalTableFits DEF IInv
<1>4. f \in Frame
  BY <1>3 DEF Frame
<1> HIDE DEF f
<1>5. /\ Len(stack') = h + 1 /\ h \in Nat
      /\ \A k \in 1..h : stack'[k] = stack[k]
      /\ stack'[h + 1] = f
  BY <1>1, <1>4, AppendProperties
<1>6. /\ \A k \in 1..(h + 1) : k \in 1..h \/ k = h + 1
      /\ \A k \in 1..h : k \in 1..(h + 1) /\ k # h + 1
      /\ h + 1 \in 1..(h + 1) /\ 1 \in 1..(h + 1)
  BY <1>5
<1>7. stack' # <<>> /\ (stack # <<>> <=> h # 0)
  BY <1>1, <1>4, <1>5
<1> HIDE DEF h
<1>8. h = Len(stack)
  BY DEF h
<1>9. \A k \in 1..h : stack[k].module \in Module /\ stack[k].module # m
  BY <1>8, FrameFacts DEF EInv, ProgressInv, Unentered
<1>10. /\ resolving \in [Module -> BOOLEAN] /\ resolving' \in [Module -> BOOLEAN]
       /\ \A x \in Module : resolving'[x] <=> x = m \/ resolving[x]
  BY <1>1 DEF EInv, ProgressInv
<1>11. \A x \in Module : Visited(x)' <=> x = m \/ Visited(x)
  BY <1>10 DEF Visited
<1>12. ProgressInv'
  <2>1. \A x \in Module : resolving'[x] <=> \E k \in 1..(h + 1) : stack'[k].module = x
    BY <1>2, <1>5, <1>6, <1>8, <1>10 DEF EInv, ProgressInv
  <2>2. \A x \in Module : resolving'[x] => resolved'[x] = None
    BY <1>10 DEF EInv, ProgressInv, Unentered
  <2>3. \A j, k \in 1..(h + 1) : stack'[j].module = stack'[k].module => j = k
    BY <1>2, <1>5, <1>6, <1>8, <1>9 DEF EInv, ProgressInv
  <2>4. QED BY <1>5, <1>10, <2>1, <2>2, <2>3 DEF ProgressInv
<1>13. ChainInv'
  <2>1. \A k \in 1..(h + 1) : k < h + 1 => \E i \in stack'[k].todo :
            TargetAt(stack'[k].module, i) = stack'[k + 1].module
    <3> SUFFICES ASSUME NEW k \in 1..(h + 1), k < h + 1
                 PROVE  \E i \in stack'[k].todo :
                            TargetAt(stack'[k].module, i) = stack'[k + 1].module
      OBVIOUS
    <3>1. k \in 1..h /\ stack'[k] = stack[k]
      BY <1>5, <1>6
    <3>2. CASE k = h
      <4>1. stack # <<>> /\ Top = stack[h] /\ stack'[k + 1].module = m
        BY <1>2, <1>5, <1>7, <1>8, <3>1, <3>2 DEF Top
      <4>2. QED BY <3>1, <3>2, <4>1
    <3>3. CASE k # h
      <4>1. k < h /\ k + 1 \in 1..h
        BY <1>5, <3>1, <3>3
      <4>2. QED BY <1>5, <1>8, <3>1, <4>1 DEF EInv, ChainInv
    <3>4. QED BY <3>2, <3>3
  <2>2. ASSUME NEW j \in 1..(h + 1), NEW k \in 1..(h + 1), j <= k
        PROVE  stack'[k].module \in Reach(stack'[j].module)
    <3>1. CASE k \in 1..h
      <4>1. j \in 1..h
        BY <1>5, <2>2, <3>1
      <4>2. QED BY <1>5, <1>8, <2>2, <3>1, <4>1 DEF EInv, ChainInv
    <3>2. CASE k = h + 1 /\ j = h + 1
      BY <1>2, <1>5, <3>2, ReachLeast DEF IInv
    <3>3. CASE k = h + 1 /\ j \in 1..h
      <4>1. stack # <<>> /\ h \in 1..h /\ j <= h /\ Top = stack[h]
        BY <1>5, <1>7, <1>8, <3>3 DEF Top
      <4>2. PICK i \in Top.todo : TargetAt(Top.module, i) = m
        BY <4>1
      <4>3. Top.module \in Reach(stack[j].module)
        BY <1>8, <3>3, <4>1 DEF EInv, ChainInv
      <4>4. i \in DOMAIN program.exports[Top.module] /\ Top.module \in Module
        BY <1>8, <4>1, FrameFacts
      <4>5. /\ program.exports[Top.module][i] \in ToSet(program.exports[Top.module])
            /\ program.exports[Top.module][i].to = m /\ m # None
        BY <4>2, <4>4, StatementOfModule, ExportTablesAssumption DEF TargetAt, IInv
      <4>6. m \in Reach(stack[j].module)
        BY <1>9, <3>3, <4>3, <4>5, ReachLeast DEF IInv
      <4>7. QED BY <1>2, <1>5, <3>3, <4>6
    <3>4. QED BY <1>6, <3>1, <3>2, <3>3
  <2>3. QED BY <1>5, <2>1, <2>2, ShapeConstant DEF ChainInv
<1>14. ASSUME NEW x \in Module, NEW d \in SUBSET (DOMAIN program.exports[x]), TargetsVisited(x, d)
       PROVE  TargetsVisited(x, d)'
  <2>1. \A i \in d : TargetAt(x, i) # None => TargetAt(x, i) \in Module
    BY StatementOfModule, StatementFields DEF TargetAt, IInv
  <2>2. \A i \in d : TargetAt(x, i) # None => Visited(TargetAt(x, i))'
    BY <1>11, <1>14, <2>1, ShapeConstant DEF TargetsVisited
  <2>3. QED BY <2>2, ShapeConstant DEF TargetsVisited
<1>15. DoneBy(f) = {}
  BY <1>2 DEF DoneBy
<1>16. VisitInv'
  <2>1. \A x \in Module : resolved'[x] # None => TargetsVisited(x, DOMAIN program.exports[x])'
    BY <1>14 DEF EInv, VisitInv
  <2>2. ASSUME NEW k \in 1..(h + 1)
        PROVE  TargetsVisited(stack[k].module, DoneBy(stack[k]))'
    <3>1. CASE k \in 1..h
      <4> DEFINE g == stack[k]
      <4>1. g.module \in Module /\ DoneBy(g) \in SUBSET (DOMAIN program.exports[g.module])
            /\ TargetsVisited(g.module, DoneBy(g))
        BY <1>8, <1>9, <3>1 DEF DoneBy, EInv, VisitInv
      <4>2. QED BY <1>5, <1>14, <3>1, <4>1, ShapeConstant
    <3>2. CASE k = h + 1
      BY <1>5, <1>15, <3>2, ShapeConstant DEF TargetsVisited
    <3>3. QED BY <1>6, <3>1, <3>2
  <2>3. QED BY <1>5, <2>1, <2>2 DEF VisitInv
<1>17. HeldInv'
  <2> SUFFICES ASSUME stack'[1].module \in entered', StarsOnly(stack'[1].module),
                      NEW x \in Reach(stack'[1].module), Visited(x)', NEW n \in program.locals[x]
               PROVE  \E k \in 1..(h + 1) : Holds(stack'[k], n)
    BY <1>5, <1>7, ShapeConstant, ViewConstant DEF HeldInv
  <2>1. stack'[1].module \in Module
    BY <1>2, <1>5, <1>6, <1>9
  <2>2. x \in Module
    BY <2>1, ReachLeast DEF IInv
  <2>3. CASE x = m
    <3>1. Holds(f, n)
      BY <1>2, <2>3, LocalTableHas DEF Holds, Coming, IInv
    <3>2. QED BY <1>5, <1>6, <3>1
  <2>4. CASE x # m /\ stack # <<>>
    <3>1. 1 \in 1..h /\ stack'[1] = stack[1]
      BY <1>5, <1>7, <2>4
    <3>2. PICK k \in 1..h : Holds(stack[k], n)
      BY <1>8, <1>11, <2>2, <2>4, <3>1 DEF EInv, HeldInv
    <3>3. QED BY <1>5, <1>6, <3>2
  <2>5. CASE x # m /\ stack = <<>>
    <3>1. h = 0 /\ stack'[1].module = m
      BY <1>2, <1>5, <1>7, <2>5
    <3>2. resolved[x] = None /\ Visited(x)
      BY <1>11, <2>2, <2>5, <3>1
    <3>3. \E k \in 1..h : stack[k].module = x
      BY <1>8, <2>2, <3>2 DEF Visited, EInv, ProgressInv
    <3>4. QED BY <1>5, <3>1, <3>3
  <2>6. QED BY <2>3, <2>4, <2>5
<1>18. EntryInv'
  <2>1. \A y \in entered' : y \in entered \/ (stack = <<>> /\ y = m)
    OBVIOUS
  <2>2. entered' \subseteq Module
    BY <2>1 DEF EInv, EntryInv
  <2>3. \A y \in entered' : resolved'[y] = None => stack'[1].module = y
    <3>1. stack # <<>> => stack'[1] = stack[1]
      BY <1>5, <1>7
    <3>2. stack = <<>> => stack'[1].module = m
      BY <1>2, <1>5, <1>7
    <3>3. QED BY <2>1, <3>1, <3>2 DEF EInv, EntryInv
  <2>4. \A y \in entered' : (resolved'[y] # None /\ StarsOnly(y)) =>
            \A x \in Reach(y) : \A n \in program.locals[x] : Has(resolved[y], n)
    BY <2>1 DEF EInv, EntryInv, Unentered
  <2>5. QED BY <1>7, <2>2, <2>3, <2>4, ShapeConstant DEF EntryInv
<1>19. FreeInv'
  <2>1. ASSUME NEW k \in 1..(h + 1), CycleFree(stack'[k].module)
        PROVE  PassedOn(stack'[k].module, DoneBy(stack'[k]), stack'[k].table, stack'[k].later)
    <3>1. CASE k \in 1..h
      BY <1>5, <1>8, <2>1, <3>1 DEF EInv, FreeInv
    <3>2. CASE k = h + 1
      BY <1>2, <1>5, <1>15, <3>2, LocalTableHas DEF PassedOn, IInv
    <3>3. QED BY <1>6, <3>1, <3>2
  <2>2. QED BY <1>5, <2>1, ShapeConstant, ViewConstant DEF EInv, FreeInv
<1>20. QED BY <1>12, <1>13, <1>16, <1>17, <1>18, <1>19 DEF EInv

\* A module is finished.  A name that only it held is now the finished table of a
\* statement that is left below it; and when it is the entry, all that it reaches
\* was visited, so that its table is all there is to hold a name.
LEMMA FinishKeeps ==
    ASSUME IInv, EInv, FinishModule
    PROVE  EInv'
<1> DEFINE m == Top.module
           h == Len(stack)
           q == h - 1
<1>1. /\ stack # <<>> /\ stack' = Front(stack) /\ Top.todo = {} /\ Top.later = <<>>
      /\ resolved' = [resolved EXCEPT ![m] = Top.table]
      /\ resolving' = [resolving EXCEPT ![m] = FALSE]
      /\ program' = program /\ entered' = entered
  BY DEF FinishModule
<1>2. /\ m \in Module /\ Top.table \in Table /\ Top.table # None
      /\ h \in 1..h /\ Top = stack[h]
  BY <1>1, TopFacts, NoneAssumption
<1>3. /\ stack \in Seq(Frame) /\ resolved \in [Module -> Table \cup {None}]
      /\ h \in Nat /\ q \in Nat /\ q < h /\ 1 \in 1..h
  BY <1>1, <1>2 DEF IInv, Typed
<1>4. \A k \in 1..q : k \in 1..h /\ k # h /\ stack[k] \in Frame
  <2>1. \A k \in 1..q : k \in 1..h /\ k # h
    BY <1>3
  <2>2. QED BY <1>3, <2>1, ElementOfSeq
<1>5. \A k \in 1..h : k \in 1..q \/ k = h
  BY <1>3
<1>6. Len(stack') = q /\ \A k \in 1..q : stack'[k] = stack[k]
  <2>1. stack' = SubSeq(stack, 1, q)
    BY <1>1 DEF Front
  <2>2. SubSeq(stack, 1, q) = [k \in 1..q |-> stack[k]]
    BY <1>3
  <2> HIDE DEF q
  <2>3. stack' \in [1..q -> Frame]
    BY <1>4, <2>1, <2>2
  <2>4. Len(stack') = q
    BY <1>3, <2>3, IsASeq
  <2>5. \A k \in 1..q : stack'[k] = stack[k]
    BY <2>1, <2>2
  <2>6. QED BY <2>4, <2>5
<1>7. stack' # <<>> => 1 \in 1..q
  <2>1. stack' # <<>> => Len(stack') # 0
    <3>1. stack' = SubSeq(stack, 1, q)
      BY <1>1 DEF Front
    <3>2. QED BY <1>3, <1>6, <3>1
  <2>2. QED BY <1>3, <1>6, <2>1
<1>8. q = 0 => h = 1
  BY <1>3
<1>9. \A k \in 1..q : k < q => k < h /\ k + 1 \in 1..q /\ k + 1 \in 1..h
  BY <1>3
<1>10. q = h - 1
  OBVIOUS
<1> HIDE DEF q
<1>11. h = Len(stack)
  OBVIOUS
<1> HIDE DEF h
<1>12. \A k \in 1..h : stack[k].module \in Module
  BY <1>11, FrameFacts
<1>13. /\ resolving[m] /\ resolved[m] = None
       /\ \A k \in 1..q : stack[k].module # m
  BY <1>2, <1>4, <1>11 DEF EInv, ProgressInv
<1>14. /\ resolved'[m] = Top.table /\ resolved'[m] # None
       /\ \A x \in Module : x # m => resolved'[x] = resolved[x]
       /\ \A x \in Module : resolved[x] # None => resolved'[x] = resolved[x]
  BY <1>1, <1>2, <1>3, <1>13
<1>15. /\ resolving' \in [Module -> BOOLEAN]
       /\ \A x \in Module : resolving'[x] <=> x # m /\ resolving[x]
  BY <1>1 DEF EInv, ProgressInv
<1>16. \A x \in Module : Visited(x)' <=> Visited(x)
  BY <1>13, <1>14, <1>15 DEF Visited
<1>17. ProgressInv'
  <2>1. \A x \in Module : resolving'[x] <=> \E k \in 1..q : stack'[k].module = x
    BY <1>2, <1>4, <1>5, <1>6, <1>11, <1>13, <1>15 DEF EInv, ProgressInv
  <2>2. \A x \in Module : resolving'[x] => resolved'[x] = None
    BY <1>14, <1>15 DEF EInv, ProgressInv
  <2>3. \A j, k \in 1..q : stack'[j].module = stack'[k].module => j = k
    BY <1>4, <1>6, <1>11 DEF EInv, ProgressInv
  <2>4. QED BY <1>6, <1>15, <2>1, <2>2, <2>3 DEF ProgressInv
<1>18. ChainInv'
  <2>1. \A k \in 1..q : k < q => \E i \in stack'[k].todo :
            TargetAt(stack'[k].module, i) = stack'[k + 1].module
    BY <1>4, <1>6, <1>9, <1>11 DEF EInv, ChainInv
  <2>2. \A j, k \in 1..q : j <= k => stack'[k].module \in Reach(stack'[j].module)
    BY <1>4, <1>6, <1>11 DEF EInv, ChainInv
  <2>3. QED BY <1>1, <1>6, <2>1, <2>2, ShapeConstant DEF ChainInv
<1>19. ASSUME NEW x \in Module, NEW i \in DOMAIN program.exports[x]
       PROVE  /\ program.exports[x][i] \in ToSet(program.exports[x])
              /\ program.exports[x][i] \in Statement
              /\ program.exports[x][i].to # None => program.exports[x][i].to \in Module
  BY StatementOfModule, StatementFields DEF IInv
<1>20. ASSUME NEW x \in Module, NEW d \in SUBSET (DOMAIN program.exports[x]), TargetsVisited(x, d)
       PROVE  TargetsVisited(x, d)'
  <2>1. \A i \in d : TargetAt(x, i) # None => TargetAt(x, i) \in Module
    BY <1>19 DEF TargetAt
  <2>2. QED BY <1>1, <1>16, <1>20, <2>1, ShapeConstant DEF TargetsVisited
<1>21. VisitInv'
  <2>1. ASSUME NEW x \in Module, resolved'[x] # None
        PROVE  TargetsVisited(x, DOMAIN program.exports[x])'
    <3>1. TargetsVisited(x, DOMAIN program.exports[x])
      <4>1. CASE x = m
        BY <1>1, <1>2, <1>11, <4>1 DEF EInv, VisitInv, DoneBy
      <4>2. CASE x # m
        BY <1>14, <2>1, <4>2 DEF EInv, VisitInv
      <4>3. QED BY <4>1, <4>2
    <3>2. QED BY <1>1, <1>20, <3>1
  <2>2. ASSUME NEW k \in 1..q PROVE TargetsVisited(stack[k].module, DoneBy(stack[k]))'
    <3> DEFINE g == stack[k]
    <3>1. g.module \in Module /\ DoneBy(g) \in SUBSET (DOMAIN program.exports[g.module])
          /\ TargetsVisited(g.module, DoneBy(g))
      BY <1>4, <1>11, <1>12 DEF DoneBy, EInv, VisitInv
    <3>2. QED BY <1>1, <1>6, <1>20, <3>1, ShapeConstant
  <2>3. QED BY <1>6, <2>1, <2>2 DEF VisitInv
<1>22. ASSUME NEW n, Holds(Top, n) PROVE Has(Top.table, n)
  <2>1. 1..Len(<<>>) = {}
    OBVIOUS
  <2>2. QED BY <1>1, <1>22, <2>1 DEF Holds, Coming
<1>23. ASSUME NEW g, g.module \in Module, g.todo \subseteq DOMAIN program.exports[g.module],
              NEW n, Holds(g, n)
       PROVE  Holds(g, n)'
  <2>1. CASE Coming(g.table, g.later, n)
    BY <2>1 DEF Holds
  <2>2. ASSUME NEW i \in g.todo, TargetAt(g.module, i) # None,
               resolved[TargetAt(g.module, i)] # None, Has(resolved[TargetAt(g.module, i)], n)
        PROVE  Holds(g, n)'
    <3>1. TargetAt(g.module, i) \in Module /\ TargetAt(g.module, i)' = TargetAt(g.module, i)
      BY <1>1, <1>19, <1>23, <2>2, ShapeConstant DEF TargetAt
    <3>2. resolved'[TargetAt(g.module, i)] = resolved[TargetAt(g.module, i)]
      BY <1>14, <2>2, <3>1
    <3>3. QED BY <2>2, <3>1, <3>2 DEF Holds
  <2>3. QED BY <1>23, <2>1, <2>2 DEF Holds
<1>24. ASSUME stack' # <<>>, NEW n, NEW k \in 1..h, Holds(stack[k], n)
       PROVE  \E j \in 1..q : Holds(stack[j], n)'
  <2>1. q \in 1..q /\ q + 1 = h /\ q < h
    BY <1>3, <1>7, <1>10, <1>24
  <2>2. CASE k \in 1..q
    <3>1. stack[k].module \in Module /\ stack[k].todo \subseteq DOMAIN program.exports[stack[k].module]
      BY <1>11, FrameFacts
    <3>2. QED BY <1>6, <1>23, <1>24, <2>2, <3>1
  <2>3. CASE k = h
    <3>1. Has(Top.table, n)
      BY <1>2, <1>22, <1>24, <2>3
    <3>2. PICK b \in 1..q : b = q
      BY <2>1
    <3>3. b \in 1..h /\ b < h /\ b + 1 = h
      BY <1>4, <2>1, <3>2
    <3>4. PICK i \in stack[b].todo : TargetAt(stack[b].module, i) = m
      BY <1>2, <1>11, <3>3 DEF EInv, ChainInv
    <3>5. /\ m # None /\ m \in Module /\ stack'[b] = stack[b]
          /\ resolved'[m] # None /\ Has(resolved'[m], n)
      <4>1. m # None /\ m \in Module
        BY <1>2, ExportTablesAssumption
      <4>2. stack'[b] = stack[b]
        BY <1>6
      <4>3. QED BY <1>14, <3>1, <4>1, <4>2
    <3>6. i \in stack'[b].todo /\ program'.exports[stack'[b].module][i].to = m
      BY <1>1, <3>4, <3>5 DEF TargetAt
    <3>7. Holds(stack[b], n)'
      <4> HIDE DEF m
      <4>1. QED BY <3>5, <3>6 DEF Holds, TargetAt
    <3>8. QED BY <3>7
  <2>4. QED BY <1>5, <2>2, <2>3
<1>25. HeldInv'
  <2> SUFFICES ASSUME stack' # <<>>, stack'[1].module \in entered, StarsOnly(stack'[1].module),
                      NEW x \in Reach(stack'[1].module), Visited(x)', NEW n \in program.locals[x]
               PROVE  \E k \in 1..q : Holds(stack[k], n)'
    BY <1>1, <1>6, ShapeConstant DEF HeldInv
  <2>1. stack'[1] = stack[1] /\ 1 \in 1..h
    BY <1>4, <1>6, <1>7
  <2>2. x \in Module /\ Visited(x)
    BY <1>12, <1>16, <2>1, ReachLeast DEF IInv
  <2>3. PICK k \in 1..h : Holds(stack[k], n)
    BY <1>1, <1>11, <2>1, <2>2 DEF EInv, HeldInv
  <2>4. QED BY <1>24, <2>3
<1>26. EntryInv'
  <2>1. \A y \in entered' : resolved'[y] = None => stack' # <<>> /\ stack'[1].module = y
    <3> SUFFICES ASSUME NEW y \in entered, resolved'[y] = None
                 PROVE  stack' # <<>> /\ stack'[1].module = y
      BY <1>1
    <3>1. y \in Module /\ y # m /\ resolved[y] = None
      BY <1>14 DEF EInv, EntryInv
    <3>2. stack[1].module = y
      BY <3>1 DEF EInv, EntryInv
    <3>3. 1 \in 1..q
      BY <1>2, <1>3, <1>5, <3>1, <3>2
    <3>4. Len(stack') # 0
      BY <1>3, <1>6, <3>3
    <3>5. stack' # <<>>
      BY <3>4
    <3>6. QED BY <1>6, <3>2, <3>3, <3>5
  <2>2. ASSUME NEW y \in entered, resolved'[y] # None, StarsOnly(y),
               NEW x \in Reach(y), NEW n \in program.locals[x]
        PROVE  Has(resolved'[y], n)
    <3>1. y \in Module
      BY DEF EInv, EntryInv
    <3>2. CASE y # m
      BY <1>14, <2>2, <3>1, <3>2 DEF EInv, EntryInv
    <3>3. CASE y = m
      <4>1. stack[1].module = m
        BY <1>13, <3>3 DEF EInv, EntryInv
      <4>2. h = 1
        BY <1>2, <1>3, <1>11, <4>1 DEF EInv, ProgressInv
      <4>3. 1..q = {}
        BY <1>10, <4>2
      <4> DEFINE V == {z \in Module : resolved'[z] # None}
      <4>4. \A z \in Module : Visited(z)' => z \in V
        BY <1>6, <1>17, <4>3 DEF ProgressInv, Visited
      <4>5. ASSUME NEW z \in V, NEW s \in ToSet(program.exports[z]), s.to # None
            PROVE  s.to \in V
        <5>1. PICK i \in DOMAIN program.exports[z] : s = program.exports[z][i]
          BY DEF ToSet
        <5>2. TargetAt(z, i)' = s.to /\ s.to \in Module
          BY <1>1, <1>19, <4>5, <5>1 DEF TargetAt
        <5>3. TargetsVisited(z, DOMAIN program.exports[z])'
          BY <1>21 DEF VisitInv
        <5>4. Visited(TargetAt(z, i))'
          BY <1>1, <4>5, <5>2, <5>3 DEF TargetsVisited
        <5>5. \A w : w = TargetAt(z, i)' => (Visited(TargetAt(z, i))' <=> Visited(w)')
          BY DEF Visited
        <5>6. Visited(s.to)
          BY <1>16, <5>2, <5>4, <5>5
        <5>7. QED BY <1>16, <4>4, <5>2, <5>6
      <4>6. m \in V
        BY <1>2, <1>14
      <4>7. Reach(m) \subseteq V
        BY <1>2, <4>5, <4>6, ReachLeast DEF IInv
      <4>8. x \in Module /\ Visited(x)
        BY <1>16, <3>3, <4>7 DEF Visited
      <4>9. PICK k \in 1..h : Holds(stack[k], n)
        BY <1>1, <1>11, <2>2, <3>3, <4>1, <4>8 DEF EInv, HeldInv
      <4>10. k = h
        BY <4>2
      <4>11. QED BY <1>2, <1>14, <1>22, <3>3, <4>9, <4>10
    <3>4. QED BY <3>2, <3>3
  <2>3. QED BY <1>1, <2>1, <2>2, ShapeConstant DEF EInv, EntryInv
<1>27. ASSUME NEW x \in Module, NEW d \in SUBSET (DOMAIN program.exports[x]), NEW t, NEW l,
              PassedOn(x, d, t, l)
       PROVE  PassedOn(x, d, t, l)'
  <2>1. ASSUME NEW i \in d PROVE Passed(program.exports[x][i], t, l)'
    <3> DEFINE z == program.exports[x][i]
    <3>1. Passed(z, t, l) /\ (z.to # None => z.to \in Module)
      BY <1>19, <1>27 DEF PassedOn
    <3>2. \A s : (s.to # None => s.to \in Module) /\ Passed(s, t, l) => Passed(s, t, l)'
      BY <1>14 DEF Passed
    <3> HIDE DEF z
    <3>3. z' = z
      BY <1>1 DEF z
    <3>4. Passed(z, t, l)'
      BY <3>1, <3>2, <3>3
    <3>5. QED BY <3>4 DEF z
  <2>2. QED BY <1>1, <1>27, <2>1 DEF PassedOn
<1>28. FreeInv'
  <2>1. ASSUME NEW x \in Module, resolved'[x] # None, CycleFree(x)
        PROVE  PassedOn(x, DOMAIN program.exports[x], resolved'[x], <<>>)
    <3>1. CASE x = m
      <4>1. PassedOn(m, DoneBy(Top), Top.table, Top.later)
        BY <1>2, <1>11, <2>1, <3>1 DEF EInv, FreeInv
      <4>2. DoneBy(Top) = DOMAIN program.exports[m]
        BY <1>1 DEF DoneBy
      <4>3. QED BY <1>1, <1>14, <3>1, <4>1, <4>2
    <3>2. CASE x # m
      BY <1>14, <2>1, <3>2 DEF EInv, FreeInv
    <3>3. QED BY <3>1, <3>2
  <2>2. ASSUME NEW k \in 1..q, CycleFree(stack[k].module)
        PROVE  /\ PassedOn(stack[k].module, DoneBy(stack[k]), stack[k].table, stack[k].later)
               /\ stack[k].module \in Module
               /\ DoneBy(stack[k]) \in SUBSET (DOMAIN program.exports[stack[k].module])
    BY <1>4, <1>11, <1>12, <2>2 DEF EInv, FreeInv, DoneBy
  <2>3. \A x \in Module : (resolved[x] # None /\ CycleFree(x) =>
            PassedOn(x, DOMAIN program.exports[x], resolved[x], <<>>))'
    BY <1>1, <1>27, <2>1, ShapeConstant
  <2>4. ASSUME NEW g, g.module \in Module,
               DoneBy(g) \in SUBSET (DOMAIN program.exports[g.module]),
               PassedOn(g.module, DoneBy(g), g.table, g.later)
        PROVE  PassedOn(g.module, DoneBy(g), g.table, g.later)'
    <3>1. DoneBy(g)' = DoneBy(g)
      BY <1>1, ShapeConstant
    <3>2. QED BY <1>27, <2>4, <3>1
  <2>5. \A k \in 1..q : (CycleFree(stack[k].module) =>
            PassedOn(stack[k].module, DoneBy(stack[k]), stack[k].table, stack[k].later))'
    BY <1>1, <1>6, <2>2, <2>4, ShapeConstant
  <2>6. QED BY <1>6, <2>3, <2>5 DEF FreeInv
<1>29. QED BY <1>17, <1>18, <1>21, <1>25, <1>26, <1>28 DEF EInv

LEMMA StutterKeeps ==
    ASSUME EInv, UNCHANGED <<program, resolved, resolving, stack, entered>>
    PROVE  EInv'
<1>1. ProgressInv' /\ ChainInv'
  BY ShapeConstant DEF EInv, ProgressInv, ChainInv
<1>2. VisitInv'
  BY ShapeConstant DEF EInv, VisitInv, TargetsVisited, Visited
<1>3. HeldInv' /\ EntryInv'
  BY ShapeConstant, ViewConstant DEF EInv, HeldInv, EntryInv, Visited
<1>4. FreeInv'
  BY ShapeConstant, ViewConstant DEF EInv, FreeInv
<1>5. QED BY <1>1, <1>2, <1>3, <1>4 DEF EInv

LEMMA InitEInv ==
    ASSUME Init
    PROVE  EInv
<1>1. 1..Len(stack) = {} /\ stack = <<>> /\ entered = {}
  BY DEF Init
<1>2. /\ resolving = [x \in Module |-> FALSE]
      /\ \A x \in Module : resolved[x] = None
  BY DEF Init
<1>3. ProgressInv /\ ChainInv
  BY <1>1, <1>2 DEF ProgressInv, ChainInv
<1>4. VisitInv /\ HeldInv /\ EntryInv /\ FreeInv
  BY <1>1, <1>2 DEF VisitInv, HeldInv, EntryInv, FreeInv
<1>5. QED BY <1>3, <1>4 DEF EInv

LEMMA ResolveNextKeeps ==
    ASSUME IInv, EInv, ResolveNext
    PROVE  EInv'
<1>1. /\ stack = <<>> /\ next \in 1..(N + 1) /\ next <= N
      /\ program' = program /\ resolved' = resolved
  BY DEF ResolveNext, IInv, Typed
<1>2. next \in Module
  BY <1>1, ExportTablesAssumption DEF Module
<1>3. CASE resolved[next] = None
  <2>1. 1..Len(stack) = {}
    BY <1>1
  <2>2. Unentered(next)
    BY <1>2, <1>3, <2>1 DEF Unentered, EInv, ProgressInv
  <2>3. next \notin entered
    BY <1>1, <1>3 DEF EInv, EntryInv
  <2>4. /\ Push(next) /\ entered' \in {entered, entered \cup {next}}
        /\ next \in entered' => \A x \in Reach(next) : resolved[x] = None
    BY <1>3, <2>3 DEF ResolveNext
  <2>5. PICK m \in Module : m = next
    BY <1>2
  <2>6. /\ Push(m) /\ Unentered(m) /\ entered' \in {entered, entered \cup {m}}
        /\ m \in entered' => \A x \in Reach(m) : resolved[x] = None
    BY <2>2, <2>4, <2>5
  <2>7. QED BY <1>1, <2>6, PushKeeps
<1>4. CASE resolved[next] # None
  BY <1>1, <1>4, StutterKeeps DEF ResolveNext
<1>5. QED BY <1>3, <1>4

LEMMA DescendKeeps ==
    ASSUME IInv, EInv, NEW i, Descend(i)
    PROVE  EInv'
<1>1. /\ Reached(i) /\ StatementAt(i).to # None /\ Unentered(StatementAt(i).to)
      /\ Push(StatementAt(i).to)
      /\ program' = program /\ resolved' = resolved /\ entered' = entered
  BY DEF Descend
<1>2. stack # <<>> /\ i \in Top.todo /\ StatementAt(i).to \in Module
  BY <1>1, StatementFacts, StatementFields
<1>3. TargetAt(Top.module, i) = StatementAt(i).to
  BY DEF TargetAt, StatementAt
<1>4. PICK m \in Module : m = StatementAt(i).to
  BY <1>2
<1>5. Push(m) /\ Unentered(m) /\ \E j \in Top.todo : TargetAt(Top.module, j) = m
  BY <1>1, <1>2, <1>3, <1>4
<1>6. QED BY <1>1, <1>2, <1>5, PushKeeps

LEMMA NextEInv ==
    ASSUME IInv, EInv, [Next]_vars
    PROVE  EInv'
<1>1. CASE stack # <<>> /\ StatementStep
  BY <1>1, DescendKeeps, ReexportNamedKeeps, ReexportNamespaceKeeps, ReexportStarKeeps
     DEF StatementStep
<1>2. CASE Terminated \/ UNCHANGED vars
  BY <1>2, StutterKeeps DEF Terminated, vars
<1>3. QED BY <1>1, <1>2, ResolveNextKeeps, CopyTypeOnlyStarKeeps, FinishKeeps DEF Next

\* The invariant behind the completeness of an entry: where each name is that the
\* search has come to.
THEOREM CompletenessInvariant == Spec => []EInv
<1>1. Init => EInv
  BY InitEInv
<1>2. IInv /\ EInv /\ [Next]_vars => EInv'
  BY NextEInv
<1>3. QED BY <1>1, <1>2, InductiveInvariant, PTL DEF Spec

\* All that the program exports by the rules has the property of Q, if the rules
\* do not lead out of it.
LEMMA ExportedWithin ==
    ASSUME Typed, NEW Q \in SUBSET All,
           \A x \in Module : \A n \in program.locals[x] : <<x, n, Declared(x, n)>> \in All
                => <<x, n, Declared(x, n)>> \in Q,
           \A x \in Module : \A s \in ToSet(program.exports[x]) :
                (s.kind = "namespace" /\ s.to # None /\ <<x, s.as, NamespaceOf(s.to)>> \in All)
                    => <<x, s.as, NamespaceOf(s.to)>> \in Q,
           \A x \in Module : \A s \in ToSet(program.exports[x]) : \A e \in Q :
                LET d == <<x, IF IsStar(s) THEN e[2] ELSE s.as, e[3]>>
                IN  (/\ s.to # None /\ s.kind # "namespace" /\ e[1] = s.to
                     /\ IsStar(s) \/ e[2] = s.name
                     /\ d \in All) => d \in Q
    PROVE  All \subseteq Q
<1>1. ClosedUnder(program, Statement, All)
  BY RoundsSuffice DEF Typed, All
<1>2. Originals(program, Statement) \subseteq Q
  <2> SUFFICES ASSUME NEW e \in Originals(program, Statement) PROVE e \in Q
    OBVIOUS
  <2>1. e \in All
    BY <1>1 DEF ClosedUnder
  <2>2. QED BY <2>1 DEF Originals
<1>3. ASSUME NEW x \in Module, NEW s \in ToSet(program.exports[x]) \cap Statement
      PROVE  Reexported(x, s, Q) \subseteq Q
  <2> SUFFICES ASSUME NEW d \in Reexported(x, s, Q) PROVE d \in Q
    OBVIOUS
  <2>1. s.to # None /\ s.kind # "namespace"
    BY DEF Reexported
  <2>2. PICK e \in Q : /\ e[1] = s.to /\ (IsStar(s) \/ e[2] = s.name)
                       /\ d = <<x, IF IsStar(s) THEN e[2] ELSE s.as, e[3]>>
    BY <2>1 DEF Reexported
  <2>3. d \in Reexported(x, s, All)
    BY <2>1, <2>2 DEF Reexported
  <2>4. d \in All
    BY <1>1, <2>3 DEF ClosedUnder
  <2>5. QED BY <2>1, <2>2, <2>4
<1>4. ClosedUnder(program, Statement, Q)
  BY <1>2, <1>3 DEF ClosedUnder
<1>5. QED BY <1>4, ExportedLeast DEF All

\* A module that reaches nothing but stars exports declarations of what it reaches.
LEMMA StarsExport ==
    ASSUME Typed, NEW m \in Module, StarsOnly(m), NEW e \in All, e[1] = m
    PROVE  \E x \in Reach(m) : e[2] \in program.locals[x]
<1> DEFINE P(d) == d[1] \in Reach(m) => \E x \in Reach(m) : d[2] \in program.locals[x]
           Q == {d \in All : P(d)}
<1>1. All \subseteq Q
  <2>1. ASSUME NEW x \in Module, NEW n \in program.locals[x] PROVE P(<<x, n, Declared(x, n)>>)
    OBVIOUS
  <2>2. ASSUME NEW x \in Module, NEW s \in ToSet(program.exports[x]), s.kind = "namespace"
        PROVE  P(<<x, s.as, NamespaceOf(s.to)>>)
    BY <2>2 DEF StarsOnly, IsStar
  <2>3. ASSUME NEW x \in Module, NEW s \in ToSet(program.exports[x]), NEW d \in Q,
               s.to # None, d[1] = s.to
        PROVE  P(<<x, IF IsStar(s) THEN d[2] ELSE s.as, d[3]>>)
    BY <2>3, ReachLeast DEF StarsOnly
  <2> HIDE DEF P
  <2>4. QED BY <2>1, <2>2, <2>3, ExportedWithin
<1>2. P(e)
  BY <1>1
<1>3. m \in Reach(m)
  BY ReachLeast
<1>4. QED BY <1>2, <1>3

\* A finished module that reaches no cycle has every name it exports.
LEMMA FreeExport ==
    ASSUME IInv, EInv, NEW m \in Module, CycleFree(m), resolved[m] # None, NEW e \in All, e[1] = m
    PROVE  Has(resolved[m], e[2])
<1> DEFINE P(d) == /\ d[2] \in Name
                   /\ (d[1] \in Module /\ CycleFree(d[1]) /\ resolved[d[1]] # None)
                        => Has(resolved[d[1]], d[2])
           Q == {d \in All : P(d)}
<1>1. \A x \in Module : (CycleFree(x) /\ resolved[x] # None) =>
            PassedOn(x, DOMAIN program.exports[x], resolved[x], <<>>)
  BY DEF EInv, FreeInv
<1>2. ASSUME NEW x \in Module, NEW s \in ToSet(program.exports[x])
      PROVE  /\ s \in Statement
             /\ (CycleFree(x) /\ resolved[x] # None) => Passed(s, resolved[x], <<>>)
             /\ (CycleFree(x) /\ s.to # None) => s.to \in Module /\ CycleFree(s.to)
  <2>1. PICK i \in DOMAIN program.exports[x] : s = program.exports[x][i]
    BY DEF ToSet
  <2>2. s \in Statement
    BY <2>1, StatementOfModule DEF IInv
  <2>3. (CycleFree(x) /\ resolved[x] # None) => Passed(s, resolved[x], <<>>)
    BY <1>1, <2>1 DEF PassedOn
  <2>4. ASSUME CycleFree(x), s.to # None PROVE s.to \in Module /\ CycleFree(s.to)
    <3>1. s.to \in Reach(x)
      BY <2>4, ReachLeast DEF IInv
    <3>2. s.to \in Module /\ Reach(s.to) \subseteq Reach(x)
      BY <3>1, ReachWithin DEF IInv
    <3>3. QED BY <2>4, <3>2 DEF CycleFree
  <2>5. QED BY <2>2, <2>3, <2>4
<1>3. All \subseteq Q
  <2>1. ASSUME NEW x \in Module, NEW n \in program.locals[x] PROVE P(<<x, n, Declared(x, n)>>)
    <3>1. n \in Name
      BY LocalTableHas DEF IInv
    <3>2. QED BY <1>1, <3>1 DEF PassedOn
  <2>2. ASSUME NEW x \in Module, NEW s \in ToSet(program.exports[x]), s.kind = "namespace",
               s.to # None
        PROVE  P(<<x, s.as, NamespaceOf(s.to)>>)
    <3>1. s.as \in Name
      BY <1>2, <2>2, StatementFields
    <3>2. QED BY <1>2, <2>2, <3>1 DEF Passed
  <2>3. ASSUME NEW x \in Module, NEW s \in ToSet(program.exports[x]), NEW d \in Q,
               s.to # None, s.kind # "namespace", d[1] = s.to, IsStar(s) \/ d[2] = s.name
        PROVE  P(<<x, IF IsStar(s) THEN d[2] ELSE s.as, d[3]>>)
    <3> DEFINE n == IF IsStar(s) THEN d[2] ELSE s.as
    <3>1. P(d) /\ s \in Statement
      BY <1>2
    <3>2. n \in Name /\ s.kind \in {"star", "named"} /\ s.to \in Module
      <4>1. s.kind \in {"star", "named"}
        BY <2>3, <3>1 DEF Statement, StatementOf, StarStatement
      <4>2. QED BY <2>3, <3>1, <4>1, StatementFields DEF IsStar
    <3>3. ASSUME CycleFree(x), resolved[x] # None PROVE Has(resolved[x], n)
      <4>1. Passed(s, resolved[x], <<>>) /\ CycleFree(s.to)
        BY <1>2, <2>3, <3>3
      <4>2. resolved[s.to] # None
        BY <2>3, <3>2, <4>1 DEF Passed
      <4>3. Has(resolved[s.to], d[2])
        BY <2>3, <3>1, <3>2, <4>1, <4>2
      <4>4. CASE IsStar(s)
        <5>1. Coming(resolved[x], <<>>, n)
          BY <2>3, <3>2, <4>1, <4>3, <4>4 DEF Passed, IsStar
        <5>2. 1..Len(<<>>) = {}
          OBVIOUS
        <5>3. QED BY <5>1, <5>2 DEF Coming
      <4>5. CASE ~ IsStar(s)
        BY <2>3, <3>2, <4>1, <4>3, <4>5 DEF Passed, IsStar
      <4>6. QED BY <4>4, <4>5
    <3> HIDE DEF n
    <3>4. P(<<x, n, d[3]>>)
      BY <3>2, <3>3
    <3>5. QED BY <3>4 DEF n
  <2> HIDE DEF P
  <2>4. QED BY <2>1, <2>2, <2>3, ExportedWithin DEF IInv
<1>4. P(e)
  BY <1>3
<1>5. QED BY <1>4

\* A module that the loop of resolve_module_export_tables enters before anything
\* it can reach ends with every name that the rules give it, in a cycle of stars
\* as well as where there is no cycle: what the answer for a module in progress
\* (table.rs:806-810) leaves out of an inner table comes by an outer one.
THEOREM AlwaysEntryComplete == Spec => []EntryComplete
<1>1. ASSUME IInv, EInv PROVE EntryComplete
  <2> SUFFICES ASSUME NEW m \in entered, resolved[m] # None, StarsOnly(m) \/ CycleFree(m),
                      NEW e \in All, e[1] = m
               PROVE  Has(resolved[m], e[2])
    BY DEF EntryComplete, All
  <2>1. m \in Module
    BY <1>1 DEF EInv, EntryInv
  <2>2. CASE StarsOnly(m)
    <3>1. PICK x \in Reach(m) : e[2] \in program.locals[x]
      BY <1>1, <2>1, <2>2, StarsExport DEF IInv
    <3>2. QED BY <1>1, <2>2, <3>1 DEF EInv, EntryInv
  <2>3. CASE CycleFree(m)
    BY <1>1, <2>1, <2>3, FreeExport
  <2>4. QED BY <2>2, <2>3
<1>2. QED BY <1>1, InductiveInvariant, CompletenessInvariant, PTL
=============================================================================
