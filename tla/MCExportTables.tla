--------------------------- MODULE MCExportTables ----------------------------
(* Small programs for ExportTables. *)
EXTENDS ExportTables

Star(m, t) == [kind |-> "star", to |-> m, name |-> None, as |-> None, typeOnly |-> t]
Named(m, n, a, t) == [kind |-> "named", to |-> m, name |-> n, as |-> a, typeOnly |-> t]
Namespace(m, a, t) == [kind |-> "namespace", to |-> m, name |-> None, as |-> a, typeOnly |-> t]

\* The names: one for each module.
MCName == Module

Others(m) == Module \ {m}

Three == 1..3

\* At most two stars, or one type-only star.
Stars(m) ==
    {SetToSeq({Star(x, FALSE) : x \in S}) : S \in {T \in SUBSET Others(m) : Cardinality(T) <= 2}}
    \cup {<<Star(x, TRUE)>> : x \in Others(m)}

\* Every graph of stars; module m declares name m.
MCStarPrograms ==
    {[locals |-> [m \in Module |-> {m}], exports |-> <<a, b, c, d>>] :
        a \in Stars(1), b \in Stars(2), c \in Stars(3), d \in Stars(4)}

\* The statements of module m over the names 1 and 2; None is a missing module.
Statements(m) ==
    {Star(x, t) : x \in Three \ {m}, t \in BOOLEAN} \cup {Star(None, FALSE), Named(None, 1, 1, FALSE)}
    \cup {Named(x, 1, a, FALSE) : x \in Three \ {m}, a \in {1, 2}}
    \cup {Named(x, 2, 1, FALSE) : x \in Three \ {m}}
    \cup {Named(x, 1, 2, TRUE) : x \in Three \ {m}}
    \cup {Namespace(x, 2, FALSE) : x \in Three \ {m}} \cup {Namespace(None, 2, TRUE)}

Lists(S, k) == UNION {[1..j -> S] : j \in 0..k}

\* Module 3 declares the name 1, module 4 nothing; at most two statements in module 1, one in 2 and in 3.
MCMixedPrograms ==
    {[locals |-> <<{}, {}, {1}, {}>>, exports |-> <<a, b, c, <<>>>>] :
        a \in {l \in Lists(Statements(1), 2) : Len(l) = 2 => l[2].kind # "named" \/ l[2].to = 3},
        b \in Lists(Statements(2), 1),
        c \in Lists({Star(1, FALSE), Star(2, FALSE), Star(None, FALSE),
                     Named(1, 2, 2, FALSE), Namespace(2, 2, FALSE)}, 1)}

MCPrograms == MCStarPrograms \cup MCMixedPrograms
=============================================================================
