----------------------------- MODULE FileClosure -----------------------------
(***************************************************************************)
(* What the project loader promises: the program is the least set of files *)
(* that holds the roots and the type packages and every readable file that *)
(* a file of the program names.  Nothing else is loaded, nothing is        *)
(* unloaded, and the loader stops only when nothing is missing.            *)
(***************************************************************************)
EXTENDS FiniteSets

VARIABLES
    graph,   \* roots, types, readable: sets of files; names: files named by a file
    loaded,  \* the files of the program
    over     \* has the loader stopped?

vars == <<graph, loaded, over>>

Init ==
    /\ loaded = {}
    /\ over = FALSE

\* The files to load next.
Missing ==
    ((graph.types \cup UNION {graph.names[f] : f \in loaded}) \cap graph.readable) \ loaded

\* The roots come first, all of them.
LoadRoots ==
    /\ loaded = {} /\ ~ over
    /\ graph.roots \subseteq graph.readable
    /\ loaded' = graph.roots
    /\ UNCHANGED <<graph, over>>

Load ==
    /\ loaded # {} /\ ~ over
    /\ \E new \in SUBSET Missing : loaded' = loaded \cup new
    /\ UNCHANGED <<graph, over>>

\* A root that cannot be read ends the load.
Fail ==
    /\ loaded = {} /\ ~ over
    /\ ~ (graph.roots \subseteq graph.readable)
    /\ over' = TRUE
    /\ UNCHANGED <<graph, loaded>>

Stop ==
    /\ loaded # {} /\ ~ over
    /\ Missing = {}
    /\ over' = TRUE
    /\ UNCHANGED <<graph, loaded>>

Next == LoadRoots \/ Load \/ Fail \/ Stop

Spec == Init /\ [][Next]_vars
=============================================================================
