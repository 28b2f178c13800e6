---------------------------- MODULE SerialCheck -----------------------------
(***************************************************************************)
(* The abstract specification: check_program_files_serial.  Files are      *)
(* checked one after the other in serial order, each against the caches    *)
(* exactly as its predecessors left them.  The parallel path promises to   *)
(* be indistinguishable from this.                                         *)
(***************************************************************************)
EXTENDS CheckProgram

CONSTANT Entries      \* [Pos -> Loc] functions: the programs to check

VARIABLES
    entry,    \* the program: the location each file's check starts at
    next,     \* the next position to check
    caches,   \* contents of the six caches
    result    \* [Pos -> Seq(Event)]: what each checked file observed

vars == <<entry, next, caches, result>>

Init ==
    /\ entry \in Entries
    /\ next = 1
    /\ caches \in Caches /\ \A k \in DOMAIN caches : caches[k] = BasePublisher
    /\ result = [p \in Pos |-> <<>>]

\* One iteration of the serial loop: check the file, push its result.
CheckFile ==
    /\ next \in Pos
    /\ LET t == result'[next] IN
        /\ IsSerialRun(t, next, entry[next], caches)
        /\ caches' = AfterRun(caches, t, next)
        /\ result' = [result EXCEPT ![next] = t]
    /\ next' = next + 1
    /\ UNCHANGED entry

Spec == Init /\ [][CheckFile]_vars
=============================================================================
