-------------------------- MODULE ProvenanceSearch --------------------------
(***************************************************************************)
(* What a fan-in / fan-out query promises, independent of recursion,       *)
(* scan order and tree building: a search of the provenance graph of the   *)
(* log from the anchor version.  The graph's nodes are (path, digest)      *)
(* versions; an edge leads from a version to every file followed by an     *)
(* entry that holds its digest on the matched side.  The search only       *)
(* ever marks a successor of a marked version, finishes only when the      *)
(* marked set is closed under successors, and may give up (Python's        *)
(* RecursionError) only when the anchor's provenance has at least Limit   *)
(* versions.  Every query ends.                                            *)
(***************************************************************************)
EXTENDS FiniteSets, Graphs

CONSTANT Limit   \* the depth at which the search may run out of frames

VARIABLES
    graph,     \* the provenance graph of the log: [node, edge]
    anchor,    \* the version the query starts from
    phase,     \* "idle", "running", "done" or "error"
    visited    \* the versions marked so far

avars == <<graph, anchor, phase, visited>>

\* The versions reachable from the anchor, the anchor included.
RECURSIVE Grow(_)
Grow(S) == IF AllSuccessors(graph, S) \subseteq S THEN S
           ELSE Grow(S \cup AllSuccessors(graph, S))
Provenance == Grow({anchor})

Init == phase = "idle" /\ visited = {}

Start ==
    /\ phase = "idle"
    /\ phase' = "running"
    /\ visited' = {anchor}
    /\ UNCHANGED <<graph, anchor>>

Discover ==
    /\ phase = "running"
    /\ \E n \in AllSuccessors(graph, visited) \ visited : visited' = visited \cup {n}
    /\ UNCHANGED <<graph, anchor, phase>>

Finish ==
    /\ phase = "running"
    /\ AllSuccessors(graph, visited) \subseteq visited
    /\ phase' = "done"
    /\ UNCHANGED <<graph, anchor, visited>>

GiveUp ==
    /\ phase = "running"
    /\ Cardinality(Provenance) >= Limit
    /\ phase' = "error"
    /\ UNCHANGED <<graph, anchor, visited>>

Next == Start \/ Discover \/ Finish \/ GiveUp

Spec == Init /\ [][Next]_avars /\ WF_avars(Next)

=============================================================================
