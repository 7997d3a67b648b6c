------------------------- MODULE MCCommandInspector -------------------------
(* Model-checking instance of CommandInspector: two paths, two digests,    *)
(* logs of up to two entries.  Paths and digests are interchangeable in    *)
(* the log, so one anchor path, and one digest or a missing file, stand    *)
(* for every query.                                                        *)
EXTENDS CommandInspector

CONSTANTS p1, p2, d1, d2

MCQueries == [dir : {"in", "out"}, path : {p1}, digest : {d1, Empty}]

(* fanout is fanin with in_files and out_files swapped, and LogEntry swaps *)
(* its bounds with them: the fan-in queries stand for both directions.    *)
MCFaninQueries == [dir : {"in"}, path : {p1}, digest : {d1, Empty}]
(* Where no record holds '', hash_of is only called on the anchor, whose   *)
(* content the query fixes: one file system per query stands for all.     *)
MCFixedDisk == {[p \in Paths |-> IF p = p1 THEN d ELSE d2] : d \in {d1, Empty}}

\* A fan-in query on a file that exists.
MCPresentQueries == [dir : {"in"}, path : {p1}, digest : {d1}]

(* Entries a concurrent `cincan run` may write: one that produced the      *)
(* anchor version from the other path, and the mirror for fan-out.        *)
MCNewEntries == {[in |-> {[path |-> p2, md5 |-> d2]}, out |-> {[path |-> p1, md5 |-> d1]}],
                 [in |-> {[path |-> p1, md5 |-> d1]}, out |-> {[path |-> p2, md5 |-> d2]}]}

\* Every content of every path, the anchor's fixed by the query.
MCAnyDisk == [Paths -> Digests \cup {Empty}]
=============================================================================
