-------------------------- MODULE CommandInspector --------------------------
(***************************************************************************)
(* The provenance graph builder of cincan-command: CommandInspector.fanin  *)
(* and CommandInspector.fanout (src/cincan/command_inspector.py), run as   *)
(* the `cincan fanin|fanout <file>` sub-command of frontend.main.          *)
(*                                                                         *)
(* The two methods are the same recursive procedure with the roles of a    *)
(* command's in_files and out_files swapped, so one state machine models   *)
(* both, the direction being fixed when the query starts.  The Python      *)
(* recursion is made explicit: `stack` holds one frame per active fanin /  *)
(* fanout call, with the position of its reverse scan over the log and     *)
(* the input (or output) files of the matched command it still has to      *)
(* recurse into.  `visited` is the `already_covered` set threaded through  *)
(* every call of one query.  `nodes` is the FileDependency /               *)
(* CommandDependency tree, one record per node with a pointer to the node  *)
(* whose `next` list it is appended to; siblings keep creation order.      *)
(*                                                                         *)
(* The log (CommandLogIndex, not in src/) is any sequence of at most       *)
(* MaxEntries entries, fixed for the query; the order in which a command's *)
(* files are visited (list order in the code) is left nondeterministic.    *)
(* A record's md5 is one of RecordedDigests, '' standing for a file that  *)
(* could not be hashed when the entry was made.  `disk` is what hash_of   *)
(* finds at every path while the query runs.  Another `cincan run` may    *)
(* write up to Appends entries while a query runs; the store adds an entry *)
(* after the existing ones, and every list_entries call lists the entries  *)
(* there are when it is made (spec 5: a stable view per listEntries).      *)
(***************************************************************************)
EXTENDS Naturals, Sequences, FiniteSets, SequencesExt

CONSTANTS
    Paths,           \* file paths recorded in the log (model values)
    Digests,         \* md5 hex digests (model values)
    Empty,           \* the '' digest of hash_of for a missing/non-regular file
    RecordedDigests, \* the md5 values a log record may hold
    Disks,           \* the file-system contents hash_of may find
    MaxEntries,      \* bound on the number of log entries when the query starts
    Appends,         \* entries a concurrent `cincan run` may add during a query
    NewEntries,      \* the entries it may add
    MaxFiles,        \* bound on the files of an entry a query follows
    MaxMatched,      \* bound on the files of an entry a query matches on
    Queries,         \* the command lines main may be started with
    RecursionLimit,  \* Python frames available to nested fanin/fanout calls
    ComprehensionFrames  \* frames of a list comprehension: 1 before Python 3.12, 0 after


\* FileLog(path, md5): a file record of a CommandLog entry.
FileLog == [path : Paths, md5 : RecordedDigests]

FilesUpTo(n) == UNION {kSubset(k, FileLog) : k \in 0..n}

(* A CommandLog entry, reduced to its file sets, as the log of a query in  *)
(* direction dir may hold it (the matched side bounded by MaxMatched).     *)
LogEntry(dir) ==
    IF dir = "in" THEN [in : FilesUpTo(MaxFiles), out : FilesUpTo(MaxMatched)]
                  ELSE [in : FilesUpTo(MaxMatched), out : FilesUpTo(MaxFiles)]
Entry == [in : SUBSET FileLog, out : SUBSET FileLog]

(* A query: the sub-command (fanin or fanout), the file argument and the  *)
(* file's content when main runs, '' if it is missing.                     *)
Query_ == [dir : {"in", "out"}, path : Paths, digest : Digests \cup {Empty}]

ASSUME /\ Empty \notin Digests
       /\ RecursionLimit \in Nat \ {0}
       /\ ComprehensionFrames \in {0, 1}
       /\ Queries \subseteq Query_
       /\ Appends \in Nat
       /\ RecordedDigests \subseteq Digests \cup {Empty}
       /\ Disks \subseteq [Paths -> Digests \cup {Empty}]

Key == Paths \X (Digests \cup {Empty})   \* the (path, digest) of file_check

VARIABLES
    log,      \* the entries of CommandLogIndex, oldest first
    startLog, \* the entries when the query started
    query,    \* the sub-command and file of the command line: [dir, path, digest]
    disk,     \* hash_of(path) for every path: its current md5, or ''
    phase,    \* "idle", "running", "done" or "error" (RecursionError)
    stack,    \* frames of the active fanin / fanout calls, innermost last
    visited,  \* already_covered: the keys of the calls that did not return early
    nodes,    \* the dependency tree built so far
    printed,  \* main's print(res): "no", "ok" or "error" (RecursionError)
    output    \* the lines print(res) wrote

vars == <<log, startLog, query, disk, phase, stack, visited, nodes, printed, output>>

FileNode == [kind : {"file"}, path : Paths, digest : Digests \cup {Empty},
             parent : Nat, cut : BOOLEAN]
CmdNode == [kind : {"cmd"}, entry : Nat, parent : Nat]
Frame == [node : Nat, digest : Digests \cup {Empty}, i : Nat,
          pc : {"scan", "files"}, cmd : Nat, todo : SUBSET FileLog]

-----------------------------------------------------------------------------
(* The files an entry is matched on, and the files it leads to: out_files  *)
(* and in_files for fanin, the reverse for fanout.                         *)
Matched(e) == IF query.dir = "in" THEN e.out ELSE e.in
Followed(e) == IF query.dir = "in" THEN e.in ELSE e.out

\* output_here / input_here: some matched file of the entry has this digest.
Here(e, d) == \E f \in Matched(e) : f.md5 = d

\* Mutant: the reverse scan starts one past the newest entry.
NewFrameOffByOne(id, d) ==
    [node |-> id, digest |-> d, i |-> Len(log) + 1, pc |-> "scan", cmd |-> 0, todo |-> {}]

\* A frame for a call that passed the already_covered check.
NewFrame(id, d) ==
    [node |-> id, digest |-> d, i |-> Len(log), pc |-> "scan", cmd |-> 0, todo |-> {}]

(* The body of fanin/fanout up to the scan (lines 52-58), called with the  *)
(* caller's stack `stk`: a file node for (path, digest) is created; if its *)
(* key was covered the call returns at once, otherwise the key is marked   *)
(* and a frame starts the reverse scan.  `digest or hash_of(file)` is      *)
(* resolved by the caller into d.                                          *)
Call(p, d, parent, stk) ==
    LET id == Len(nodes) + 1
        covered == <<p, d>> \in visited
    IN  /\ nodes' = Append(nodes, [kind |-> "file", path |-> p, digest |-> d,
                                   parent |-> parent, cut |-> covered])
        /\ visited' = visited \cup {<<p, d>>}
        /\ stack' = IF covered THEN stk ELSE Append(stk, NewFrame(id, d))

Top == stack[Len(stack)]
SetTop(f) == [stack EXCEPT ![Len(stack)] = f]

-----------------------------------------------------------------------------
Init ==
    /\ query \in Queries
    /\ disk \in {f \in Disks : f[query.path] = query.digest}
    /\ log \in BoundedSeq(LogEntry(query.dir), MaxEntries)
    /\ startLog = log
    /\ phase = "idle"
    /\ stack = <<>>
    /\ visited = {}
    /\ nodes = <<>>
    /\ printed = "no"
    /\ output = <<>>

(* main: `cincan fanin|fanout <file>` calls the method on the resolved    *)
(* path with no digest, so the digest is hash_of(file) (the query's digest,*)
(* '' when the file is missing or not a regular file).                     *)
Query ==
    /\ phase = "idle"
    /\ Call(query.path, query.digest, 0, <<>>)
    /\ phase' = "running"
    /\ UNCHANGED <<log, startLog, query, disk, printed, output>>

(* One iteration of `for cmd in self.log.list_entries(reverse=True)` on an *)
(* entry that does not hold the digest.                                    *)
ScanSkip ==
    /\ phase = "running"
    /\ Top.pc = "scan" /\ Top.i > 0
    /\ ~Here(log[Top.i], Top.digest)
    /\ stack' = SetTop([Top EXCEPT !.i = @ - 1])
    /\ UNCHANGED <<log, startLog, query, disk, phase, visited, nodes, printed, output>>

\* Mutant: fanout's loop copied from fanin, recursing into the matched side.
ScanMatchSwapped ==
    /\ phase = "running"
    /\ Top.pc = "scan" /\ Top.i > 0
    /\ Here(log[Top.i], Top.digest)
    /\ nodes' = Append(nodes, [kind |-> "cmd", entry |-> Top.i, parent |-> Top.node])
    /\ stack' = SetTop([Top EXCEPT !.pc = "files", !.cmd = Len(nodes) + 1,
                                   !.todo = Matched(log[Top.i])])
    /\ UNCHANGED <<log, startLog, query, disk, phase, visited, printed, output>>

(* An entry that holds the digest: a CommandDependency is created and its  *)
(* followed files become the ones to recurse into.                         *)
ScanMatch ==
    /\ phase = "running"
    /\ Top.pc = "scan" /\ Top.i > 0
    /\ Here(log[Top.i], Top.digest)
    /\ nodes' = Append(nodes, [kind |-> "cmd", entry |-> Top.i, parent |-> Top.node])
    /\ stack' = SetTop([Top EXCEPT !.pc = "files", !.cmd = Len(nodes) + 1,
                                   !.todo = Followed(log[Top.i])])
    /\ UNCHANGED <<log, startLog, query, disk, phase, visited, printed, output>>

(* `cmd_dep.next.append(self.fanin(file.path, already_covered, file.md5))` *)
(* for the next file of the matched command; the callee takes `digest or  *)
(* self.hash_of(file)`, so a recorded '' is replaced by the file's current *)
(* content.                                                                *)
Resolve(f) == IF f.md5 = Empty THEN disk[f.path] ELSE f.md5

Recurse ==
    /\ phase = "running"
    /\ Top.pc = "files"
    /\ Len(stack) < RecursionLimit
    /\ \E f \in Top.todo :
          Call(f.path, Resolve(f), Top.cmd, SetTop([Top EXCEPT !.todo = @ \ {f}]))
    /\ UNCHANGED <<log, startLog, query, disk, phase, printed, output>>

(* The same call with no Python frame left: RecursionError propagates out  *)
(* of every call and main has no handler, so the query fails.              *)
RecurseOverflow ==
    /\ phase = "running"
    /\ Top.pc = "files" /\ Top.todo # {}
    /\ Len(stack) >= RecursionLimit
    /\ phase' = "error"
    /\ stack' = <<>>
    /\ UNCHANGED <<log, startLog, query, disk, visited, nodes, printed, output>>

\* Mutant: the scan stops at the first (most recent) matching command.
CmdDoneBreak ==
    /\ phase = "running"
    /\ Top.pc = "files" /\ Top.todo = {}
    /\ stack' = SetTop([Top EXCEPT !.pc = "scan", !.i = 0, !.cmd = 0])
    /\ UNCHANGED <<log, startLog, query, disk, phase, visited, nodes, printed, output>>

\* All files of the matched command done: `file_dep.next.append(cmd_dep)`.
CmdDone ==
    /\ phase = "running"
    /\ Top.pc = "files" /\ Top.todo = {}
    /\ stack' = SetTop([Top EXCEPT !.pc = "scan", !.i = @ - 1, !.cmd = 0])
    /\ UNCHANGED <<log, startLog, query, disk, phase, visited, nodes, printed, output>>

\* The scan is exhausted: `return file_dep`; the outermost return ends the query.
Return ==
    /\ phase = "running"
    /\ Top.pc = "scan" /\ Top.i = 0
    /\ stack' = Front(stack)
    /\ phase' = IF Len(stack) = 1 THEN "done" ELSE "running"
    /\ UNCHANGED <<log, startLog, query, disk, visited, nodes, printed, output>>

(* CommandLogWriter.write(log) of a `cincan run` that ends with exit code  *)
(* 0 while the query runs: the entry goes after the existing ones.         *)
ConcurrentAppend ==
    /\ phase = "running" /\ Len(log) < Len(startLog) + Appends
    /\ \E e \in NewEntries : log' = Append(log, e)
    /\ UNCHANGED <<startLog, query, disk, phase, stack, visited, nodes, printed, output>>

-----------------------------------------------------------------------------
(* The renderer: FileDependency.__str__ and CommandDependency.__str__.    *)
(* A line is a sequence of tokens: connectors, indentation and a label.   *)

\* A node's `next` list, in the order the nodes were appended.
NextOf(n) == SelectSeq([c \in DOMAIN nodes |-> c], LAMBDA c : nodes[c].parent = n)

(* file_string: the path and the digest ('/' for the '' digest; the model's *)
(* digests differ in their first 16 digits); cmd_string: the command line.  *)
Label(n) == IF nodes[n].kind = "file"
            THEN <<nodes[n].path, IF nodes[n].digest = Empty THEN "/" ELSE nodes[n].digest>>
            ELSE <<"cmd", nodes[n].entry>>

\* The separator p put before each entry of a node's `next` list.
Marker(n) == CASE nodes[n].kind = "file" /\ query.dir = "out" -> "|-- "
               [] nodes[n].kind = "file" /\ query.dir = "in"  -> "^-- "
               [] nodes[n].kind = "cmd"  /\ query.dir = "out" -> "|-->"
               [] nodes[n].kind = "cmd"  /\ query.dir = "in"  -> "^---"

\* Mutant: str(s) without the replace, nested lines not indented.
NestNoReplace(m, L) == [j \in DOMAIN L |-> IF j = 1 THEN <<m>> \o L[1] ELSE L[j]]

(* p + p.join(str(s).replace('\n', '\n    ')): a child's first line after  *)
(* the separator, its other lines indented by four spaces.                 *)
Nest(m, L) == [j \in DOMAIN L |-> IF j = 1 THEN <<m>> \o L[1] ELSE <<"    ">> \o L[j]]

RECURSIVE Render(_)
Render(n) == <<<<Label(n)>>>> \o FlattenSeq([i \in DOMAIN NextOf(n) |-> Nest(Marker(n), Render(NextOf(n)[i]))])

(* Frames of str() on the tree: on the path to the deepest leaf, every    *)
(* node has its __str__ frame and that of its list comprehension.         *)
RECURSIVE Height(_)
Height(n) == 1 + Max({0} \cup {Height(c) : c \in Range(NextOf(n))})
RenderFrames == (1 + ComprehensionFrames) * Height(1)

(* main: print(res) renders the returned tree and writes its lines.       *)
ShowResult ==
    /\ phase = "done" /\ printed = "no"
    /\ RenderFrames <= RecursionLimit
    /\ printed' = "ok"
    /\ output' = Render(1)
    /\ UNCHANGED <<log, startLog, query, disk, phase, stack, visited, nodes>>

(* A render deeper than the Python frames available raises RecursionError *)
(* before anything is written; main does not catch it.                    *)
ShowResultOverflow ==
    /\ phase = "done" /\ printed = "no"
    /\ RenderFrames > RecursionLimit
    /\ printed' = "error"
    /\ UNCHANGED <<log, startLog, query, disk, phase, stack, visited, nodes, output>>

QueryStep ==
    \/ Query
    \/ ScanSkip
    \/ ScanMatch
    \/ Recurse
    \/ RecurseOverflow
    \/ CmdDone
    \/ Return

Next == QueryStep \/ ConcurrentAppend \/ ShowResult \/ ShowResultOverflow

(* The query is one synchronous call chain of a process that runs until it *)
(* returns: weak fairness on its steps.  No property asks that the result  *)
(* is eventually printed, so the print step needs none, and no run of     *)
(* another process is owed.  After it the      *)
(* process exits: a printed query is a final state.                        *)
Spec == Init /\ [][Next]_vars /\ WF_vars(QueryStep)

-----------------------------------------------------------------------------
(* Reference definition of the result, independent of the traversal order: *)
(* the keys reachable from the anchor by following, from a key's digest,   *)
(* every entry that holds it to that entry's followed files, each file    *)
(* with the digest its record holds.  The '' digest matches no entry: a   *)
(* file that could not be hashed is a leaf.                                *)
MatchingIn(L, d) == {i \in 1..Len(L) : d # Empty /\ Here(L[i], d)}
SuccIn(L, k) == {<<f.path, f.md5>> : f \in UNION {Followed(L[i]) : i \in MatchingIn(L, k[2])}}
RECURSIVE Closure(_, _)
Closure(L, S) ==
    LET T == S \cup UNION {SuccIn(L, k) : k \in S}
    IN  IF T = S THEN S ELSE Closure(L, T)
ReachIn(L) == Closure(L, {<<query.path, query.digest>>})
MatchingEntries(d) == MatchingIn(log, d)
Succ(k) == SuccIn(log, k)
Reach == ReachIn(log)

FileIds == {n \in DOMAIN nodes : nodes[n].kind = "file"}
CmdIds == {n \in DOMAIN nodes : nodes[n].kind = "cmd"}
Expanded == {n \in FileIds : ~nodes[n].cut}
Children(n) == {c \in DOMAIN nodes : nodes[c].parent = n}
NodeKey(n) == <<nodes[n].path, nodes[n].digest>>

TypeOK ==
    /\ log \in Seq(Entry) /\ Len(log) <= MaxEntries + Appends
    /\ startLog \in Seq(Entry)
    /\ query \in Query_
    /\ disk \in Disks
    /\ phase \in {"idle", "running", "done", "error"}
    /\ stack \in Seq(Frame) /\ Len(stack) <= RecursionLimit
    /\ \A j \in DOMAIN stack : stack[j].i \in 0..Len(log)
    /\ visited \subseteq Key
    /\ nodes \in Seq(FileNode \cup CmdNode)
    /\ printed \in {"no", "ok", "error"}

(* When fanin/fanout returns, whatever order the shared already_covered   *)
(* set was filled in: each (path, digest) of the tree is expanded exactly *)
(* once, every other occurrence being a childless cut; an expanded file   *)
(* lists its entries most recent first; a command lists every one of its  *)
(* followed files.  On a log no entry was added to meanwhile the tree is  *)
(* exactly the provenance of the anchor: every reachable (path, digest)   *)
(* appears and nothing else, and an expanded file lists every entry       *)
(* holding its digest.                                                     *)
FanResultExact ==
    phase = "done" =>
        /\ log = startLog =>
              /\ {NodeKey(n) : n \in FileIds} = Reach
              /\ \A n \in Expanded :
                    {nodes[c].entry : c \in Children(n)} = MatchingEntries(nodes[n].digest)
        /\ \A k \in {NodeKey(n) : n \in FileIds} :
              Cardinality({n \in Expanded : NodeKey(n) = k}) = 1
        /\ \A n \in FileIds \ Expanded : Children(n) = {}
        /\ \A n \in Expanded :
              \A c1, c2 \in Children(n) : c1 < c2 => nodes[c1].entry > nodes[c2].entry
        /\ \A c \in CmdIds :
              LET fs == Followed(log[nodes[c].entry])
              IN  /\ {NodeKey(m) : m \in Children(c)} = {<<f.path, f.md5>> : f \in fs}
                  /\ Cardinality(Children(c)) = Cardinality(fs)

(* Every query started by main returns a tree: the recursion through a    *)
(* log with cycles of digests is cut by already_covered before it runs out *)
(* of Python frames, and every scan ends.                                  *)
QueryCompletes == (phase = "running") ~> (phase = "done")

(* print(res) shows the returned tree as one line per node in the order   *)
(* fanin/fanout created the nodes (a preorder), each line indented by four *)
(* spaces per level below the root's children and starting with the       *)
(* connector of its parent.                                                *)
RECURSIVE Depth(_)
Depth(n) == IF nodes[n].parent = 0 THEN 1 ELSE 1 + Depth(nodes[n].parent)
RefLine(n) == IF Depth(n) = 1 THEN <<Label(n)>>
              ELSE [k \in 1..Depth(n) - 2 |-> "    "] \o <<Marker(nodes[n].parent), Label(n)>>
RenderExact == printed = "ok" => output = [n \in DOMAIN nodes |-> RefLine(n)]

(* Every tree fanin/fanout returns is printed: rendering it needs no more  *)
(* Python frames than building it did.                                    *)
ResultShownWhenBuilt == printed # "error"

-----------------------------------------------------------------------------
(* The provenance graph of the log, and the search it is shown to refine.  *)
ProvenanceGraph == [node |-> Key, edge |-> UNION {{<<k, s>> : s \in Succ(k)} : k \in Key}]

ABS == INSTANCE ProvenanceSearch WITH
           Limit <- RecursionLimit, graph <- ProvenanceGraph,
           anchor <- <<query.path, query.digest>>, phase <- phase, visited <- visited

(* fanin/fanout implement the provenance search: already_covered only ever *)
(* gains a version followed from one already covered (digest matching on   *)
(* the matched side, recursion into the followed side), the result is      *)
(* returned only once already_covered is closed under the log's edges, a   *)
(* RecursionError needs a provenance of RecursionLimit versions, and every *)
(* query ends in one of the two.                                           *)
ProvenanceRefined == ABS!Spec

=============================================================================
