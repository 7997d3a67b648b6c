# TLA+ models of cincan-command

cincan-command (`cincan`) runs command-line tools in throwaway Docker
containers, records every successful run (argv, input and output files with
their md5 digests) in a command log, and answers provenance queries over that
log: `cincan fanin <file>` (which commands and files produced this version of
the file) and `cincan fanout <file>` (what this version went on to produce).
This directory holds TLA+ models of the parts of `src/` that have behaviour a
model checker can explore, the TLC configurations that check them, and
`PROJECT.json`, which lists components, runs, mutants, the code lines each
definition models, findings and hazards.

## 1. Inventory

### Components and their state

| Component | Source | State | Operations |
|---|---|---|---|
| Provenance graph builder | `src/cincan/command_inspector.py` `CommandInspector` | the log it reads; per query the `already_covered` set shared by all recursive calls; the tree of `FileDependency` / `CommandDependency` nodes | `fanin`, `fanout` (recursive), `hash_of` |
| Tree renderer | `command_inspector.py` `FileDependency.__str__`, `CommandDependency.__str__`, `__print_fans` | none (pure) | recursive rendering with connectors and indentation |
| Execution log store | `cincan.command_log` (**not in `src/`**) | ordered entries | `CommandLogIndex.list_entries(reverse)`, `CommandLogWriter.write` |
| Container exec I/O loop | `src/cincan/frontend.py` `ToolImage.__container_exec`, `__unpack_container_stream`, `ToolStream` | active streams, `c_socket_open`, stdin/stdout/stderr `ToolStream`s (length, md5, raw), the `CommandLog` being filled | select loop: stdin chunk read + blocking send, frame read and demultiplexing, EOF handling; exit code and stream records |
| Tool run | `frontend.py` `ToolImage.__run`, `run`, `run_get_string` | `upload_files`, `download_files`, `buffer_output` | resolve uploads, create container, exec, download outputs on exit 0, kill container (finally), remove built image |
| Image acquisition | `frontend.py` `ToolImage.__init__`, `__get_image` | `image`, `loaded_image` | build from path, or get image, pulling on `ImageNotFound` |
| CLI front end | `frontend.py` `main` | none | `run`/`test` (run, write log on exit 0, print, `sys.exit(exit_code)`), `fanin`/`fanout`, `list`, `manifest`, `help` |

### How they interact

`cincan run` builds a `ToolImage`, whose `__run` creates a container, uploads
the resolved input files, and calls `__container_exec`. That method is where
three processes meet: the frontend's select loop, the command inside the
container, and the Docker daemon that carries stdin to the command and its
stdout/stderr back as 8-byte-header frames, and closes the connection when the
command exits. The resulting `CommandLog` gets stream records
(`/dev/stdin`, `/dev/stdout`, `/dev/stderr` with md5 digests) and, on exit
code 0, the downloaded output files. `main` then appends it to the log.
Later, `cincan fanin|fanout` builds a `CommandInspector` over the log and
walks it recursively, matching entries by **digest only**, cutting revisits
by the key `path:digest`.

### What is hard

* **Concurrency and flow control** (exec loop): a stdin chunk of up to 1 MiB
  goes out with a blocking `send()` loop, and meanwhile nothing reads the
  container's output. The command in the container may itself block writing
  output. Finite buffers sit on both paths.
* **Failure of the peer**: the command may exit without reading stdin. The
  daemon then closes the connection while the frontend still sends.
* **Framing**: EOF and a zero-length frame come back from
  `__unpack_container_stream` in the same form.
* **Recursion with shared mutable state** (builder): one `already_covered`
  set is threaded through all branches. Which occurrence of a version is
  expanded depends on the visiting order. Logs can hold cycles of digests.
  Each nested version costs one Python frame.
* **Reading a log that another process appends to** (builder vs `cincan run`).
* **A stdin producer that runs at its own pace**: `read(buffer_size)` on a
  pipe returns only with a full buffer or at EOF.
* **The `''` digest** of a file that could not be hashed is falsy in Python.

### Properties that make each component correct

* Builder: every query returns, even on a log with cycles. The tree is
  exactly the set of versions reachable by digest matching. Each version is
  expanded once; every other occurrence is a childless cut. Children are all
  the matching entries, newest first. Recursion depth is bounded by the
  number of distinct versions.
* Exec loop: the loop always returns or raises, with no deadlock. A
  successful exec delivers and hashes every output byte, each to its own
  stream. The log records exactly the non-empty streams. A command that
  succeeded does not turn into a cincan crash.
* Tool run / main: the log is written only for exit code 0. cincan's exit
  status is the command's status. The container is killed on every path.
* Renderer: one line per node in the order the tree was built, indented by
  depth under the parent's connector; printing needs no more Python frames
  than building did.

## 2. Plan

Ordered by importance; "(done)" items are built.

1. **CommandInspector** (done): `fanin`/`fanout` against a reference
   closure, termination, and a violation for deep chains.
2. **ContainerExec** (done): the exec loop, with the command and daemon as
   environment actors: the loop ends once the command has exited, and
   violations for deadlock, broken pipe and the interactive producer.
3. **ToolRun** (done): `__run`, `run`, image acquisition and `main`'s run
   branch, composed with ContainerExec: exit status and log writing, cleanup,
   and violations for `sys.exit(None)` (after an empty frame) and the
   container leak. Output delivery is part of `ExitStatusTruthful`.
4. **ProvenanceSearch + refinement** (done): the abstract search, shown to be
   implemented by CommandInspector (`ABS == INSTANCE ProvenanceSearch WITH
   ...`, `ProvenanceRefined == ABS!Spec`). This replaced the earlier
   `OverflowOnlyWhenDeep` invariant, which the abstract `GiveUp` guard states.
5. **Renderer** (done): `__str__` as the RECURSIVE operator `Render`, checked
   against a closed-form layout, and its frame cost compared with building.
6. **Log store with a concurrent append** (done): a concurrent `cincan run`
   appends up to `Appends` entries while a query runs, and every
   `list_entries` call sees the entries there are then. `FanResultExact`
   checks the tree's shape under the append; whether a tree that mixes
   several states of the log is what the code does depends on
   `CommandLogIndex`, which is not in `src/` (section 6).
7. **Stdin producer** (done): stdin as a pipe that a producer fills over time;
   `read(buffer_size)` blocks until a full chunk or EOF. A violation run
   covers an interactive producer.
8. **Unhashable records** (done): log records may hold `''` (spec section 3),
   and `digest or hash_of(file)` goes to the file system (`disk`). A
   violation run covers this.
9. **`test` branch** (next, if ever): `ContainerCheck` is not in `src/`;
   only the part in `frontend.py` could be added.
10. **Larger instances**: three log entries for the builder, with symmetry
    over paths and digests, if TLC's budget allows. Not reached: see
    section 6.

## 3. Modules

### CommandInspector.tla (+ MCCommandInspector.tla)

Both `fanin` and `fanout` are covered: `Matched(e)` and `Followed(e)` are
`out_files`/`in_files` for fan-in and the reverse for fan-out.

| Model | Code |
|---|---|
| `log` | the entries of `CommandLogIndex`, oldest first; chosen in `Init` among all sequences of up to `MaxEntries` entries whose records hold a digest of `RecordedDigests` (`Empty` is the `''` of an unhashable file) |
| `startLog` | the log as the query found it |
| `query` | the command line: direction, path, and `hash_of(path)` (a digest or `Empty` for a missing file) |
| `disk` | what `hash_of` returns for each path while the query runs (one of `Disks`, agreeing with the query's digest) |
| `stack` | the Python call stack of nested `fanin` calls. Each frame has the node, the digest, the position `i` of the reverse scan, and the matched command node with the files still to recurse into |
| `visited` | `already_covered` (keys `(path, digest)`, i.e. `file_check`) |
| `nodes` | `FileDependency`/`CommandDependency` objects; `parent` is the node whose `next` list holds it; `cut` marks a return at the `already_covered` check |
| `printed`, `output` | the outcome and the lines of `main`'s `print(res)` |
| `Query` | `main` lines 441-447 + the start of the outer call |
| `Call` | lines 52-58: create the file node, check/add the key, start the scan |
| `ScanSkip` / `ScanMatch` | one iteration of the `list_entries(reverse=True)` loop, lines 60-63 |
| `Recurse`, `Resolve` | lines 64-65 and 52: the recursive call for the next followed file, whose `digest or self.hash_of(file)` rehashes a recorded `''` |
| `ConcurrentAppend` | `CommandLogWriter.write(log)` of another `cincan run` (`main` lines 432-435), adding an entry after the existing ones while the query runs |
| `RecurseOverflow` | the same call with no frame left: `RecursionError`, uncaught |
| `CmdDone`, `Return` | lines 66-67 |
| `Render`, `Nest`, `Marker`, `Label`, `NextOf` | `FileDependency.__str__` / `CommandDependency.__str__` (lines 17-34); a line is a sequence of tokens |
| `RenderFrames`, `Height` | the Python frames of `str()` on the tree: per node on the deepest path, its `__str__` frame plus `ComprehensionFrames` (1 before Python 3.12, 0 after) |
| `ShowResult`, `ShowResultOverflow` | `print(res)` (line 447): the lines, or `RecursionError` |

The order of a command's files (list order in the code) is left
nondeterministic. This covers every order a log can store.

`ProvenanceGraph` is the graph of versions the log defines (an edge from a
version to each followed file of an entry holding its digest on the matched
side). `ABS` instantiates **ProvenanceSearch.tla** with that graph, the
query's anchor, `phase` and `visited`. The abstract search has four actions:
`Start` marks the anchor; `Discover` marks a successor of a marked version;
`Finish` is allowed once the marked set is closed under successors; `GiveUp`
(the `RecursionError`) is allowed only when the anchor's provenance has at
least `Limit` versions. It has weak fairness, so every query ends.

### ContainerExec.tla (+ MCContainerExec.tla)

Data is counted in units; a stream's md5 is modelled by the number of units it
hashed.

| Model | Code |
|---|---|
| `fe` | the loop's position: `select`; `read` (inside `sys.stdin.buffer.read(buffer_size)`, entered from `select` or after the socket in the same iteration); `send` (inside the `while out_off < len` loop); `inspect`; `done`; `error` (exception) |
| `stdinLeft`, `avail`, `prodOpen` | the producer's stdin not written yet, the units in the pipe not read yet, the pipe's write end still open |
| `sockOpen`, `stdinOpen` | `c_socket_open`, `sys.stdin in active_streams` |
| `hashed` | `data_length` of the three `ToolStream`s |
| `SockEof`, `SockFrame`, `SockEmptyFrame` | `__unpack_container_stream` + the socket branch (lines 142-161, 224-245) |
| `StdinReady`, `StdinSelect` | `select` finding stdin readable (data or EOF), and the read starting (lines 198-210) |
| `StdinEof`, `StdinData`, `SendSome` | the read returning `b''` or a chunk of exactly `min(Chunk, avail)` once `Chunk` units or the EOF are there, and the send loop (lines 209-222) |
| `SendFail` | `send()` on a connection the daemon closed raises (line 221) |
| `Inspect` | lines 246-265 |
| `Produce`, `CloseStdin` | the user's stdin producer (not repository code); with `Interactive` it writes a unit, or closes, only once all it wrote has come back on stdout |
| `CatRead`, `CmdWrite`, `CmdExit`, `DaemonEmptyFrame`, `DaemonClose` | the command and the Docker daemon (not repository code) |

`toC` and `fromC` are the two paths, with capacities `InCap` units and
`OutCap` frames. Each path lumps together the socket buffers, the daemon's
copy buffers and the command's pipes.

### ToolRun.tla (+ MCToolRun.tla)

ToolRun EXTENDS ContainerExec and adds the process around the exec loop. The
loop's actions run only in stage `exec` (`ExecStep`). The command and daemon
run from the exec until the container is killed (`EnvCommand`, `EnvDaemon`);
the stdin producer runs from the start (`EnvStdin`).

| Model | Code |
|---|---|
| `stage` | `image` → (`pull`) → `config` → `create` → `exec` → (`download`) → `finally` → `main` → `exit` |
| `source`, `pull`, `local`, `conflict`, `logOn` | `--path`, `--pull`, the image in the local store, `--in` with `--in-filter`, `config.is_command_log()` |
| `loaded`, `started`, `killed`, `removed` | `loaded_image`; the container started, killed; the built image removed |
| `raised`, `downloaded`, `logWritten`, `status` | an exception crossing `__run`'s `finally`; `out_files` downloaded; `CommandLogWriter.write` called; the process exit status |
| `Build`, `GetImage`, `Pull` | `ToolImage.__init__` lines 52-75, `__get_image` lines 107-111 |
| `Configure` | `main` lines 410-423 |
| `CreateContainer` | `__create_container` (before `__run`'s try), with the upload failing when `UploadMayFail` |
| `ExecEnd`, `Download`, `Finally` | `__run` lines 280-298 |
| `MainExit` | `main` lines 428-440: write the log for exit code 0, `sys.exit(log.exit_code)` |
| `Crash` | an uncaught exception: exit status 1 |

Docker, the registry and TarTool are not in `src/`. Build, pull, upload,
download and image removal each either succeed or raise, and both outcomes
are explored. `container.kill()` in the `finally` and the exec calls are
taken to succeed: a kill that raises would end the process with status 1
and leave the container running, a failure of Docker rather than of this
code.

## 4. Runs

| Run | Checks | Shows |
|---|---|---|
| `inspector_result` | `TypeOK`, `FanResultExact`, `RenderExact` | For every log of ≤ 2 entries, both directions, and a present or missing anchor, with or without one entry written by a concurrent `cincan run`: each version of the tree is expanded once, cut occurrences are leaves, and children come newest first; when nothing was added, the tree's versions are exactly the reference closure `Reach` and an expanded version lists every entry holding its digest. The printed lines match the closed-form layout. |
| `inspector_refines` | `ProvenanceRefined` | CommandInspector implements ProvenanceSearch, error paths included (3 frames). Because the abstract search is weakly fair and may give up only on a deep provenance, this is also the termination check, cycles of digests included |
| `inspector_deep_chain` (violation) | `QueryCompletes` | A chain deeper than the frames makes the query die |
| `inspector_render_overflow` (violation) | `ResultShownWhenBuilt` | A tree built within 3 frames needs 5 to print, even with Python 3.12's inlined comprehensions |
| `inspector_unhashed` (violation) | `FanResultExact` | A record with digest `''` is rehashed with the file's current content: a command's unhashable input `p1` shows up as `p1` at the command's own output digest |
| `exec_io` | `TypeOK`, `ExitEndsLoop` | With 12 stdin units, more than the 10 at which `exec_deadlock` deadlocks, and a producer that writes at any pace: once the command has exited, the loop always returns or raises, whether the frontend was selecting, blocked in `read` or in `send`, whether the command read stdin or not and whether stdin is attached. The loop does not always terminate before that (`exec_deadlock`) |
| `exec_deadlock` (violation) | `ExecTerminates` | 10 units in 2-unit chunks, input path 2, output path 3, cat: every chunk fits the input path, but the loop drains one frame per chunk, so output piles up; frontend blocked in `send`, cat blocked writing |
| `exec_broken_pipe` (violation) | `SuccessNotCrashed` | echo exits 0 without reading stdin; the daemon closes; the pending send raises |
| `exec_interactive` (violation) | `ExecTerminates` | An interactive producer writes one unit and waits for its echo; the frontend is blocked in `read` waiting for a full chunk; nothing moves |
| `run_exit_cleanup` | `ExitStatusTruthful`, `CleanupOnExit` | On every path of `cincan run` (build, pull, option, exec and download errors, exit codes 0 and 1): status 0 means the command exited 0, all its stdout/stderr reached cincan's streams, its outputs were downloaded and it was logged; a log entry means the same; a started container is killed; and a loaded image is never removed |
| `run_exit_none` (violation) | `ExitStatusTruthful` | An empty frame ends the loop early. Output after it is dropped, and if the command still runs, `ExitCode` is `None` and `sys.exit(None)` exits 0. The trace shows the latter |
| `run_container_leak` (violation) | `CleanupOnExit` | An upload error in `__create_container` (before the try) leaves the started container running |

Every property of a passing run has a mutant in `PROJECT.json`. The mutants
are:

* stopping at the first matching entry;
* an off-by-one start of the reverse scan;
* recursing into the matched side instead of the followed one;
* children's lines not indented;
* the socket EOF branch not clearing `c_socket_open`;
* stderr taken for stdout;
* stdin read without a size;
* a download error swallowed;
* the kill moved out of the `finally`.

TLC finds each mutant violating its property.

### Bounds and why they are enough

* Builder: 2 paths × 2 digests (plus `Empty`) and logs of ≤ 2 entries. Each
  entry has ≤ 2 followed files and ≤ 1 matched file. That already gives:
  * self-cycles (`cat a > stdout`, where stdout has a's digest);
  * two-entry cycles;
  * two producers of one digest;
  * the same digest at two paths;
  * fan-in from two inputs;
  * one version reached through two branches (where the order of
    `already_covered` matters).

  Paths and digests are interchangeable in the generated logs, so the anchor
  is fixed to `p1` with `d1` or `Empty`. The refinement run also fixes the
  direction to fan-in, because fan-out is fan-in with `in_files` and
  `out_files` swapped (and `LogEntry` swaps its bounds with them). Three
  entries, or 2 matched files, take minutes to hours (4.3M states for the
  latter), beyond the per-run budget.
* Concurrent appends: one entry, in `inspector_result`, drawn from a fan-in
  producer of the anchor (`p2:d2` → `p1:d1`) and its fan-out mirror. The entry
  can arrive before any scan, between the scans of two calls, or after them
  all. This is where a mixed tree can appear. Each added entry multiplies the
  states by about five.
* Unhashable records: the violation run lets records hold `d1` or `''` and
  `disk` be any content; the passing runs keep digests in every record, so
  `hash_of` is read only for the anchor.
* Recursion limits: 10 frames in `inspector_result`, so that every tree
  prints; 3 for the refinement and the render overflow,
  the smallest limits that let `RecursionError` happen on a tree the log
  allows.
* Exec loop: 12 stdin units in chunks of 2, paths of 2 and 3. This allows
  partial sends, several chunks, a read that blocks on a half-full pipe,
  output interleaved with input, EOF on either side, and the deadlock
  (from 10 units on), so `ExitEndsLoop` is checked on states where the loop
  can hang. The pipe's own
  capacity (64 KiB, below the 1 MiB chunk) is not bounded: it only slows the
  producer, which the read keeps draining. The violation runs choose the smallest sizes that show each
  behaviour.
* ToolRun: 4 stdin units, chunks of 2, paths of 2 and 3, with every choice of `--path`,
  `--pull`, local image, option conflict and command log, and every outcome
  of build, pull, download and image removal.

### Fairness

* Builder: `WF_vars(QueryStep)`. The query is one synchronous call chain of a
  process that runs until it returns. The print step has no fairness, because
  no property asks that it happens. After it nothing is enabled (the process
  exits), hence `CHECK_DEADLOCK FALSE`. The concurrent appender has no
  fairness: no run of another process is owed.
* Exec loop: weak fairness separately for the stdin producer, the frontend,
  the command, and the daemon's closing of the connection. These are separate
  OS processes. The producer's fairness is what makes a non-interactive
  producer finish; an interactive one is weakly fair too, but its steps are
  disabled until it sees output. Empty
  frames are optional (no fairness). The frontend stops when the method
  returns or raises, hence `CHECK_DEADLOCK FALSE`. A deadlock shows up as a
  violation of `ExecTerminates`; `ExitEndsLoop` needs the producer's
  fairness, since a read in progress returns only when the producer writes
  a full chunk or closes.
* ToolRun: the same per-actor fairness, plus weak fairness on the process's
  steps. Its runs check invariants only. `exit` is final, and the exec loop
  may deadlock, hence `CHECK_DEADLOCK FALSE`.

## 5. Findings

See `PROJECT.json` "findings":

* **Deep provenance chains crash `fanin`/`fanout`**: one Python frame per
  nested version, so about 1000 versions give a `RecursionError`.
* **Printing a tree that was built can crash**: `str()` takes one or two
  frames per node (file and command alike), while building took one per file
  level. Trees of roughly 250-500 levels are built but cannot be printed.
* **Exec deadlock**: a blocking send of a 1 MiB stdin chunk while the
  command's output path is full. The loop serves at most one output frame
  per stdin chunk, so against `cat` the output piles up even when each
  chunk fits the input path: a large enough stdin deadlocks.
* **Broken pipe on success**: a command that exits 0 without reading all of
  its stdin makes `send()` raise, and nothing catches it.
* **An interactive stdin producer hangs `cincan run`**: `read(1 MiB)` on a
  pipe waits for a full buffer or EOF, so a line typed at the tool never
  reaches it.
* **Empty frame taken for EOF**: the rest of the output is lost.
* **`sys.exit(None)` reports success**: after such an early end, `ExitCode`
  is `None`; `main` writes no log and exits with status 0.
* **Unhashable records are rehashed**: `digest or hash_of(file)` treats a
  recorded `''` as "no digest given". The tree then shows the file's current
  version where the spec wants a leaf. A missing anchor also matches every
  record holding `''`.
* **Container leak**: `__create_container` starts the container and uploads
  outside `__run`'s try, so an upload error skips the kill. The container
  runs `sh` with a tty and open stdin, so it stays up.

The exec-loop findings depend on how the Docker daemon behaves, as described
in the module's header. The model assumes that the daemon closes the exec
connection once the command has exited, and that it frames writes as they
come.

## 6. Not modelled, and why

* `command_log.py`, `file_tool.py`, `tar_tool.py`, `registry.py`,
  `configuration.py` and `container_check.py` are not in `src/`:
  * The log is modelled from the spec; the `FileLog`/`CommandLog` entries are
    marked spec-modelled.
  * Upload, download, build, pull and image removal appear only as success
    or an exception.
* `frontend.py` lines 198-206: the `io.UnsupportedOperation` fallback exists
  for pytest's stdin only.
* Frames of types other than 1 and 2: the daemon sends none without a TTY.
* `buffer_output` (raw vs. streamed) changes only where the bytes go. It is
  the only difference between `run_get_string` and `run`.
* `output_tar == '-'` drops stdout frames on purpose.
* TTY mode of the exec is not modelled.
* The `test` branch needs `ContainerCheck`, which is not in `src/`.
* `list`, `manifest`, `help` and argument parsing are pure I/O.
  `src/docs/conf.py` is configuration.
* `print_fanout`/`__print_fans` are never called.
* Digest labels are cut to 16 characters, and paths with newlines break the
  layout. Both are display details, outside the layout property.
* Whether `CommandLogIndex` reads the log once or at each `list_entries`
  call is not in `src/`. The model takes the second (`Appends = 0` is the
  first), and the spec's per-call snapshot. With rereading, one tree can mix
  several states of the log, where spec section 5 asks that a traversal see
  a stable view; that is left as a hazard without a run, because it depends
  on code outside `src/`. No property is stated that holds only because
  entries go to the tail.
* A file changing on disk during a query (spec section 9's TOCTOU): `disk`
  is fixed for the query.
* Faults of the Docker daemon itself (a crash, a connection cut): a cut at a
  frame boundary looks like the daemon's close and gives the `sys.exit(None)`
  finding again; a cut inside a frame makes `unpack` raise "Failed to read
  all data" (frontend.py:158), which is the exec loop's exception path that
  `run_exit_cleanup` already covers. Neither adds a behaviour.
* Larger instances: no further symmetry is sound, because the anchor file is
  fixed. Three log entries, or a second concurrent append, go beyond the
  per-run time.

With these, Builder and Command inspector are modelled. Tool run and `main`
stay partly modelled, for the branches above whose code is outside `src/`.
