--------------------------- MODULE ContainerExec ---------------------------
(***************************************************************************)
(* ToolImage.__container_exec and __unpack_container_stream               *)
(* (src/cincan/frontend.py): the loop that pumps the user's stdin into a  *)
(* command exec'd in the container and demultiplexes its stdout and       *)
(* stderr frames, then records the streams' hashes in the CommandLog.      *)
(*                                                                         *)
(* Four actors run concurrently:                                           *)
(*  - the user's stdin producer, which writes stdin into a pipe over time  *)
(*    and then closes it; an Interactive one (a person at a prompt, or a   *)
(*    program talking to the tool) writes the next unit only after it has  *)
(*    seen the output of the previous one;                                 *)
(*  - the frontend loop (one thread): select() on the exec socket and      *)
(*    stdin, socket first; sys.stdin.buffer.read(buffer_size) blocks until *)
(*    buffer_size bytes or the EOF are there, and the chunk is sent with a *)
(*    blocking send() loop before the next select;                         *)
(*  - the command in the container: "cat" turns every unit it reads from   *)
(*    stdin into a unit of stdout and exits at end of input, "echo" writes *)
(*    one stdout and one stderr unit without reading stdin;                *)
(*  - the Docker daemon, which carries stdin to the command and its output *)
(*    back in frames, and closes the connection when the command exits.    *)
(* Data is counted in units; a unit stands for a block of bytes.  The      *)
(* pipeline towards the command holds InCap units, the one back OutCap     *)
(* frames (socket buffers, daemon copy buffers and the command's pipes).   *)
(* A stream's md5 is determined by the data it saw, so a recorded digest   *)
(* is modelled by the number of units hashed.                              *)
(***************************************************************************)
EXTENDS Naturals, Sequences, FiniteSets

CONSTANTS
    StdinUnits,      \* size of the user's stdin
    Chunk,           \* buffer_size: most units one stdin read returns
    InCap,           \* units the path frontend -> command can hold
    OutCap,          \* frames the path command -> frontend can hold
    Interactive,     \* the stdin producer waits for the output of what it wrote
    Commands,        \* behaviours of the exec'd command: subset of {"cat", "echo"}
    MaxEmptyFrames,  \* zero-length frames the daemon may send
    None             \* Python's None (model value)

ASSUME /\ Chunk \in Nat \ {0} /\ InCap \in Nat \ {0} /\ OutCap \in Nat \ {0}
       /\ Commands \subseteq {"cat", "echo"} /\ Interactive \in BOOLEAN

VARIABLES
    readStdin,   \* read_stdin: stdin is pumped (input_tar is not '-')
    fe,          \* frontend: "select", "read", "send", "inspect", "done", "error"
    sockOpen,    \* c_socket_open
    stdinOpen,   \* sys.stdin is in active_streams
    stdinLeft,   \* units of stdin the producer has not written yet
    avail,       \* units written into the stdin pipe and not read yet
    prodOpen,    \* the producer has not closed its end of stdin
    pending,     \* units of the current chunk not sent yet (out_off)
    hashed,      \* data_length of the stdin, stdout and stderr ToolStreams
    toC,         \* units sent and not yet read by the command
    shut,        \* the frontend did shutdown(SHUT_WR)
    cmd,         \* the command's behaviour
    proc,        \* "run" or "exited"
    code,        \* the command's exit code once exited
    out,         \* frame types the command still has to write
    written,     \* units of stdout / stderr the command wrote
    fromC,       \* frames on their way to the frontend
    empties,     \* zero-length frames sent so far
    eof,         \* the daemon has closed its side: EOF after fromC
    exitCode,    \* log.exit_code: an exit code or None
    files        \* the streams recorded in in_files / out_files

vars == <<readStdin, fe, sockOpen, stdinOpen, stdinLeft, avail, prodOpen, pending, hashed, toC,
          shut, cmd, proc, code, out, written, fromC, empties, eof,
          exitCode, files>>

Streams == {"stdin", "stdout", "stderr"}
FrameType == <<"stdout", "stderr">>   \* s_type 1 and 2
Frame == [type : {1, 2}, len : {0, 1}]

Min2(a, b) == IF a < b THEN a ELSE b

\* select(): the socket is readable when a frame or the EOF is there.
SockReady == fromC # <<>> \/ eof

\* select(): stdin is readable when the pipe holds data or is closed.
StdinReady == avail > 0 \/ ~prodOpen

\* Where the loop goes after an iteration: `while c_socket_open`.
AfterIteration(open) == IF open THEN "select" ELSE "inspect"

-----------------------------------------------------------------------------
Init ==
    /\ readStdin \in BOOLEAN
    /\ fe = "select"
    /\ sockOpen = TRUE
    /\ stdinOpen = readStdin
    /\ stdinLeft = StdinUnits
    /\ avail = 0
    /\ prodOpen = TRUE
    /\ pending = 0
    /\ hashed = [s \in Streams |-> 0]
    /\ toC = 0
    /\ shut = FALSE
    /\ cmd \in Commands
    /\ proc = "run"
    /\ code = 0
    /\ out = IF cmd = "echo" THEN <<1, 2>> ELSE <<>>
    /\ written = [t \in {1, 2} |-> 0]
    /\ fromC = <<>>
    /\ empties = 0
    /\ eof = FALSE
    /\ exitCode = None
    /\ files = {}

-----------------------------------------------------------------------------
(* The frontend.  After the socket has been served, stdin is read in the   *)
(* same iteration when select() found it readable too (the socket comes   *)
(* first in the list); `continue` after the EOF only skips to the next     *)
(* ready stream.  fe = "read" is the thread inside the blocking read().    *)
SockThen(open) == fe' = IF stdinOpen /\ StdinReady THEN "read" ELSE AfterIteration(open)

\* Mutant: the EOF branch forgets `c_socket_open = False`; the loop selects again.
SockEofKeepOpen ==
    /\ fe = "select" /\ fromC = <<>> /\ eof
    /\ SockThen(sockOpen)
    /\ UNCHANGED <<readStdin, sockOpen, stdinOpen, stdinLeft, avail, prodOpen, pending, hashed, toC, shut, cmd,
                   proc, code, out, written, fromC, empties, eof, exitCode, files>>

\* __unpack_container_stream reads no header: it returns (0, b'') and the loop ends.
SockEof ==
    /\ fe = "select" /\ fromC = <<>> /\ eof
    /\ sockOpen' = FALSE
    /\ SockThen(FALSE)
    /\ UNCHANGED <<readStdin, stdinOpen, stdinLeft, avail, prodOpen, pending, hashed, toC, shut, cmd,
                   proc, code, out, written, fromC, empties, eof, exitCode, files>>

\* Mutant: both frame types taken for stdout.
SockFrameStdoutOnly ==
    /\ fe = "select" /\ fromC # <<>> /\ Head(fromC).len > 0
    /\ fromC' = Tail(fromC)
    /\ hashed' = [hashed EXCEPT !["stdout"] = @ + Head(fromC).len]
    /\ SockThen(TRUE)
    /\ UNCHANGED <<readStdin, sockOpen, stdinOpen, stdinLeft, avail, prodOpen, pending, toC, shut, cmd,
                   proc, code, out, written, empties, eof, exitCode, files>>

(* A frame with a payload: s_type 1 goes to the stdout ToolStream, 2 to     *)
(* stderr, which hash it and write it out (or keep it in raw).             *)
SockFrame ==
    /\ fe = "select" /\ fromC # <<>> /\ Head(fromC).len > 0
    /\ fromC' = Tail(fromC)
    /\ hashed' = [hashed EXCEPT ![FrameType[Head(fromC).type]] = @ + Head(fromC).len]
    /\ SockThen(TRUE)
    /\ UNCHANGED <<readStdin, sockOpen, stdinOpen, stdinLeft, avail, prodOpen, pending, toC, shut, cmd,
                   proc, code, out, written, empties, eof, exitCode, files>>

(* A frame of length zero: its payload is b'', which `if not s_data` takes *)
(* for the EOF, so c_socket_open becomes False.                            *)
SockEmptyFrame ==
    /\ fe = "select" /\ fromC # <<>> /\ Head(fromC).len = 0
    /\ fromC' = Tail(fromC)
    /\ sockOpen' = FALSE
    /\ SockThen(FALSE)
    /\ UNCHANGED <<readStdin, stdinOpen, stdinLeft, avail, prodOpen, pending, hashed, toC, shut, cmd,
                   proc, code, out, written, empties, eof, exitCode, files>>

\* select() returns with stdin readable and not the socket: the read starts.
StdinSelect ==
    /\ fe = "select" /\ ~SockReady /\ stdinOpen /\ StdinReady
    /\ fe' = "read"
    /\ UNCHANGED <<readStdin, sockOpen, stdinOpen, stdinLeft, avail, prodOpen, pending,
                   hashed, toC, shut, cmd, proc, code, out, written, fromC, empties,
                   eof, exitCode, files>>

\* read() returns b'': stdin leaves active_streams and the socket is shut for writing.
StdinEof ==
    /\ fe = "read" /\ ~prodOpen /\ avail = 0
    /\ stdinOpen' = FALSE
    /\ shut' = TRUE
    /\ fe' = AfterIteration(sockOpen)
    /\ UNCHANGED <<readStdin, sockOpen, stdinLeft, avail, prodOpen, pending, hashed, toC, cmd,
                   proc, code, out, written, fromC, empties, eof, exitCode, files>>

\* Mutant: stdin read without a size, returning all the pipe holds.
StdinDataReadAll ==
    /\ fe = "read" /\ avail > 0
    /\ avail' = 0
    /\ pending' = avail
    /\ hashed' = [hashed EXCEPT !["stdin"] = @ + avail]
    /\ fe' = "send"
    /\ UNCHANGED <<readStdin, sockOpen, stdinOpen, stdinLeft, prodOpen, toC, shut, cmd,
                   proc, code, out, written, fromC, empties, eof, exitCode, files>>

(* read(buffer_size) on a blocking stream returns only when it has Chunk   *)
(* units or has met the EOF after some: the chunk is hashed, then sent.   *)
StdinData ==
    /\ fe = "read" /\ (avail >= Chunk \/ (~prodOpen /\ avail > 0))
    /\ LET k == Min2(Chunk, avail)
       IN /\ avail' = avail - k
          /\ pending' = k
          /\ hashed' = [hashed EXCEPT !["stdin"] = @ + k]
    /\ fe' = "send"
    /\ UNCHANGED <<readStdin, sockOpen, stdinOpen, stdinLeft, prodOpen, toC, shut, cmd,
                   proc, code, out, written, fromC, empties, eof, exitCode, files>>

(* One `out_off += c_socket_sock.send(...)`: a blocking send takes as much *)
(* as the pipeline has room for; the loop repeats until the chunk is sent. *)
SendSome ==
    /\ fe = "send" /\ ~eof /\ toC < InCap
    /\ \E n \in 1..Min2(pending, InCap - toC) :
          /\ toC' = toC + n
          /\ pending' = pending - n
          /\ fe' = IF pending' = 0 THEN AfterIteration(sockOpen) ELSE "send"
    /\ UNCHANGED <<readStdin, sockOpen, stdinOpen, stdinLeft, avail, prodOpen, hashed, shut, cmd,
                   proc, code, out, written, fromC, empties, eof, exitCode, files>>

(* send() on the connection the daemon has closed raises BrokenPipeError:  *)
(* nothing in __container_exec, __run (which only kills the container in  *)
(* its finally) or main catches it.                                        *)
SendFail ==
    /\ fe = "send" /\ eof
    /\ fe' = "error"
    /\ UNCHANGED <<readStdin, sockOpen, stdinOpen, stdinLeft, avail, prodOpen, pending, hashed, toC,
                   shut, cmd, proc, code, out, written, fromC, empties, eof, exitCode, files>>

(* After the loop: exec_inspect gives the exit code (None while the command *)
(* still runs) and, for exit code 0, the non-empty streams are recorded.   *)
Inspect ==
    /\ fe = "inspect"
    /\ exitCode' = IF proc = "exited" THEN code ELSE None
    /\ files' = IF exitCode' = 0 THEN {s \in Streams : hashed[s] > 0} ELSE {}
    /\ fe' = "done"
    /\ UNCHANGED <<readStdin, sockOpen, stdinOpen, stdinLeft, avail, prodOpen, pending, hashed, toC,
                   shut, cmd, proc, code, out, written, fromC, empties, eof>>

Frontend ==
    \/ SockEof \/ SockFrame \/ SockEmptyFrame
    \/ StdinSelect \/ StdinEof \/ StdinData \/ SendSome \/ SendFail \/ Inspect

-----------------------------------------------------------------------------
(* The stdin producer, the command in the container and the daemon (not   *)
(* code of this repository): their behaviour as the frontend sees it.      *)

\* An Interactive producer goes on only once it has the reply to all it wrote.
Answered == ~Interactive \/ hashed["stdout"] >= StdinUnits - stdinLeft

\* The producer writes a unit into the stdin pipe.
Produce ==
    /\ readStdin /\ prodOpen /\ stdinLeft > 0 /\ Answered
    /\ stdinLeft' = stdinLeft - 1
    /\ avail' = avail + 1
    /\ UNCHANGED <<readStdin, fe, sockOpen, stdinOpen, prodOpen, pending, hashed, toC,
                   shut, cmd, proc, code, out, written, fromC, empties, eof, exitCode, files>>

\* The producer closes its end: the reader sees the EOF after the data.
CloseStdin ==
    /\ readStdin /\ prodOpen /\ stdinLeft = 0 /\ Answered
    /\ prodOpen' = FALSE
    /\ UNCHANGED <<readStdin, fe, sockOpen, stdinOpen, stdinLeft, avail, pending, hashed,
                   toC, shut, cmd, proc, code, out, written, fromC, empties, eof,
                   exitCode, files>>

Producer == Produce \/ CloseStdin

\* cat reads one unit of its stdin when it has nothing left to write.
CatRead ==
    /\ cmd = "cat" /\ proc = "run" /\ out = <<>> /\ toC > 0
    /\ toC' = toC - 1
    /\ out' = <<1>>
    /\ UNCHANGED <<readStdin, fe, sockOpen, stdinOpen, stdinLeft, avail, prodOpen, pending, hashed,
                   shut, cmd, proc, code, written, fromC, empties, eof, exitCode, files>>

\* The command writes a unit, which the daemon frames; blocks when the path is full.
CmdWrite ==
    /\ proc = "run" /\ out # <<>> /\ Len(fromC) < OutCap
    /\ fromC' = Append(fromC, [type |-> Head(out), len |-> 1])
    /\ written' = [written EXCEPT ![Head(out)] = @ + 1]
    /\ out' = Tail(out)
    /\ UNCHANGED <<readStdin, fe, sockOpen, stdinOpen, stdinLeft, avail, prodOpen, pending, hashed, toC,
                   shut, cmd, proc, code, empties, eof, exitCode, files>>

\* echo exits when written; cat at the end of its input (none if stdin is not attached).
CmdExit ==
    /\ proc = "run" /\ out = <<>>
    /\ cmd = "cat" => toC = 0 /\ (shut \/ ~readStdin)
    /\ proc' = "exited"
    /\ code' \in {0, 1}
    /\ UNCHANGED <<readStdin, fe, sockOpen, stdinOpen, stdinLeft, avail, prodOpen, pending, hashed, toC,
                   shut, cmd, out, written, fromC, empties, eof, exitCode, files>>

\* The daemon frames an empty write of the command.
DaemonEmptyFrame ==
    /\ proc = "run" /\ empties < MaxEmptyFrames /\ Len(fromC) < OutCap
    /\ fromC' = Append(fromC, [type |-> 1, len |-> 0])
    /\ empties' = empties + 1
    /\ UNCHANGED <<readStdin, fe, sockOpen, stdinOpen, stdinLeft, avail, prodOpen, pending, hashed, toC,
                   shut, cmd, proc, code, out, written, eof, exitCode, files>>

\* Once the command has exited the daemon closes the connection; unread stdin is lost.
DaemonClose ==
    /\ proc = "exited" /\ ~eof
    /\ eof' = TRUE
    /\ toC' = 0
    /\ UNCHANGED <<readStdin, fe, sockOpen, stdinOpen, stdinLeft, avail, prodOpen, pending, hashed,
                   shut, cmd, proc, code, out, written, fromC, empties, exitCode, files>>

Command == CatRead \/ CmdWrite \/ CmdExit

Next == Frontend \/ Producer \/ Command \/ DaemonEmptyFrame \/ DaemonClose

(* Producer, frontend, command and daemon are separate processes the OS    *)
(* keeps running: each is weakly fair.  An empty frame is never owed.  The       *)
(* frontend stops when __container_exec returns or raises.                *)
Spec == Init /\ [][Next]_vars
        /\ WF_vars(Producer) /\ WF_vars(Frontend) /\ WF_vars(Command)
        /\ WF_vars(DaemonClose)

-----------------------------------------------------------------------------
TypeOK ==
    /\ readStdin \in BOOLEAN
    /\ fe \in {"select", "read", "send", "inspect", "done", "error"}
    /\ sockOpen \in BOOLEAN /\ stdinOpen \in BOOLEAN /\ shut \in BOOLEAN /\ eof \in BOOLEAN
    /\ stdinLeft \in 0..StdinUnits /\ prodOpen \in BOOLEAN
    /\ avail \in 0..StdinUnits /\ stdinLeft + avail + hashed["stdin"] = StdinUnits
    /\ pending \in 0..Chunk
    /\ hashed \in [Streams -> Nat]
    /\ toC \in 0..InCap
    /\ cmd \in Commands /\ proc \in {"run", "exited"} /\ code \in {0, 1}
    /\ out \in Seq({1, 2}) /\ written \in [{1, 2} -> Nat]
    /\ fromC \in Seq(Frame) /\ Len(fromC) <= OutCap
    /\ empties \in 0..MaxEmptyFrames
    /\ exitCode \in {0, 1, None}
    /\ files \subseteq Streams

(* __container_exec always comes back, with a CommandLog or an exception: *)
(* the blocking send of a stdin chunk and the command's blocking writes    *)
(* never wait on each other for good, and the blocking read of stdin never *)
(* waits on a producer that waits on the tool.                             *)
ExecTerminates == <>(fe \in {"done", "error"})

(* Once the command in the container has exited, __container_exec comes  *)
(* back, whatever the sizes: frames still on their way are drained, a      *)
(* read in progress returns when the producer finishes, a send in progress *)
(* fails on the closed connection, and the EOF ends the loop.              *)
ExitEndsLoop == (proc = "exited") ~> (fe \in {"done", "error"})

(* A command that exited 0 is never turned into a failure of cincan: the   *)
(* frontend does not crash on a connection the daemon closed after it.    *)
SuccessNotCrashed == fe = "error" => code # 0

=============================================================================
