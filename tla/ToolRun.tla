------------------------------ MODULE ToolRun ------------------------------
(***************************************************************************)
(* `cincan run <tool> ...` (src/cincan/frontend.py): main's run branch,    *)
(* ToolImage.__init__ with __get_image, ToolImage.run and __run, composed  *)
(* with the exec loop of ContainerExec, whose variables and actions this   *)
(* module extends.                                                         *)
(*                                                                         *)
(* The tool image is built from a Docker context (--path) or taken by      *)
(* name, pulled when asked or when it is not in the local store.  __run    *)
(* creates and starts a container, uploads the inputs, runs the exec loop, *)
(* downloads the outputs when the exit code is 0, and in its `finally`     *)
(* kills the container and removes an image it built.  main then writes    *)
(* the CommandLog for exit code 0 and calls sys.exit(log.exit_code).       *)
(* Docker, the registry, TarTool and the configuration are not code of     *)
(* this repository: their outcomes (success or an exception) are chosen    *)
(* nondeterministically.  An uncaught exception ends the process with      *)
(* status 1, as does sys.exit(1); sys.exit(None) ends it with status 0.   *)
(***************************************************************************)
EXTENDS ContainerExec

CONSTANTS
    UploadMayFail    \* TarTool.upload in __create_container may raise

ASSUME UploadMayFail \in BOOLEAN

VARIABLES
    stage,       \* image, pull, config, create, exec, download, finally, main, exit
    source,      \* "path" (--path given) or "image"
    pull,        \* --pull
    local,       \* the image is in the local Docker store
    loaded,      \* self.loaded_image
    conflict,    \* both --in and --in-filter given
    logOn,       \* config.is_command_log()
    started,     \* a container was created and started
    killed,      \* container.kill() was called
    removed,     \* remove_image() removed the image
    raised,      \* an exception is propagating through __run's finally
    downloaded,  \* the output files were downloaded into log.out_files
    logWritten,  \* CommandLogWriter.write(log) was called
    status       \* the process exit status

runVars == <<stage, source, pull, local, loaded, conflict, logOn, started,
             killed, removed, raised, downloaded, logWritten, status>>

allVars == <<vars, runVars>>

(* An exception that leaves main (the run branch calls tool.run with no   *)
(* handler): Python prints it and exits with status 1.                     *)
Crash == stage' = "exit" /\ status' = 1

-----------------------------------------------------------------------------
RunInit ==
    /\ Init
    /\ stage = "image"
    /\ source \in {"path", "image"}
    /\ pull \in BOOLEAN
    /\ local \in BOOLEAN
    /\ loaded = FALSE
    /\ conflict \in BOOLEAN
    /\ logOn \in BOOLEAN
    /\ started = FALSE /\ killed = FALSE /\ removed = FALSE
    /\ raised = FALSE /\ downloaded = FALSE /\ logWritten = FALSE
    /\ status = None

(* ToolImage.__init__ with --path: images.build either returns the image   *)
(* or raises BuildError.                                                   *)
Build ==
    /\ stage = "image" /\ source = "path"
    /\ \/ stage' = "config" /\ local' = TRUE /\ UNCHANGED status
       \/ Crash /\ UNCHANGED local
    /\ UNCHANGED <<vars, source, pull, loaded, conflict, logOn, started, killed,
                   removed, raised, downloaded, logWritten>>

(* ToolImage.__init__ with an image name: loaded_image is set; with --pull *)
(* the image is pulled first, otherwise __get_image(pull=False) looks it   *)
(* up and ImageNotFound falls back to a pull.                              *)
GetImage ==
    /\ stage = "image" /\ source = "image"
    /\ loaded' = TRUE
    /\ stage' = IF pull \/ ~local THEN "pull" ELSE "config"
    /\ UNCHANGED <<vars, source, pull, local, conflict, logOn, started, killed,
                   removed, raised, downloaded, logWritten, status>>

(* __get_image(pull=True): images.pull then images.get; a pull the         *)
(* registry refuses raises and nothing catches it.                         *)
Pull ==
    /\ stage = "pull"
    /\ \/ stage' = "config" /\ local' = TRUE /\ UNCHANGED status
       \/ Crash /\ UNCHANGED local
    /\ UNCHANGED <<vars, source, pull, loaded, conflict, logOn, started, killed,
                   removed, raised, downloaded, logWritten>>

(* main sets the tool's options; --in with --in-filter raises.             *)
Configure ==
    /\ stage = "config"
    /\ IF conflict THEN Crash ELSE stage' = "create" /\ UNCHANGED status
    /\ UNCHANGED <<vars, source, pull, local, loaded, conflict, logOn, started,
                   killed, removed, raised, downloaded, logWritten>>

(* __run calls __create_container before its try: the container is         *)
(* created and started, then the inputs are uploaded; an upload error     *)
(* escapes __run without reaching the finally.                             *)
CreateContainer ==
    /\ stage = "create"
    /\ started' = TRUE
    /\ \/ stage' = "exec" /\ UNCHANGED status
       \/ UploadMayFail /\ Crash
    /\ UNCHANGED <<vars, source, pull, local, loaded, conflict, logOn, killed,
                   removed, raised, downloaded, logWritten>>

(* The exec loop runs inside the try; the command and the daemon run from  *)
(* exec_start until the container is killed.                              *)
ExecStep == stage = "exec" /\ Frontend /\ UNCHANGED runVars

Running == stage \in {"exec", "download", "finally"}

EnvCommand == Running /\ Command /\ UNCHANGED runVars
\* The user's stdin producer runs beside cincan from the start.
EnvStdin == Producer /\ UNCHANGED runVars

EnvDaemon == Running /\ (DaemonEmptyFrame \/ DaemonClose) /\ UNCHANGED runVars

(* __container_exec returns its log or raises into the try of __run.       *)
ExecEnd ==
    /\ stage = "exec" /\ fe \in {"done", "error"}
    /\ raised' = (fe = "error")
    /\ stage' = IF fe = "done" /\ exitCode = 0 THEN "download" ELSE "finally"
    /\ UNCHANGED <<vars, source, pull, local, loaded, conflict, logOn, started,
                   killed, removed, downloaded, logWritten, status>>

\* Mutant: a download error is caught and the log returned as it is.
DownloadSwallow ==
    /\ stage = "download"
    /\ downloaded' \in BOOLEAN
    /\ stage' = "finally"
    /\ UNCHANGED <<vars, source, pull, local, loaded, conflict, logOn, started,
                   killed, removed, raised, logWritten, status>>

(* Exit code 0: TarTool.download_files fills log.out_files, or raises.     *)
Download ==
    /\ stage = "download"
    /\ \/ downloaded' = TRUE /\ UNCHANGED raised
       \/ raised' = TRUE /\ UNCHANGED downloaded
    /\ stage' = "finally"
    /\ UNCHANGED <<vars, source, pull, local, loaded, conflict, logOn, started,
                   killed, removed, logWritten, status>>

(* The finally of __run: kill the container; an image this run built is    *)
(* removed, an APIError of the removal only logged.  A pending exception   *)
(* then leaves main.                                                       *)
\* Mutant: the kill placed after the try, skipped by an exception.
FinallyKillOnReturn ==
    /\ stage = "finally"
    /\ killed' = ~raised
    /\ removed' \in IF loaded THEN {FALSE} ELSE BOOLEAN
    /\ IF raised THEN Crash ELSE stage' = "main" /\ UNCHANGED status
    /\ UNCHANGED <<vars, source, pull, local, loaded, conflict, logOn, started,
                   raised, downloaded, logWritten>>

Finally ==
    /\ stage = "finally"
    /\ killed' = TRUE
    /\ removed' \in IF loaded THEN {FALSE} ELSE BOOLEAN
    /\ IF raised THEN Crash ELSE stage' = "main" /\ UNCHANGED status
    /\ UNCHANGED <<vars, source, pull, local, loaded, conflict, logOn, started,
                   raised, downloaded, logWritten>>

(* main after tool.run: the log is written for exit code 0 when the       *)
(* command log is on, then sys.exit(log.exit_code); exit code None gives  *)
(* status 0.                                                               *)
MainExit ==
    /\ stage = "main"
    /\ logWritten' = (exitCode = 0 /\ logOn)
    /\ status' = IF exitCode = None THEN 0 ELSE exitCode
    /\ stage' = "exit"
    /\ UNCHANGED <<vars, source, pull, local, loaded, conflict, logOn, started,
                   killed, removed, raised, downloaded>>

RunNext ==
    \/ Build \/ GetImage \/ Pull \/ Configure \/ CreateContainer
    \/ ExecStep \/ EnvStdin \/ EnvCommand \/ EnvDaemon
    \/ ExecEnd \/ Download \/ Finally \/ MainExit

(* The frontend is one thread; the producer keeps writing, and the command  *)
(* and the daemon keep running while the container is alive.             *)
RunSpec ==
    /\ RunInit /\ [][RunNext]_allVars
    /\ WF_allVars(RunNext) /\ WF_allVars(ExecStep) /\ WF_allVars(EnvStdin)
    /\ WF_allVars(EnvCommand) /\ WF_allVars(Running /\ DaemonClose /\ UNCHANGED runVars)

-----------------------------------------------------------------------------
(* Exit status 0 of `cincan run` means what a caller takes it to mean: the *)
(* command ran to its end with exit code 0, all it wrote on stdout and     *)
(* stderr reached cincan's own streams, its output files were downloaded, *)
(* and with the command log on its entry was written; and an entry is     *)
(* written only for such a run (main, __run, the exec loop, exec_inspect). *)
ExitStatusTruthful ==
    /\ (stage = "exit" /\ status = 0) =>
          /\ proc = "exited" /\ code = 0 /\ downloaded
          /\ hashed["stdout"] = written[1] /\ hashed["stderr"] = written[2]
          /\ logOn => logWritten
    /\ logWritten => proc = "exited" /\ code = 0 /\ downloaded

(* When the process exits, a container it started has been killed (it runs *)
(* `sh` with a tty and open stdin, so it would live on), and an image it   *)
(* did not build itself is never removed (the finally of __run).          *)
CleanupOnExit ==
    stage = "exit" => /\ started => killed
                      /\ removed => ~loaded

=============================================================================
