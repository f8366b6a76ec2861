------------------------------ MODULE CommandLine ------------------------------
(***************************************************************************)
(* The processes of the command line (cli.py): `gateway init` of           *)
(* ConfigFiles, and either a script or one-shot command of Connection or   *)
(* `gateway serve`, whose startup, signals and finally clause are here.    *)
(* The main thread of `serve` and the owner's worker thread interleave;    *)
(* a signal is a KeyboardInterrupt at the main thread's next step.         *)
(***************************************************************************)
EXTENDS Connection, ConfigFiles

CONSTANTS
  MaxSignals,   \* bound: signals sent to the process
  MaxQueued     \* bound: works in the owner's queue

ASSUME CommandLineAssumption == MaxSignals \in Nat /\ MaxQueued \in Nat

VARIABLES
  server,     \* the variable server is bound
  listening,  \* the listener's socket is open
  worker,     \* the owner's thread: "none", "idle", "busy", "done"
  queued,     \* works in its queue
  stopping,   \* the None of close() is behind them
  handlers,   \* whose signal handlers are installed
  signals,    \* signals so far
  cut         \* history: a signal came inside the finally clause

serveVars == <<server, listening, worker, queued, stopping, handlers, signals, cut>>
vars == <<connectionVars, fileVars, serveVars>>

Init ==
  /\ ConnectionInit /\ FilesInit
  /\ server = FALSE /\ listening = FALSE
  /\ worker = "none" /\ queued = 0 /\ stopping = FALSE
  /\ handlers = "previous" /\ signals = 0 /\ cut = FALSE

MainAt(place) == role = "serve" /\ at = place

----------------------------------------------------------------------------
(* Startup: the body of the try statement.                                 *)

InstallHandlers ==
  /\ MainAt("start")
  /\ handlers' = "ours" /\ Goto("load")
  /\ Stay /\ UNCHANGED <<opened, executor, fileVars>>
  /\ UNCHANGED <<server, listening, worker, queued, stopping, signals, cut>>

\* Both files, --auth given or not.
Load ==
  /\ MainAt("load")
  /\ \E required \in BOOLEAN :
       \/ SettingsFor(kind) /\ AuthLoads(required) /\ Goto(FirstStep)
       \/ (SettingsRefused \/ AuthRefused(required)) /\ Raise("configuration")
  /\ Stay /\ UNCHANGED <<opened, executor, fileVars, serveVars>>

IdentifyInstrument ==
  /\ MainAt("identify")
  /\ Goto("server") \/ Raise("instrument")
  /\ Stay /\ UNCHANGED <<opened, executor, fileVars, serveVars>>

\* GatewayServer(): the commit, then the owner with its thread, then the socket.
StartOwner ==
  /\ MainAt("server")
  /\ \/ worker' = "idle" /\ Goto("bind")
     \/ UNCHANGED worker /\ Raise("gateway")
  /\ Stay /\ UNCHANGED <<opened, executor, fileVars>>
  /\ UNCHANGED <<server, listening, queued, stopping, handlers, signals, cut>>

Bind ==
  /\ MainAt("bind")
  /\ \/ listening' = TRUE /\ Goto("assign")
     \/ UNCHANGED listening /\ Raise("os")
  /\ Stay /\ UNCHANGED <<opened, executor, fileVars>>
  /\ UNCHANGED <<server, worker, queued, stopping, handlers, signals, cut>>

AssignServer ==
  /\ MainAt("assign")
  /\ server' = TRUE /\ Goto("serving")
  /\ Stay /\ UNCHANGED <<opened, executor, fileVars>>
  /\ UNCHANGED <<listening, worker, queued, stopping, handlers, signals, cut>>

----------------------------------------------------------------------------
(* The finally clause.                                                     *)

\* Mutant of Finally: only a server is closed.
FinallyServerOnly ==
  /\ MainAt("finally")
  /\ Goto(IF server THEN "listener" ELSE "restore")
  /\ Stay /\ UNCHANGED <<opened, executor, fileVars, serveVars>>

Finally ==
  /\ MainAt("finally")
  /\ Goto(IF server THEN "listener" ELSE IF executor # "none" THEN "close" ELSE "restore")
  /\ Stay /\ UNCHANGED <<opened, executor, fileVars, serveVars>>

CloseListener ==
  /\ MainAt("listener")
  /\ listening' = FALSE /\ Goto("stop")
  /\ Stay /\ UNCHANGED <<opened, executor, fileVars>>
  /\ UNCHANGED <<server, worker, queued, stopping, handlers, signals, cut>>

PutStop ==
  /\ MainAt("stop")
  /\ stopping' = TRUE /\ Goto("join")
  /\ Stay /\ UNCHANGED <<opened, executor, fileVars>>
  /\ UNCHANGED <<server, listening, worker, queued, handlers, signals, cut>>

\* join(timeout=5) ends with the worker or in the middle of a long batch.
Join ==
  /\ MainAt("join") /\ worker \in {"busy", "done"}
  /\ Goto("close")
  /\ Stay /\ UNCHANGED <<opened, executor, fileVars, serveVars>>

\* executor.close() waits for the lock that a running batch holds.
CloseExecutor ==
  /\ MainAt("close") /\ worker # "busy"
  /\ \/ CloseDone /\ Goto("restore")
     \/ CloseFails /\ raised' = "close" /\ at' = "left"
  /\ Stay /\ UNCHANGED <<fileVars, serveVars>>

RestoreHandlers ==
  /\ MainAt("restore")
  /\ handlers' = "previous" /\ Goto("left")
  /\ Stay /\ UNCHANGED <<opened, executor, fileVars>>
  /\ UNCHANGED <<server, listening, worker, queued, stopping, signals, cut>>

\* Mutant of MayExit: the owner's thread is no daemon.
MayExitJoined == worker \in {"none", "done"}

\* The interpreter waits for no daemon thread.
MayExit == TRUE

Exit ==
  /\ MainAt("left") /\ MayExit
  /\ Goto("gone")
  /\ Stay /\ UNCHANGED <<opened, executor, fileVars, serveVars>>

----------------------------------------------------------------------------
(* Signals and the worker.                                                 *)

Starting == {"load", "manager", "session", "configure", "made", "identify",
             "server", "bind", "assign", "serving"}
Ending == {"finally", "listener", "stop", "join", "close", "restore"}

\* In the try statement a signal starts the orderly stop, elsewhere it ends _run.
Signal ==
  /\ role = "serve" /\ signals < MaxSignals /\ at \in {"start"} \cup Starting \cup Ending
  /\ signals' = signals + 1
  /\ raised' = "interrupt"
  /\ at' = IF at \in Starting THEN "finally" ELSE "left"
  /\ cut' = (cut \/ at \in Ending)
  /\ Stay /\ UNCHANGED <<opened, executor, fileVars>>
  /\ UNCHANGED <<server, listening, worker, queued, stopping, handlers>>

\* Handlers of connected clients submit, also while the listener is closed; a work
\* behind the None is never taken.
Submit ==
  /\ role = "serve" /\ server /\ at # "gone" /\ ~ stopping /\ queued < MaxQueued
  /\ queued' = queued + 1
  /\ UNCHANGED <<connectionVars, fileVars>>
  /\ UNCHANGED <<server, listening, worker, stopping, handlers, signals, cut>>

WorkerStep ==
  /\ role = "serve" /\ at # "gone"
  /\ \/ worker = "idle" /\ queued > 0 /\ worker' = "busy" /\ queued' = queued - 1
     \/ worker = "busy" /\ worker' = "idle" /\ UNCHANGED queued
     \/ worker = "idle" /\ queued = 0 /\ stopping /\ worker' = "done" /\ UNCHANGED queued
  /\ UNCHANGED <<connectionVars, fileVars>>
  /\ UNCHANGED <<server, listening, stopping, handlers, signals, cut>>

----------------------------------------------------------------------------
StopStep ==
  \/ Finally \/ CloseListener \/ PutStop \/ Join \/ CloseExecutor
  \/ RestoreHandlers \/ Exit

Next ==
  \/ (OpenStep \/ ConnectStep) /\ UNCHANGED <<fileVars, serveVars>>
  \/ InstallHandlers \/ Load \/ IdentifyInstrument \/ StartOwner \/ Bind \/ AssignServer
  \/ StopStep \/ Signal \/ Submit \/ WorkerStep
  \/ FilesNext /\ UNCHANGED <<connectionVars, serveVars>>

\* The main thread runs once it is in its finally clause, and so does the worker:
\* batches end, since their transport calls do.
Spec == Init /\ [][Next]_vars /\ WF_vars(StopStep) /\ WF_vars(WorkerStep)

----------------------------------------------------------------------------
(* Properties.                                                             *)

TypeOK ==
  /\ ConnectionTypeOK /\ FilesTypeOK
  /\ server \in BOOLEAN /\ listening \in BOOLEAN /\ stopping \in BOOLEAN
  /\ worker \in {"none", "idle", "busy", "done"}
  /\ queued \in 0 .. MaxQueued /\ signals \in 0 .. MaxSignals
  /\ handlers \in {"previous", "ours"} /\ cut \in BOOLEAN

\* `gateway serve` that has got its executor leaves nothing open and its signal
\* handlers restored, whether its startup failed or a signal came, and at
\* whatever step: "close the gateway listener and its physical instrument
\* connection before the process exits" (README.md:537). There are three
\* exceptions: a second signal inside the finally clause (cli.py:267), a close()
\* that fails, and, for the listener alone, a signal between the bind
\* (server.py:160) and the assignment of `server` (cli.py:249), after which the
\* finally clause finds no server and the exit of the process closes the socket.
StopReleasesInstrument ==
  /\ role = "serve" /\ at \in {"left", "gone"}
  /\ executor # "none" /\ ~ cut /\ raised # "close"
  => /\ opened = {} /\ handlers = "previous"
     /\ listening => ~ server /\ raised = "interrupt"

\* A failed startup and a stop, cut short or not, end the process, whatever the
\* worker is doing and although nobody stops it when the bind failed.
ServeEnds == (role = "serve" /\ at \in Ending \cup {"left"}) ~> (at = "gone")
===============================================================================
