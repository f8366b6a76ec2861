--------------------------- MODULE CommandLineProofs ---------------------------
(***************************************************************************)
(* Proofs about CommandLine with its connection and its files, for any     *)
(* number of inits, signals and queued works: what a program that fails or *)
(* is stopped leaves open, and which files an init may touch.              *)
(***************************************************************************)
EXTENDS CommandLine, TLAPS

(* An init that still writes has a file left to write ...                  *)
TargetsOK ==
  \A i \in Inits :
    initAt[i] \in {"start", "open", "write"} => targets[i] \in {Templates, Tail(Templates)}

(* ... and has found neither of the two when it looked.                    *)
FoundOK == \A i \in Inits : initAt[i] \in {"open", "write"} => found[i] = {}

FilesInv == FilesTypeOK /\ TargetsOK /\ FoundOK

(* The places at which the program has no executor yet, or has one.        *)
Opening == {"start", "load", "manager", "session", "configure", "handshake", "made"}
Open    == {"identify", "check", "using", "server", "bind", "assign", "serving"}

(* Before there is an executor, only VISA has something open before its    *)
(* session, and the handshake is the gateway's.                            *)
OpeningOK ==
  /\ role = "serve" => kind # "gateway"
  /\ at \in Opening => executor = "none"
  /\ at \in Open => executor # "none"
  /\ at \in {"start", "load", "manager"} => opened = {}
  /\ at = "manager" => kind = "visa"
  /\ at = "session" /\ kind # "visa" => opened = {}
  /\ at = "handshake" => kind = "gateway"

(* What the finally clause has done by the step that it is at.             *)
EndingOK ==
  role = "serve" =>
    /\ at = "listener" => server
    /\ at \in {"stop", "join", "close", "restore"} => (server => ~ listening)
    /\ at = "restore" /\ executor # "none" => opened = {}
    /\ at \in Opening \cup (Open \ {"assign", "serving"}) => ~ listening
    /\ at \in Ending /\ listening => server \/ raised = "interrupt"

OpeningInv == OpeningOK /\ FailedConnectClosesAll
ReleaseInv == OpeningInv /\ EndingOK /\ StopReleasesInstrument

-------------------------------------------------------------------------------
(* The two templates are written one after the other.                      *)
LEMMA TemplatesShrink ==
  ASSUME NEW s \in {Templates, Tail(Templates)}
  PROVE  /\ Head(s) \in Names
         /\ Tail(s) \in {Tail(Templates), <<>>}
         /\ Len(s) # 1 => Tail(s) = Tail(Templates)
  <1>1. /\ Templates \in Seq(Names) /\ Len(Templates) = 2
        /\ Head(Templates) = "settings" /\ Tail(Templates) = <<"auth">>
    BY DEF Templates, Names
  <1>2. /\ Head(<<"auth">>) = "auth" /\ Tail(<<"auth">>) = <<>> /\ Len(<<"auth">>) = 1
    OBVIOUS
  <1> QED BY <1>1, <1>2 DEF Names

\* Before init has looked, it has neither found nor written a file.
LEMMA FilesInvInit == FilesInit => FilesInv
  BY DEF FilesInit, FilesInv, FilesTypeOK, TargetsOK, FoundOK, Names, Contents

(* One step per action of an init and of the operator.                     *)
LEMMA FilesInvNext == FilesInv /\ [FilesNext]_fileVars => FilesInv'
  <1> SUFFICES ASSUME FilesInv, [FilesNext]_fileVars PROVE FilesInv'
    OBVIOUS
  <1> USE DEF FilesInv, FilesTypeOK, TargetsOK, FoundOK
  <1>1. ASSUME NEW i \in Inits, Look(i) PROVE FilesInv'
    BY <1>1 DEF Look, Refuses, Existing, Names
  <1>2. ASSUME NEW i \in Inits, OpenTarget(i) PROVE FilesInv'
    <2>1. Head(targets[i]) \in Names
      BY <1>2, TemplatesShrink DEF OpenTarget
    <2> QED BY <1>2, <2>1 DEF OpenTarget, Contents
  <1>3. ASSUME NEW i \in Inits, WriteTarget(i) PROVE FilesInv'
    <2>1. /\ Head(targets[i]) \in Names
          /\ Tail(targets[i]) \in {Tail(Templates), <<>>}
          /\ Len(targets[i]) # 1 => Tail(targets[i]) = Tail(Templates)
      BY <1>3, TemplatesShrink DEF WriteTarget
    <2> QED BY <1>3, <2>1 DEF WriteTarget, Contents
  <1>4. ASSUME NEW i \in Inits, InitFails(i) PROVE FilesInv'
    BY <1>4 DEF InitFails
  <1>5. ASSUME NEW n \in Names, Edit(n) \/ Remove(n) PROVE FilesInv'
    BY <1>5 DEF Edit, Remove, Contents
  <1>6. CASE UNCHANGED fileVars
    BY <1>6 DEF fileVars
  <1> QED BY <1>1, <1>2, <1>3, <1>4, <1>5, <1>6 DEF FilesNext, InitStep

\* Every step that touches the files is one of the files.
LEMMA FilesNextOfNext == [Next]_vars => [FilesNext]_fileVars
  BY DEF Next, vars, InstallHandlers, Load, IdentifyInstrument, StartOwner, Bind, AssignServer,
         StopStep, Finally, CloseListener, PutStop, Join, CloseExecutor, RestoreHandlers, Exit,
         Signal, Submit, WorkerStep

(* A later init does not touch a file that it found, whatever the others   *)
(* and the operator do between its check and its failure.                  *)
THEOREM InitKeepsWhatItFound == Spec => KeepsWhatItFound
  <1>1. Init => FilesInv
    BY FilesInvInit DEF Init
  <1>2. FilesInv /\ [Next]_vars => FilesInv'
    BY FilesNextOfNext, FilesInvNext
  <1>3. FilesInv =>
          [\A i \in Inits, n \in Names :
             n \in found[i] /\ InitStep(i) => files'[n] = files[n]]_fileVars
    BY DEF FilesInv, FoundOK, InitStep, Look, OpenTarget, WriteTarget, InitFails
  <1> QED BY <1>1, <1>2, <1>3, PTL DEF Spec, KeepsWhatItFound

-------------------------------------------------------------------------------
\* Nothing is open before connect.
LEMMA ReleaseInit == Init => ReleaseInv
  BY DEF Init, ConnectionInit, ReleaseInv, OpeningInv, OpeningOK, EndingOK, Opening, Open,
         FailedConnectClosesAll, StopReleasesInstrument, Kinds

(* A constructor that fails leaves the manager of VISA open at most ...    *)
LEMMA OpenStepOpening ==
  ASSUME OpeningInv, OpenStep
  PROVE  OpeningInv'
  <1> USE DEF OpeningInv, OpeningOK, Opening, Open, FailedConnectClosesAll, Stay, Goto, Raise,
              LinkError
  <1>1. CASE OpenManager
    BY <1>1 DEF OpenManager
  <1>2. CASE OpenSession
    BY <1>2 DEF OpenSession
  <1>3. CASE Configure
    BY <1>3 DEF Configure
  <1>4. CASE Handshake
    BY <1>4 DEF Handshake
  <1>5. CASE Wrap
    BY <1>5 DEF Wrap
  <1> QED BY <1>1, <1>2, <1>3, <1>4, <1>5 DEF OpenStep

(* ... and once there is an executor, every exception closes it.           *)
LEMMA ConnectStepOpening ==
  ASSUME OpeningInv, ConnectStep
  PROVE  OpeningInv'
  <1> USE DEF OpeningInv, OpeningOK, Opening, Open, FailedConnectClosesAll, Stay, Goto, Raise,
              CloseDone, CloseFails, CloseAndRaise, FirstStep
  <1>1. CASE Connect
    BY <1>1 DEF Connect
  <1>2. CASE Identify
    BY <1>2 DEF Identify
  <1>3. CASE CheckCapabilities
    BY <1>3 DEF CheckCapabilities
  <1>4. CASE EndWith \/ CloseDevice
    BY <1>4 DEF EndWith, CloseDevice
  <1>5. CASE InterruptConnect
    BY <1>5 DEF InterruptConnect
  <1> QED BY <1>1, <1>2, <1>3, <1>4, <1>5 DEF ConnectStep

(* `gateway serve` has an executor from its first identification on.       *)
LEMMA ServeStepOpening ==
  ASSUME OpeningInv,
         \/ InstallHandlers \/ Load \/ IdentifyInstrument \/ StartOwner \/ Bind \/ AssignServer
         \/ StopStep \/ Signal
  PROVE  OpeningInv'
  <1> USE DEF OpeningInv, OpeningOK, Opening, Open, FailedConnectClosesAll, Stay, Goto, Raise, MainAt
  <1>1. CASE InstallHandlers \/ Load
    BY <1>1 DEF InstallHandlers, Load, FirstStep
  <1>2. CASE IdentifyInstrument \/ StartOwner \/ Bind \/ AssignServer
    BY <1>2 DEF IdentifyInstrument, StartOwner, Bind, AssignServer
  <1>3. CASE Finally \/ CloseListener \/ PutStop \/ Join
    BY <1>3 DEF Finally, CloseListener, PutStop, Join
  <1>4. CASE CloseExecutor
    BY <1>4 DEF CloseExecutor, CloseDone, CloseFails
  <1>5. CASE RestoreHandlers \/ Exit
    BY <1>5 DEF RestoreHandlers, Exit
  <1>6. CASE Signal
    BY <1>6 DEF Signal, Starting, Ending
  <1> QED BY <1>1, <1>2, <1>3, <1>4, <1>5, <1>6 DEF StopStep

(* Its finally clause closes the listener, then the executor, and restores *)
(* the handlers last; only a signal or a failing close() skips a step.     *)
LEMMA ServeStepEnding ==
  ASSUME ReleaseInv,
         \/ InstallHandlers \/ Load \/ IdentifyInstrument \/ StartOwner \/ Bind \/ AssignServer
         \/ StopStep \/ Signal
  PROVE  EndingOK' /\ StopReleasesInstrument'
  <1> USE DEF ReleaseInv, EndingOK, StopReleasesInstrument, Stay, Goto, Raise, MainAt, serveVars
  <1>1. CASE InstallHandlers \/ Load \/ IdentifyInstrument \/ StartOwner \/ Bind \/ AssignServer
    <2>1. at' \notin {"listener", "stop", "join", "close", "restore", "left", "gone"}
      BY <1>1 DEF InstallHandlers, Load, FirstStep, IdentifyInstrument, StartOwner, Bind, AssignServer
    <2>2. CASE AssignServer
      BY <2>1, <2>2 DEF AssignServer, Ending, Opening, Open
    <2>3. CASE Bind
      BY <2>1, <2>3 DEF Bind, Ending, Opening, Open
    <2>4. CASE InstallHandlers \/ Load \/ IdentifyInstrument \/ StartOwner
      <3>1. ~ listening /\ ~ listening'
        BY <2>4 DEF InstallHandlers, Load, IdentifyInstrument, StartOwner, Opening, Open
      <3> QED BY <2>1, <3>1
    <2> QED BY <1>1, <2>2, <2>3, <2>4
  <1>2. CASE Finally
    BY <1>2 DEF Finally, Ending, Opening, Open
  <1>3. CASE CloseListener \/ PutStop \/ Join
    BY <1>3 DEF CloseListener, PutStop, Join, Ending, Opening, Open
  <1>4. CASE CloseExecutor
    BY <1>4 DEF CloseExecutor, CloseDone, CloseFails, Ending, Opening, Open
  <1>5. CASE RestoreHandlers \/ Exit
    BY <1>5 DEF RestoreHandlers, Exit, Ending, Opening, Open
  <1>6. CASE Signal
    BY <1>6 DEF Signal, Starting, Ending, OpeningInv, OpeningOK, Opening, Open
  <1> QED BY <1>1, <1>2, <1>3, <1>4, <1>5, <1>6 DEF StopStep

\* All steps.
LEMMA ReleaseNext == ReleaseInv /\ [Next]_vars => ReleaseInv'
  <1> SUFFICES ASSUME ReleaseInv, [Next]_vars PROVE ReleaseInv'
    OBVIOUS
  <1>1. CASE (OpenStep \/ ConnectStep) /\ UNCHANGED serveVars
    <2>1. OpeningInv'
      BY <1>1, OpenStepOpening, ConnectStepOpening DEF ReleaseInv
    <2>2. at' \in Opening \cup Open \cup {"finally", "failed", "closing", "closed"}
      BY <1>1 DEF OpenStep, OpenManager, OpenSession, Configure, Handshake, Wrap,
                  ConnectStep, Connect, Identify, CheckCapabilities, EndWith, CloseDevice,
                  InterruptConnect, CloseAndRaise, Goto, Raise, FirstStep, Opening, Open
    <2>3. UNCHANGED <<role, listening>>
      BY <1>1 DEF OpenStep, OpenManager, OpenSession, Configure, Handshake, Wrap, ConnectStep,
                  Connect, Identify, CheckCapabilities, EndWith, CloseDevice, InterruptConnect,
                  CloseAndRaise, Raise, Stay, serveVars
    <2>4. role = "serve" => at \in Opening /\ at' \notin {"assign", "serving"}
      BY <1>1 DEF OpenStep, OpenManager, OpenSession, Configure, Handshake, Wrap, ConnectStep,
                  Connect, Identify, CheckCapabilities, EndWith, CloseDevice, InterruptConnect,
                  Goto, Raise, Opening
    <2>5. role = "serve" => ~ listening
      BY <2>4 DEF ReleaseInv, EndingOK
    <2>6. EndingOK' /\ StopReleasesInstrument'
      BY <2>2, <2>3, <2>5 DEF EndingOK, StopReleasesInstrument, Opening, Open
    <2> QED BY <2>1, <2>6 DEF ReleaseInv
  <1>2. CASE \/ Submit \/ WorkerStep \/ UNCHANGED vars
             \/ FilesNext /\ UNCHANGED <<connectionVars, serveVars>>
    <2>1. UNCHANGED <<connectionVars, server, listening, handlers, signals, cut>>
      BY <1>2 DEF Submit, WorkerStep, serveVars, vars
    <2> QED BY <2>1 DEF connectionVars, ReleaseInv, OpeningInv, OpeningOK, EndingOK,
                        FailedConnectClosesAll, StopReleasesInstrument
  <1>3. CASE \/ InstallHandlers \/ Load \/ IdentifyInstrument \/ StartOwner \/ Bind
             \/ AssignServer \/ StopStep \/ Signal
    BY <1>3, ServeStepOpening, ServeStepEnding DEF ReleaseInv
  <1> QED BY <1>1, <1>2, <1>3 DEF Next

(* connect() that raises leaves nothing open, except by an interrupt, by a *)
(* close() that fails or by VISA and VXI-11 before the transport exists.   *)
THEOREM FailureClosesAll == Spec => []FailedConnectClosesAll
  <1>1. ReleaseInv => FailedConnectClosesAll
    BY DEF ReleaseInv, OpeningInv
  <1> QED BY ReleaseInit, ReleaseNext, <1>1, PTL DEF Spec

(* `gateway serve` that has got its executor releases the instrument and   *)
(* its handlers, at whatever step its startup failed or a signal came.     *)
THEOREM StopReleases == Spec => []StopReleasesInstrument
  <1>1. ReleaseInv => StopReleasesInstrument
    BY DEF ReleaseInv
  <1> QED BY ReleaseInit, ReleaseNext, <1>1, PTL DEF Spec

-------------------------------------------------------------------------------
(* The variables of the connection and of `gateway serve` keep their types.*)
ServeTypeOK ==
  /\ server \in BOOLEAN /\ listening \in BOOLEAN /\ stopping \in BOOLEAN
  /\ worker \in {"none", "idle", "busy", "done"}
  /\ queued \in 0 .. MaxQueued /\ signals \in 0 .. MaxSignals
  /\ handlers \in {"previous", "ours"} /\ cut \in BOOLEAN

LEMMA ConnectionTypeNext ==
  ASSUME ConnectionTypeOK, [Next]_vars
  PROVE  ConnectionTypeOK'
  <1> USE DEF ConnectionTypeOK, Kinds, Exceptions, Stay, Goto, Raise
  <1>1. CASE OpenStep
    BY <1>1 DEF OpenStep, OpenManager, OpenSession, Configure, Handshake, Wrap, LinkError
  <1>2. CASE ConnectStep
    BY <1>2 DEF ConnectStep, Connect, Identify, CheckCapabilities, EndWith, CloseDevice,
                InterruptConnect, CloseAndRaise, CloseDone, CloseFails
  <1>3. CASE InstallHandlers \/ Load \/ IdentifyInstrument \/ StartOwner \/ Bind \/ AssignServer
    BY <1>3 DEF InstallHandlers, Load, IdentifyInstrument, StartOwner, Bind, AssignServer
  <1>4. CASE StopStep
    BY <1>4 DEF StopStep, Finally, CloseListener, PutStop, Join, CloseExecutor, CloseDone,
                CloseFails, RestoreHandlers, Exit
  <1>5. CASE Signal
    BY <1>5 DEF Signal
  <1>6. CASE Submit \/ WorkerStep \/ UNCHANGED connectionVars \/ UNCHANGED vars
    BY <1>6 DEF Submit, WorkerStep, connectionVars, vars
  <1> QED BY <1>1, <1>2, <1>3, <1>4, <1>5, <1>6 DEF Next

LEMMA ServeTypeNext ==
  ASSUME ServeTypeOK, [Next]_vars
  PROVE  ServeTypeOK'
  <1> USE CommandLineAssumption DEF ServeTypeOK, serveVars
  <1>1. CASE InstallHandlers \/ Load \/ IdentifyInstrument
    BY <1>1 DEF InstallHandlers, Load, IdentifyInstrument
  <1>2. CASE StartOwner \/ Bind \/ AssignServer
    BY <1>2 DEF StartOwner, Bind, AssignServer
  <1>3. CASE StopStep
    BY <1>3 DEF StopStep, Finally, CloseListener, PutStop, Join, CloseExecutor,
                RestoreHandlers, Exit
  <1>4. CASE Signal
    BY <1>4 DEF Signal
  <1>5. CASE Submit
    BY <1>5 DEF Submit
  <1>6. CASE WorkerStep
    BY <1>6 DEF WorkerStep
  <1>7. CASE UNCHANGED serveVars \/ UNCHANGED vars
    BY <1>7 DEF vars
  <1> QED BY <1>1, <1>2, <1>3, <1>4, <1>5, <1>6, <1>7 DEF Next

(* TypeOK always holds: the command line's variables keep their types, and *)
(* an init writes each template once.                                      *)
THEOREM TypeCorrect == Spec => []TypeOK
  <1>1. Init => ConnectionTypeOK /\ ServeTypeOK /\ FilesInv
    <2> SUFFICES ASSUME Init PROVE ConnectionTypeOK /\ ServeTypeOK /\ FilesInv
      OBVIOUS
    <2>1. ConnectionTypeOK
      BY DEF Init, ConnectionInit, ConnectionTypeOK, Kinds
    <2>2. queued \in 0 .. MaxQueued /\ signals \in 0 .. MaxSignals
      <3>1. queued = 0 /\ signals = 0
        BY DEF Init
      <3> QED BY <3>1, CommandLineAssumption
    <2>3. ServeTypeOK
      BY <2>2 DEF Init, ServeTypeOK
    <2> QED BY <2>1, <2>3, FilesInvInit DEF Init
  <1>2. ConnectionTypeOK /\ ServeTypeOK /\ FilesInv => TypeOK
    BY DEF TypeOK, ServeTypeOK, FilesInv
  <1> QED BY <1>1, <1>2, ConnectionTypeNext, ServeTypeNext, FilesNextOfNext,
             FilesInvNext, PTL DEF Spec
===============================================================================
