------------------------------ MODULE Connection ------------------------------
(***************************************************************************)
(* Opening and closing one connection: the constructors of the transports  *)
(* and of GatewayExecutor, SPD3000.connect() with the identification in    *)
(* SPD3000.__init__(), and the `with` statement of a script.  What may     *)
(* stay open when a step fails is the point, so `opened` is the ground     *)
(* truth and `executor` what the program can still close.                  *)
(***************************************************************************)
EXTENDS Integers

VARIABLES
  role,      \* the program: "connect" (a script) or "serve" (the gateway)
  kind,      \* the connection: "socket", "vxi11", "visa", "gateway"
  at,        \* the next step of the program
  opened,    \* what is open: the VISA manager, the session
  executor,  \* "none", "open", "closed" (its _closed)
  raised     \* why the program left its normal course

connectionVars == <<role, kind, at, opened, executor, raised>>

Kinds == {"socket", "vxi11", "visa", "gateway"}
Exceptions == {"validation", "configuration", "instrument", "gateway",
               "unsupported", "os", "close", "interrupt"}

ConnectionInit ==
  /\ role \in {"connect", "serve"}
  /\ kind \in IF role = "serve" THEN Kinds \ {"gateway"} ELSE Kinds
  /\ at = "start" /\ opened = {} /\ executor = "none" /\ raised = "none"

Stay == UNCHANGED <<role, kind>>
Goto(place) == at' = place /\ UNCHANGED raised

\* An exception ends connect(); `gateway serve` goes to its finally clause.
Raise(exception) ==
  /\ raised' = exception
  /\ at' = IF role = "serve" THEN "finally" ELSE "failed"

----------------------------------------------------------------------------
(* SPD3000.connect(): what is refused before anything is opened.           *)

FirstStep == IF kind = "visa" THEN "manager" ELSE "session"

Takes(option) ==
  \/ option = "token" /\ kind = "gateway"
  \/ option = "visa_backend" /\ kind = "visa"

\* connect() with options, the other arguments legal or not.
Connect ==
  /\ role = "connect" /\ at = "start"
  /\ \E options \in SUBSET {"token", "visa_backend"}, legal \in BOOLEAN :
       IF legal /\ \A o \in options : Takes(o)
       THEN Goto(FirstStep) ELSE Raise("validation")
  /\ Stay /\ UNCHANGED <<opened, executor>>

----------------------------------------------------------------------------
(* The constructors.                                                       *)

LinkError == IF kind = "gateway" THEN "gateway" ELSE "instrument"

\* pyvisa.ResourceManager()
OpenManager ==
  /\ at = "manager"
  /\ \/ opened' = {"manager"} /\ Goto("session")
     \/ UNCHANGED opened /\ Raise("instrument")
  /\ Stay /\ UNCHANGED executor

\* create_connection(), vxi11.Instrument(), open_resource(): a manager that
\* is already there stays open when it fails.
OpenSession ==
  /\ at = "session"
  /\ \/ opened' = opened \cup {"session"} /\ Goto("configure")
     \/ UNCHANGED opened /\ Raise(LinkError)
  /\ Stay /\ UNCHANGED executor

\* Assigning the timeout and the terminations, which VISA and VXI-11 may refuse;
\* a GatewayExecutor needs the commit for its handshake and closes without it.
Configure ==
  /\ at = "configure"
  /\ \/ UNCHANGED opened /\ Goto(IF kind = "gateway" THEN "handshake" ELSE "made")
     \/ kind \in {"visa", "vxi11"} /\ UNCHANGED opened /\ Raise("instrument")
     \/ kind = "gateway" /\ opened' = {} /\ Raise("gateway")
  /\ Stay /\ UNCHANGED executor

Handshake ==
  /\ at = "handshake"
  /\ \/ UNCHANGED opened /\ Goto("made")
     \/ opened' = {} /\ Raise("gateway")
  /\ Stay /\ UNCHANGED executor

\* The executor object reaches the caller's hands.
Wrap ==
  /\ at = "made"
  /\ executor' = "open"
  /\ Goto("identify")
  /\ Stay /\ UNCHANGED opened

----------------------------------------------------------------------------
(* SPD3000.__init__() and the end of connect().                            *)

CloseDone == opened' = {} /\ executor' = "closed"

\* close() of the session or of the manager raises. DirectExecutor sets _closed
\* after its transport has closed, GatewayExecutor before.
CloseFails ==
  /\ opened' \in SUBSET opened
  /\ executor' = IF kind = "gateway" THEN "closed" ELSE executor

\* executor.close() before raising the exception; when that fails, its own
\* exception takes the place of the other one.
CloseAndRaise(exception) ==
  \/ CloseDone /\ Raise(exception)
  \/ CloseFails /\ Raise("close")

\* Mutant of Identify: only the driver's own exceptions close the executor.
IdentifyNarrow ==
  /\ role = "connect" /\ at = "identify"
  /\ \/ Goto("check") /\ UNCHANGED <<opened, executor>>
     \/ CloseAndRaise("instrument")
     \/ kind = "gateway" /\ Raise("gateway") /\ UNCHANGED <<opened, executor>>
  /\ Stay

Identify ==
  /\ role = "connect" /\ at = "identify"
  /\ \/ Goto("check") /\ UNCHANGED <<opened, executor>>
     \/ CloseAndRaise("instrument")
     \/ kind = "gateway" /\ CloseAndRaise("gateway")
  /\ Stay

\* An SPD3303C has neither socket nor VXI-11.
CheckCapabilities ==
  /\ role = "connect" /\ at = "check"
  /\ \/ Goto("using") /\ UNCHANGED <<opened, executor>>
     \/ kind \in {"socket", "vxi11"} /\ CloseAndRaise("unsupported")
  /\ Stay

\* `with psu:` ends, normally or by an exception of its body.
EndWith ==
  /\ role = "connect" /\ at = "using"
  /\ Goto("closing") /\ Stay /\ UNCHANGED <<opened, executor>>

CloseDevice ==
  /\ role = "connect" /\ at = "closing"
  /\ \/ CloseDone /\ Goto("closed")
     \/ CloseFails /\ Raise("close")
  /\ Stay

\* A KeyboardInterrupt: the handshake closes on BaseException, __init__ only on
\* Exception, a close() may be cut short, and a `with` body leaves through __exit__.
InterruptConnect ==
  /\ role = "connect" /\ at \notin {"closed", "failed"}
  /\ \/ at = "using" /\ Goto("closing") /\ UNCHANGED opened
     \/ /\ at # "using" /\ Raise("interrupt")
        /\ opened' \in CASE at = "handshake" -> {{}}
                        [] at \in {"identify", "check", "closing"} -> SUBSET opened
                        [] OTHER -> {opened}
  /\ Stay /\ UNCHANGED executor

OpenStep == OpenManager \/ OpenSession \/ Configure \/ Handshake \/ Wrap

ConnectStep ==
  \/ Connect \/ Identify \/ CheckCapabilities \/ EndWith \/ CloseDevice
  \/ InterruptConnect

----------------------------------------------------------------------------
(* Properties.                                                             *)

ConnectionTypeOK ==
  /\ role \in {"connect", "serve"} /\ kind \in Kinds
  /\ opened \subseteq {"manager", "session"}
  /\ executor \in {"none", "open", "closed"}
  /\ raised \in Exceptions \cup {"none"}

\* connect() that raises leaves nothing open: always for sockets and the
\* gateway, and for VISA and VXI-11 once the transport exists. Only a
\* KeyboardInterrupt or a session that refuses to close may break this
\* (driver.py:801-806, client.py:46-67).
FailedConnectClosesAll ==
  /\ role = "connect" /\ at = "failed"
  /\ raised \notin {"interrupt", "close"}
  /\ executor # "none" \/ kind \in {"socket", "gateway"}
  => opened = {}
===============================================================================
