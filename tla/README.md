# A verification project for py-siglent-spd3000

TLA+ models of the SIGLENT SPD3000 driver under `src/siglent_spd3000/`, the TLC
runs that check them on small instances, and theorems about each of them that
TLAPS checks for every value of the constants. Paths such as `execution.py:234`
are relative to `src/siglent_spd3000/`.

## The system

```
 SPD3000 (driver.py)            threads of a lab program, batch() / verify_writes()
    |  Executor protocol: execute(CommandBatch) -> BatchResult | exception
    +--> DirectExecutor --> Transport (socket, VISA, VXI-11) --> instrument
    |
    +--> GatewayExecutor ~~ TCP, one JSON line per message ~~> GatewayServer
                                                 one handler thread per client
                                                       |  queue of _Work
                                                 _PhysicalOwner, one worker
                                                       |
                                                 DirectExecutor --> instrument
```

### Inventory

| Component | State it keeps | Operations | Interacts with | Hard part | What makes it correct |
| --- | --- | --- | --- | --- | --- |
| `DirectExecutor` (execution.py:215) | lock, `_last_write_at`, `_closed`, settings | `execute`, `close` | any thread calls it; it calls the transport | threads, failure in the middle of a batch, answers that come after their timeout, spacing, close during a batch | batches do not interleave; commands are spaced; an error tells what was sent; answers go to their queries; the lock comes back |
| `Transport`s (transport/) | socket or session, receive buffer | `write`, `read`, `close` | the instrument | chunks, partial lines, timeouts, the limit, connections that end | reads return the instrument's lines whole and in order; a failed read takes nothing; `read` ends |
| `SPD3000` (driver.py) | operation lock, batch flag, pending operations, override stack, global setting, `_closed` | semantic reads and writes, `batch()`, `verify_writes()`, `close()`, `scpi.execute()` | executor; several threads | nesting, exceptions out of scopes, other threads during a scope | state follows the `with` statements; a batch belongs to one thread |
| `_execute_pending_operations` (driver.py:1372) | none between calls | compile, execute, distribute, verify | executor, `Deferred`s | index arithmetic with readbacks, several faults at once | each response reaches its read; the right error leaves; success means verified |
| `Deferred` (execution.py:81) | value or error | `_resolve`, `_reject`, `_cancel`, `value` | batch that collects it | what happens to it on each failure | settled once its batch is over |
| `_PhysicalOwner` (gateway/server.py:52) | queue, worker, previous interval and completion time | `execute`, `close` | handlers put, worker runs the executor | a failing batch, stopping with works queued, clients with different settings | works run in order under their own settings and all end |
| `GatewayServer._handle` (server.py:163) | session, `client_connected` | handshake, execute, ping, close | socket, owner | heartbeats during a batch, clients that vanish | nothing before a handshake; one response per request |
| `GatewayExecutor` (gateway/client.py) | `_next_id`, `_closed`, stream | `execute`, `ping`, `close` | socket | timeouts and interrupts that leave old messages | a result is the result of this request |
| wire format (gateway/protocol.py) | none | encode, decode, heartbeats, exceptions | both ends | limits, unknown exceptions, index 0, partial writes, heartbeats against timeouts | a call ends as its batch ended at the instrument; a refused request was not run |
| configuration (gateway/config.py) | two files | load, create | file system, operator | an `init` that fails half-way, two `init` at once | what an `init` finds it leaves alone |
| `SPD3000.connect` and constructors (driver.py:785, 821, transport/, client.py:27) | VISA manager, session, executor | open, identify, check, close | transport or gateway | a failure after something is open | a failed `connect()` leaves nothing open |
| command line (cli.py) | signal handlers, executor, server | one-shot commands, `gateway init`, `gateway serve` | everything | signals during startup and shutdown, a worker nobody stops | listener and instrument are closed, the process ends |
| models, SCPI reference, validators, parsers | constant tables, none | pure functions | driver | rounding, bit fields | agree with the manual |

`PROJECT.json` lists every component with its status, and under `hazards` each
place where the code can go wrong in a way a test would hardly reach, with the
properties that would notice.

## Modules

| Module | Models | Composes |
| --- | --- | --- |
| `SerialBatches` | abstract promise: batches take turns on the wire | |
| `DirectExecutor` | `DirectExecutor` on several threads, with transport failures, an instrument and a clock | implements `SerialBatches` |
| `PhysicalOwner` | `_PhysicalOwner` around the executor | extends `DirectExecutor` |
| `Gateway` | client, connection, handler, owner queue and server exit | |
| `GatewayCall` | the calls of one session: limits, exceptions, partial writes, what a call leaves to the next, time | |
| `LineStream` | abstract promise of `read()`: lines off the front of a stream | |
| `SocketTransport` | receive buffer of the socket transport | implements `LineStream` |
| `Connection` | constructors, `connect()`, identification, `with psu` | |
| `ConfigFiles` | `gateway init`, the operator, the loaders | |
| `CommandLine` | `gateway serve`: startup, signals, finally clause, exit | extends `Connection`, `ConfigFiles` |
| `Operations` | the operations of the driver: queries, readbacks, capabilities | |
| `BatchPlan` | `_execute_pending_operations` as operators | |
| `Driver` | scopes, collection, execution, `Deferred`s | extends `Operations`, `BatchPlan` |
| `MC*` | constants of the TLC instances | extend the module they are named for |
| `DirectExecutorProofs`, `SocketTransportProofs`, `GatewayCallProofs`, `DriverProofs`, `CommandLineProofs` | theorems and their proofs | extend the module they are named for |
| `PhysicalOwnerProofs` | theorems about the owner | extends `PhysicalOwner`, `DirectExecutorProofs` |
| `GatewayProofs`, `GatewayAnswers` | theorems about the session: types and order, then answers | extend `Gateway`, `GatewayProofs` |

### DirectExecutor

One action per place where a thread of the code can wait or fail. `Call` is the
entry of `execute()`; `Acquire` and `RejectClosed` are `with self._lock` and the
test of `_closed`; `WaitBeforeWrite`, `TransportWrite`, `SettleSleep` and
`TransportRead` are the loop body; the `...Fails` actions are the `except`
clauses, with the index that `_annotate_execution_error` puts on the error;
`Interrupt` is a `KeyboardInterrupt`, which only a thread of `MainThreads` gets and
which no clause catches. The `with` block gives the lock back in all of them
(`Leave` and `Release`). A write that fails may or may not have reached the
instrument. `Close` may fail, also again, leaving `_closed` False over a transport that is
shut; what later calls get from it is `NothingFromAShutTransport`. Data is abstracted to names: a query is `<<batch, index>>`, an answer
carries the name of the query it answers. The instrument answers in the order of
the queries, whenever it likes, or not at all, and an answer may not be ASCII.
Two things are abstracted in the reads: they return whole lines, and they stop
waiting (`timeout`) only while no line is there. `wire`, `batches` and `outcome`
are histories for the properties.

### PhysicalOwner

`Submit` is `execute()` up to the wait; `GetWork`, `GetStop`, `SpaceWorks`,
`CallExecutor` and `FinishWork` are the statements of `_run` between which other
threads matter; the executor's own steps are those of `DirectExecutor`. `PutStop`,
`Join` and `Closed` are `close()`. `Join` may time out only where time passes for the worker (`WorkerIsLong`):
in a sleep that is due, its own or the executor's, or in a call of the transport. Five seconds that end
between two of these might as well have ended in the one before, with `close()` going on later.

### Gateway

Each of `Clients` is one connection. `up` and `down` are the two directions of its
socket. `_request` is `Request` (send) followed by `Receive`, `ReceiveNothing`,
`Timeout` or `Interrupt`; `latched` stands for the `SocketIO` object that refuses to
read again after one timeout. The handler has one action per method; while it
waits for the event of its work, `SendHeartbeat` may write a notification.
`WorkerTakes` and `WorkerFinishes` are the owner's worker, `StopServing`, `JoinEnds`,
`ExecutorCloses` and `Exit` the end of `spd3000 gateway serve`. Clients in `Raw` do not follow
GatewayExecutor: they may begin with `execute` and go on after a refusal. Whether a
handshake has the right commit, token and settings is a free choice at each one.

### Operations, BatchPlan and Driver

`Operations` says for each public operation what it asks of the executor.
`BatchPlan` translates `_execute_pending_operations` into operators: `Compile` builds
the commands, `ReadIndexes`, `WriteIndex` and `QueryIndex` are the indices that the
code records, `ErrorOfException` and `ErrorOfResult` are the two halves that decide
what is raised. Responses are classes: usable, not parseable, parseable but
different, none. `Driver` has the operation lock, the scopes and the `Deferred`s.
An operation outside a scope holds the lock from start to end, so it is one
action; operations inside a scope are `Collect`; `psu.scpi.execute()` is `ExecuteRaw`,
which a scope of either kind refuses. The decorator form of `batch()` opens the same scope
around a function and has no step of its own. A body that raises leaves through
`AbortBatch`, one that does not through `ExitBatch`. The executor answers with any
outcome an object of the `Executor` protocol can have: a result, an SPD3000Error
with or without an index, a gateway error, or a BaseException.

### GatewayCall

`Gateway` treats messages as atomic tokens and has no time. `GatewayCall` looks into the calls of one session after
its handshake: a request has a number of commands, a longest command and a size,
an outcome has a class, a command index and a size, and both lie in their stream until they are read. `Refuse` is the client's own check of
commands and message; `Receive` and `RefuseLine` are the server's; `EndWork` is the outcome of the owner and its
way through `serialize_exception`, `encode_message` and `reconstruct_exception`; a response
that `encode_message` refuses closes the connection, as no clause of `_handle` catches that.
`Send` may send only a part of its request (`SendBuffer`): the stream is a
`SocketIO` and the count that `write()` returns is dropped. The next request continues the part
(`partial`), and `readline()` takes the joined line in one piece or, when it is longer than `MAX + 2`, in two, each of which is
refused. `Interrupt` may come at any moment of a call, also when its batch runs or its response is there. What
it leaves in the connection is what `ReadReply` of the next call finds. After `TimeOut` the
stream is `latched`: each later call is still sent, and fails at once. `LinkBreaks` keeps some prefix of what is on its way in either
direction, perhaps with the beginning of one more line.
Each session has a timeout; `HeartbeatInterval` is the expression of server.py:80, `Tick` lets
time pass while no message has been under way for more than `Latency`. The assumption
that a round trip takes less than half the timeout is what the README of the repository calls a
responsive connection.

### LineStream and SocketTransport

The socket's bytes (`incoming`) and `_buffer` are sequences. One action is one turn of the loop of
`read()`: `TakeLine`, `OverLimit`, `Receive` (any number of bytes up to `Room`, the
argument of `recv()`), `Timeout` and `Disconnected`. The instrument sends byte by byte,
ends the connection or resets it, which drops what `recv()` has not taken. `Interrupt` may fall
between any two steps of the loop, so it may lose a chunk or a line that was in its hands.
`LineStream` has neither buffer nor chunks: its reads take the first line of the stream or
take nothing. The refinement maps its stream to `buffer \o incoming`.

### Connection, ConfigFiles and CommandLine

`Connection` follows one program from `connect()` to the end of its `with` statement. `opened` is what is really
open (for VISA the resource manager and the session, otherwise the session), `executor`
whether the program has an object it can close. `OpenManager`, `OpenSession`, `Configure` and
`Handshake` are the constructors, `Identify` and `CheckCapabilities` the rest of `connect()`, `EndWith` and
`CloseDevice` the `with` statement; each may fail with the exceptions its code turns failures into, and
`InterruptConnect` is a KeyboardInterrupt between any two of them. `CloseFails` is a `close()` that raises.

`ConfigFiles` has the two files of a gateway. `Look` is the test for existing files, `OpenTarget` and
`WriteTarget` are one `write_text`, `InitFails` ends an init anywhere between them; `Edit` and `Remove`
are the operator. `Documents` are the settings an edited file may hold, `Accepts` the checks of the loader.

`CommandLine` adds `gateway serve`: the steps of the try statement, the opening of the executor being
those of `Connection`, the steps of the finally clause with those of `server.close()`, the owner's thread, and
`Signal`, which raises KeyboardInterrupt in the main thread. A signal in the try statement leads to the
finally clause; one inside that clause leaves it at once (`cut`).

## Runs

| Run | Instance and bounds | Shows |
| --- | --- | --- |
| `DirectExecutorConcurrency` | 2 threads, one of them interruptible; 2 calls over batches query, query-write, write-query; interval 0 or 1, steps that take no time of their own | batches take turns (refinement of `SerialBatches`), an error's index tells what was sent, answers are used in order, commands are spaced, close waits and is final, a dead transport gives nothing, the lock always comes back |
| `DirectExecutorFreshAnswers` | 1 thread, 2 queries | **violated**: the answer of a timed-out query is returned by the next |
| `PhysicalOwnerWorks` | 2 works, intervals 0 and 3, stop at any time | order, own settings, distance between works also after failures, every work queued before the stop ends, an orderly stop refuses nobody |
| `PhysicalOwnerStopError` | 2 works | **violated**: the first work holds the worker until the join gives up, and the second, still queued, fails with the executor's own error |
| `GatewaySession` | a GatewayExecutor and a raw peer, 3 requests each, 1 heartbeat in flight, stop at any time | batches are reported honestly, to their own client, and never run without a handshake |
| `GatewayAbandoned` | 1 client that times out and is interrupted, 4 requests, 2 messages in flight | no batch runs twice or out of order after its client gave one up, no old response is taken for a new one, heartbeats disturb nobody, every request ends |
| `GatewayCall` | 3 calls; limits of 1 command and of 2 bytes, with sizes at the limit and above; timeouts 6 and 10, heartbeats every 3 or 4 ticks, latency 1, 1 message unread when a heartbeat is due | what a call tells of the instrument is what its own batch did, a GatewayProtocolError means that it was not run (with the stated exceptions), a responsive gateway never times out |
| `Driver` | 2 threads (symmetric), scopes 3 deep, batches of up to 3 of read, 4-query read, readable and unreadable write, 1 faulty response | lock, flag and overrides follow the `with` statements, nothing is sent beside a batch, responses, errors and the response list are right |
| `DriverOriginalError` | a verified CH3 output write | **violated**: AssertionError instead of the original error |
| `DriverPending` | a read beside raw text that is no command | **violated**: the read stays pending |
| `SocketTransport` | 2 byte values and LF, limit 3, chunks of 2, 3 bytes in the socket | lines whole and in order (refinement of `LineStream`), an overlong response is answered by nothing but errors, `read()` ends |
| `CommandLine` | 4 kinds of connection; 2 inits; 2 signals; 1 work queued behind the one that runs | a failed `connect()` and a stop leave nothing open, init keeps what it found, the process ends |

Deadlock is not checked: each of the programs may stop. A bound on calls, requests
or operations ends a behaviour in every instance, threads of a lab program need
not call again, and a closed executor or an exited server has nothing to do.
Where something must happen, a liveness property says so instead.

**Why the bounds are enough.** Interference in the executor is between one batch
and another: a second batch can overlap, follow or be blocked by the first, and a
late answer needs one query to be abandoned and one to find it. Batches of two
commands have a first, a last and a boundary in each order of write and query. In the
owner, two works are one in the worker's hands and one that waits or is put after the None;
the two intervals make the larger one that of the earlier work or of the later. In the gateway an old response needs an abandoned request, a following
one and the handshake before them, and a fourth request shows that the stream
does not recover by accident. In the driver, indices shift when a verified write comes
before a read or another verified write, and three operations contain every such
pair with something between them; a faulty response beside a write that cannot be read back
are two errors of different kinds, which is enough to ask which comes first.
In the transport a limit of three bytes has lines that are empty, shorter, of exactly the limit and
longer, and chunks of two cut them everywhere. In `GatewayCall` the limits of bytes are met exactly and from above (below them nothing differs), that of commands likewise;
a part of a request is short, as long as the whole, or together with the next longer than `readline()` takes; the two timeouts take the two
branches of the heartbeat interval; a second call meets what the first has left, and a third what the second has made of it. In `CommandLine` two signals are one that starts the stop and one that cuts it; two
inits are one that fails and one that comes after it or runs beside it.
All of this but liveness is also proved without these bounds, see below.

**Fairness.** `DirectExecutor` assumes that a thread inside the executor keeps running:
sleeps are finite and every transport operation ends, at the latest by the
timeout set in socket.py:30 (VISA and VXI-11 set theirs likewise). Neither calls
nor interrupts are fair. Weak fairness is enough for `LockIsReleased`, which speaks of
the thread that holds the lock; that a waiting thread gets it is not
claimed, as `threading.RLock` does not promise it. `PhysicalOwner` needs the same
of the worker and of the executor. `Gateway` assumes that threads run, that channels
deliver, that batches end, and that a server told to stop goes through with it; no
timeout, heartbeat or request has to happen, so `RequestEnds` does not rest on
the client's own timeout. `SocketTransport` assumes that a thread in `read()` keeps running
and that `recv()` ends, by its timeout at the latest; no byte has to come. `ReadEnds` holds because every turn of
the loop ends the read or adds to a buffer that is bounded. `CommandLine` assumes that the main thread
goes on with its finally clause and that the worker ends its batch, as transport calls do; startup, signals and
requests may never come. `Driver` and `GatewayCall` have no liveness property and no fairness;
`HeardInTime` is about the order of a timeout and the messages that are due before it.

**Mutants.** Beside some definitions stands a mutated form, an operator of the same parameters
such as `FailHoldingLock`, that is the bug a property is there for. `PROJECT.json`
pairs every property of the passing runs with one that breaks it.

## What is proved

Every safety invariant and every action property that a run checks, and both refinements, are also theorems that
TLAPS checks for all values of the constants that satisfy the named assumptions. The instances of the runs bound
threads, clients, batches, sizes, depths and time; the theorems do not. `PROJECT.json` lists them under `theorems`.

The proofs have one shape. The property is seldom inductive as it stands, so an invariant that is inductive is
stated as a conjunction of named parts; a lemma shows each part for each action, and the last step combines them by
temporal logic. The larger ones (`AnswerInv`, `OwnerInv`, `DriverInv`) were checked by TLC as invariants of their
run's instance before they were proved. The assumptions on constants are in the
modules that declare them: which values are natural numbers or sequences, that `NoThread` is no thread, that batches
are not empty, that intervals and delays are not negative, that the worker is not the closer of the owner, that LF is no
other byte, and the one about time that is more than a type, `CallAssumption` (timeouts above four times
the latency, see `GatewayCall` above).

### The executor (`DirectExecutorProofs`)

* `TypeCorrect`. TypeOK alone is not inductive: the command that a thread is about to send is only
  defined when its job is a batch that exists, which `JobsOK` adds.
* `Refinement`: `Spec => BatchesTakeTurns`, the abstract `SerialBatches`. `Acquire` maps to Begin, a successful or
  failed write to Send, a failed read or an interrupt to End, everything else to a stutter. `TurnsInv` says what the
  lock gives: a thread in the loop is the holder (`LockOK`), each submitted batch belongs to one call
  (`CalledOnce`), the wire holds only batches that were called (`WireOK`), contiguous and from their first command
  (`BatchesNotInterleaved`), and the holder's next command follows
  the last entry of the wire (`PositionOK`). `StepPhase` and `NextPhase` first reduce the actions to the few ways in
  which they change the control state, so that the induction has one case for each.
* `Spacing`. `SpacingInv` adds `ClockOK`: no write ends in the future, `_last_write_at` is at or after the end of every
  successful write, and a thread at `write` has waited long enough after it. The last conjunct needs the lock:
  another thread's write would move `_last_write_at` between the wait and the write.
* `CloseWaits` and `NothingWrittenAfterClose`, from `ClosedInv`: an executor that is closed has a transport that is
  shut and no thread inside its lock.
* `NothingFromTheDead`: `NothingFromAShutTransport`. `DeadInv` says that whoever is in the loop while the link is down is at its
  first command, before its write, and has no value: the lock keeps the batches of before out, and the step that loses the link ends its batch.
* `OutcomeTells`. `OutcomeInv` follows a batch while it runs: the values that a thread has tell its first commands
  apart (`Progress`), the wire holds exactly its first `Tried` commands, those below the current one succeeded, and its
  outcome is still pending. The outcome is these facts at the moment the call leaves.
* `AnswersKeepOrder`. The answers in the pipe and the queries that the instrument owes are one line in the
  order of the wire (`LineOK`), and all of it comes after every answer that was used (`UsedOK`), also
  one that is still with the thread that runs the batch (`Got`). That the answers are fresh needs
  `FreshOK`: while no read has been given up, the only answer that can come is the one to the
  query that is waiting, and the line is empty when nobody reads. Giving up a delivered query ends
  this, and only this, half of the invariant (`FreshGiveUp`).

### The owner of the instrument (`PhysicalOwnerProofs`)

* `WorksAreBatches`, `QuietStop`, `WorksKeepDistance` and `OwnerTypeCorrect`. Every step of the owner but `SpaceWorks`
  is a step of the executor or leaves it alone (`StepIs`), so `OutcomeInv` holds inside the owner without a new
  proof. `OwnerInv` adds where things are: the queue holds the numbers that follow the batches of the executor, with one Stop from
  `close()` on (`QueueOK`); the work in the worker's hands is the next batch or the last (`CurrentOK`); the
  executor's threads are only where the owner put them (`PlacesOK`). `WorksOK`, `CloseOK` and `TimesOK` say what each property needs:
  the wire carries the settings of its works; only a join that was given up closes the executor under
  the worker; between two works the distance that the commands ask for is behind the completion of the last one.

### The gateway (`GatewayProofs`, `GatewayAnswers`)

* `TypeCorrect`, `WorksRunOnceInOrder` and `HandshakeBeforeWork`. `OrderInv` orders the numbers of a connection's requests: those
  that have run, the one its handler executes, those on their way, those not sent yet (`UpOK`, `ExecutedOK`). The queue
  holds each waiting work once (`QueueOK`), and whoever has a work has a session (`SessionOK`).
* `AnswersHonest`. What a client is told of a batch can become false only if the batch can still run, so
  `HonestInv` says of every message and every entry of the client that its request is among those that nothing can run any
  more (`DoneIds`), and that it has run (`RanIds`) exactly if the ending says so (`DownOK`, `ResultsOK`, `WorkOK`).
* `CalmClient`. For a client that gives nothing up, `CalmAt` says that all that is under way in either
  direction is about the request it waits for, and that nothing follows its response.

### The calls of a session (`GatewayCallProofs`)

* `GatewayIsTransparent`: `SameAsDirect`. The property compares two histories and says nothing of the messages between them. `HistoryInv`
  adds that whatever is in the connection is a heartbeat, a GatewayProtocolError, a broken line, the end of a connection that is closed,
  or what `serialize_exception` and `reconstruct_exception` make of the outcome of the very call whose number it bears (`ReplyOK`);
  that a request under way has not run (`RequestsOK`); and that a call that was not sent has no request under way (`ResultOK`).
* `RefusedNotRun`: `ProtocolErrorMeansNotRun`. While no call was interrupted, the connection holds and the stream is read,
  a session is in step (`InStep`): between calls nothing is under way, and during a call there are either its
  heartbeats and its one request (or the part of it that waits for an end), or its heartbeats and one answer to it, which is
  its own response or a refusal of a call that did not run. `RefusedOK` keeps for later that such a refused call has no request
  left that could still run. A joined line, and so a refusal without number, needs a cut request that was given up, by an
  interrupt or by the timeout that ends all reading.
* `HeartbeatsHoldTimeouts`: `HeardInTime`. `ClockInv` bounds what the client has not heard by the time since the last
  heartbeat and the latency. It is where `CallAssumption` is needed.
* `TypeCorrect`.

### The transport (`SocketTransportProofs`)

* `TypeCorrect`: the buffer never outgrows `max_response_bytes`, as `recv()` is asked for no more than there is room for.
* `TransportImplementsStream`: the refinement of `LineStream`, for any alphabet, limit and chunk size. It rests on facts about
  sequences: a first line is unique, and one that is found in the buffer is the first of buffer and socket together (`LineIsFirst`).

### The command line, connections and files (`CommandLineProofs`)

* `InitKeepsWhatItFound`, from `FilesInv`: an init that writes has found none of its files and has one left to write.
* `FailureClosesAll` and `StopReleases`, from `ReleaseInv`: what is open and whether there is an executor follow from the
  place in `connect()` (`OpeningOK`), and what is closed from the place in the finally clause (`EndingOK`).
* `TypeCorrect`.

### The driver (`DriverProofs`)

* `LockFollowsScopes` and `OneThreadBatch`, from `LockInv`: the depth of the lock, the flag and the overrides are those of the scopes
  that the owner is in.
* `IndexesPointAtCommands`, a theorem about the operators of `BatchPlan`, for batches of any length: each index that
  `_execute_pending_operations` computes while it builds a batch is the place of the command it is meant for.
  `Compile` and the counts are folds; the proof speaks of the sequences of their partial results, which exist and
  are unique (`Joined`, `SumsTo`), and reasons by induction as the absence of a first exception, as the
  theorems of the library that take an operator cannot be instantiated.
* `ListFilled`, `SuccessVerified`, `FirstFault`, `BlamedAfterWrite`, `Settled` and `TypeCorrect`, from `DriverInv`:
  `BatchOK` says that the numbers of the Deferreds of an open batch are those of its reads, in their order (`Planned`);
  `RunOK` says of the last run that its error, its list and its Deferreds are those of its outcome.
* `NothingBeside` and `VerifiedAsCalled`, the action properties, for each step.

## What is only model-checked

The liveness properties `LockIsReleased`, `AcceptedWorkEnds`, `RequestEnds`, `ReadEnds` and `ServeEnds`: the
prover has neither ENABLED nor fairness. The four properties that the code violates have counterexamples, not theorems.
The `TypeOK` of `CommandLine` and `GatewayCall` and `OwnerTypeOK` are theorems on which no run spends its time.

## Where the code and its documentation disagree

Each is a run that TLC ends with a counterexample; `PROJECT.json` quotes the
line and the text.

1. A timed-out query shifts all later answers by one (`FreshAnswers`). Nothing drains or
   resynchronises the transport.
2. Stopping the gateway during a long batch makes queued works fail with
   `SPD3000ConnectionError`, an instrument error (`StopGivesNoInstrumentError`).
3. A verified write without readback turns an error that names no command into an
   `AssertionError` (`OriginalErrorPreserved`).
4. Invalid raw text in a batch leaves the reads of that batch pending for ever (`NothingStaysPending`).

Some more facts about failures are worth knowing. No document denies them, so they are conditions of
properties and not counterexamples:

* A direct write that raises after the command has arrived sets no `_last_write_at` (`execution.py:243`), so
  the next command may follow it at once. `CommandSpacing` therefore speaks of successful writes. Behind the
  gateway the owner counts failed works too, and `WorksSpaced` needs no such condition.
* A KeyboardInterrupt during identification leaves the connection open (`driver.py:805` catches Exception), and a
  VISA or VXI-11 constructor that fails half-way leaves the manager or the session to the garbage collector. A
  second signal in the finally clause of `gateway serve` leaves the instrument to the exit of the process.
* After a response without LF at the limit the connection answers every later read by the same error, as
  `ReadsTakeLines` says; nothing resynchronises it.
* `sendall()` that times out may have sent a part of a command, which the next command joins at the
  instrument; and `int(timeout * 1000)` of the VISA and VXI-11 transports is 0 for a timeout under a
  millisecond. What instrument and libraries make of the two is outside `src/`.
* A batch whose values do not fit a message has run, and its client gets a GatewayConnectionError (`SameAsDirect`).
* A `GatewayExecutor` that is used after a call of it has failed is worse than one that refuses. After a timeout the
  stream cannot be read, but `write()` still works (`client.py:98`): each later `execute()` sends its batch, the server runs it, and the
  caller gets a GatewayConnectionError. After a KeyboardInterrupt the next call reads what the interrupted one has left and
  gets a GatewayProtocolError (`client.py:112`), though its own batch runs. And a connection that breaks in the middle
  of a response line gives a GatewayProtocolError (`client.py:103`) for a batch that has run.
  `ProtocolErrorMeansNotRun` states the last two as its exceptions.
* A request that was cut and the next one make one line; when that is longer than `readline()` takes (`server.py:168`), it is refused
  twice, and the second refusal waits for the call after.
* A signal between the bind (`server.py:160`) and the assignment of `server` (`cli.py:249`) leaves the listener to
  the exit of the process, as the finally clause does not know it: the third exception of `StopReleasesInstrument`.
* Two `gateway init` at the same time may both pass the test and write one after the other.

## Not modelled

Message texts and formatting; TOML and JSON parsing; argument parsing and the printed
output of the command line; validation, formatting and parsing of values, which are pure functions of
strings and decimals (a model would repeat their text, and what depends on their outcome, such as a
response that does not parse or differs from the one expected, is in `BatchPlan`); the SCPI reference table;
the SPD3000ProtocolError of `transport.read()` (`socket.py:53`) inside a batch, which `SocketTransport` has and `DirectExecutor` does not;
how exceptions of pyvisa and python-vxi11 are told to be timeouts by name or text; the two bytecodes between the acquire of a scope and its body,
where an interrupt would keep the lock; packaging and deployment scripts.
