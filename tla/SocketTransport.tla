---------------------------- MODULE SocketTransport ----------------------------
(***************************************************************************)
(* SocketTransport.read() and close() (transport/socket.py): the receive   *)
(* buffer between the socket and the lines that the executor reads. The    *)
(* executor's lock lets one thread at a time in, so there is one reader;   *)
(* the instrument sends, ends or resets the connection at any moment.      *)
(* write() does not touch the buffer; its outcomes are in DirectExecutor.  *)
(***************************************************************************)
EXTENDS Integers, Sequences

CONSTANTS
  Bytes,         \* bytes other than LF that an instrument sends
  LF,            \* the byte that ends a response
  MaxResponse,   \* max_response_bytes
  Chunk,         \* the 4096 of recv()
  MaxInFlight    \* bound: bytes in the socket that recv() has not taken

ASSUME SocketAssumption ==
  /\ LF \notin Bytes
  /\ MaxResponse \in Nat \ {0}
  /\ Chunk \in Nat \ {0}
  /\ MaxInFlight \in Nat

VARIABLES
  incoming,   \* bytes that have arrived in the socket
  peer,       \* "open", "ended" or "reset"
  buffer,     \* _buffer
  closed,     \* _closed
  pc,         \* "idle", or "read" inside the loop of read()
  outcome     \* of the last read(): its kind and the line

vars == <<incoming, peer, buffer, closed, pc, outcome>>

Kinds == {"none", "line", "timeout", "connection", "protocol", "closed", "interrupted"}

Got(line) == [kind |-> "line", line |-> line]
Raised(exception) == [kind |-> exception, line |-> <<>>]

FirstLine(s, n) ==
  n \in DOMAIN s /\ s[n] = LF /\ \A i \in 1 .. n - 1 : s[i] # LF

NoLine(s) == \A i \in DOMAIN s : s[i] # LF

Init ==
  /\ incoming = <<>> /\ peer = "open"
  /\ buffer = <<>> /\ closed = FALSE
  /\ pc = "idle" /\ outcome = Raised("none")

----------------------------------------------------------------------------
(* The instrument and the network.                                         *)

Send ==
  /\ peer = "open" /\ Len(incoming) < MaxInFlight
  /\ \E b \in Bytes \cup {LF} : incoming' = Append(incoming, b)
  /\ UNCHANGED <<peer, buffer, closed, pc, outcome>>

PeerEnds ==
  /\ peer = "open"
  /\ peer' = "ended"
  /\ UNCHANGED <<incoming, buffer, closed, pc, outcome>>

PeerResets ==
  /\ peer # "reset"
  /\ peer' = "reset"
  /\ incoming' = <<>>
  /\ UNCHANGED <<buffer, closed, pc, outcome>>

----------------------------------------------------------------------------
(* read(): one turn of the loop per action. recv() blocks while nothing is *)
(* there and its timeout has not run out.                                  *)

BeginRead ==
  /\ pc = "idle" /\ ~closed
  /\ pc' = "read"
  /\ UNCHANGED <<incoming, peer, buffer, closed, outcome>>

ReadClosed ==
  /\ pc = "idle" /\ closed
  /\ outcome' = Raised("closed")
  /\ UNCHANGED <<incoming, peer, buffer, closed, pc>>

TakeLine ==
  /\ pc = "read"
  /\ \E n \in DOMAIN buffer :
       /\ FirstLine(buffer, n)
       /\ outcome' = Got(SubSeq(buffer, 1, n))
       /\ buffer' = SubSeq(buffer, n + 1, Len(buffer))
  /\ pc' = "idle"
  /\ UNCHANGED <<incoming, peer, closed>>

Raise(exception) ==
  /\ outcome' = Raised(exception)
  /\ pc' = "idle"
  /\ UNCHANGED <<incoming, peer, buffer, closed>>

\* Mutant of OverLimit: the buffer starts over and the loop goes on.
OverLimitRestarts ==
  /\ pc = "read" /\ NoLine(buffer) /\ Len(buffer) >= MaxResponse
  /\ buffer' = <<>>
  /\ UNCHANGED <<incoming, peer, closed, pc, outcome>>

OverLimit ==
  /\ pc = "read" /\ NoLine(buffer) /\ Len(buffer) >= MaxResponse
  /\ Raise("protocol")

\* The loop calls recv().
Receiving == pc = "read" /\ NoLine(buffer) /\ Len(buffer) < MaxResponse

\* Mutant of Room: the limit is checked between chunks only.
RoomForAChunk == Chunk

\* How much recv() may return at once.
Room == IF Chunk < MaxResponse - Len(buffer) THEN Chunk ELSE MaxResponse - Len(buffer)

Sizes == {n \in 1 .. Len(incoming) : n <= Room}

Receive ==
  /\ Receiving
  /\ \E n \in Sizes :
       /\ buffer' = buffer \o SubSeq(incoming, 1, n)
       /\ incoming' = SubSeq(incoming, n + 1, Len(incoming))
  /\ UNCHANGED <<peer, closed, pc, outcome>>

\* Mutant of Timeout: the half of a line that came is dropped.
TimeoutDropsPartial ==
  /\ Receiving /\ incoming = <<>> /\ peer = "open"
  /\ outcome' = Raised("timeout") /\ pc' = "idle" /\ buffer' = <<>>
  /\ UNCHANGED <<incoming, peer, closed>>

Timeout ==
  /\ Receiving /\ incoming = <<>> /\ peer = "open"
  /\ Raise("timeout")

\* An empty chunk, or an OSError from recv().
Disconnected ==
  /\ Receiving /\ incoming = <<>> /\ peer # "open"
  /\ Raise("connection")

\* A KeyboardInterrupt leaves read() before or during recv(), with a chunk in
\* its hands that the buffer has not got, or with a line that it has left.
Interrupt ==
  /\ pc = "read"
  /\ outcome' = Raised("interrupted") /\ pc' = "idle"
  /\ \/ UNCHANGED <<incoming, buffer>>
     \/ /\ Receiving
        /\ \E n \in Sizes : incoming' = SubSeq(incoming, n + 1, Len(incoming))
        /\ UNCHANGED buffer
     \/ /\ \E n \in DOMAIN buffer :
             FirstLine(buffer, n) /\ buffer' = SubSeq(buffer, n + 1, Len(buffer))
        /\ UNCHANGED incoming
  /\ UNCHANGED <<peer, closed>>

\* close(), also when it raises: the finally clause sets _closed.
Close ==
  /\ pc = "idle" /\ ~closed
  /\ closed' = TRUE
  /\ UNCHANGED <<incoming, peer, buffer, pc, outcome>>

----------------------------------------------------------------------------
ReadStep == TakeLine \/ OverLimit \/ Receive \/ Timeout \/ Disconnected

Next ==
  \/ Send \/ PeerEnds \/ PeerResets
  \/ BeginRead \/ ReadClosed \/ ReadStep \/ Interrupt \/ Close

\* A thread inside read() runs, and recv() ends by its timeout at the latest.
Spec == Init /\ [][Next]_vars /\ WF_vars(ReadStep)

----------------------------------------------------------------------------
(* Properties.                                                             *)

\* Types; the buffer never holds more than max_response_bytes.
TypeOK ==
  /\ incoming \in Seq(Bytes \cup {LF}) /\ Len(incoming) <= MaxInFlight
  /\ peer \in {"open", "ended", "reset"}
  /\ buffer \in Seq(Bytes \cup {LF}) /\ Len(buffer) <= MaxResponse
  /\ closed \in BOOLEAN
  /\ pc \in {"idle", "read"}
  /\ outcome.kind \in Kinds
  /\ outcome.line \in Seq(Bytes \cup {LF}) /\ Len(outcome.line) <= MaxResponse

\* Whatever the chunks, the reads return the instrument's lines, each whole and
\* in order: a line whose first half came before a timeout is completed by the
\* next read, a failed read takes nothing from the stream, and a complete
\* line within the limit is never answered by an exception. A response beyond the
\* limit stays where it is: without an interrupt, no later read returns
\* anything of it or behind it (socket.py:46-75).
Stream == INSTANCE LineStream
            WITH Limit <- MaxResponse, unread <- buffer \o incoming
ReadsTakeLines == Stream!Spec

\* read() ends even when the instrument sends a byte now and then for ever,
\* so that no timeout of recv() ever runs out (socket.py:48-71).
ReadEnds == (pc = "read") ~> (pc = "idle")
===============================================================================
