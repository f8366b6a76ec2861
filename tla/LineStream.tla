------------------------------ MODULE LineStream ------------------------------
(***************************************************************************)
(* What a Transport promises about read(): the instrument's bytes form one *)
(* stream of lines, and a read either takes the next line off its front or *)
(* takes nothing and says why. There is no receive buffer here.            *)
(***************************************************************************)
EXTENDS Integers, Sequences

CONSTANTS Bytes, LF, Limit

VARIABLES
  unread,   \* bytes the instrument sent that no read has returned
  peer,     \* the connection: "open", "ended" (orderly) or "reset"
  outcome   \* of the last read: its kind and the line, <<>> when there is none

vars == <<unread, peer, outcome>>

\* The first line of s has n bytes, its LF among them.
FirstLine(s, n) ==
  n \in DOMAIN s /\ s[n] = LF /\ \A i \in 1 .. n - 1 : s[i] # LF

Got(line) == [kind |-> "line", line |-> line]
Raised(exception) == [kind |-> exception, line |-> <<>>]

NoLine(s) == \A i \in DOMAIN s : s[i] # LF

Init == unread = <<>> /\ peer = "open" /\ outcome = Raised("none")

Arrive ==
  /\ peer = "open"
  /\ \E b \in Bytes \cup {LF} : unread' = Append(unread, b)
  /\ UNCHANGED <<peer, outcome>>

Hangup ==
  /\ peer = "open"
  /\ peer' = "ended"
  /\ UNCHANGED <<unread, outcome>>

\* A reset may cost bytes that no read has seen yet.
Reset ==
  /\ peer # "reset"
  /\ peer' = "reset"
  /\ \E n \in 0 .. Len(unread) : unread' = SubSeq(unread, 1, n)
  /\ UNCHANGED outcome

Deliver ==
  /\ \E n \in 1 .. Limit :
       /\ FirstLine(unread, n)
       /\ outcome' = Got(SubSeq(unread, 1, n))
       /\ unread' = SubSeq(unread, n + 1, Len(unread))
  /\ UNCHANGED peer

\* A line that has come is never answered by an exception, one that is too
\* long always is.
Raise ==
  /\ \/ /\ NoLine(unread) /\ Len(unread) < Limit
        /\ outcome' = Raised(IF peer = "open" THEN "timeout" ELSE "connection")
     \/ /\ Len(unread) >= Limit /\ NoLine(SubSeq(unread, 1, Limit))
        /\ outcome' = Raised("protocol")
  /\ UNCHANGED <<unread, peer>>

\* A KeyboardInterrupt may cut one piece out of the stream.
Interrupted ==
  /\ outcome' = Raised("interrupted")
  /\ \E i \in 0 .. Len(unread), j \in 0 .. Len(unread) :
       /\ i <= j
       /\ unread' = SubSeq(unread, 1, i) \o SubSeq(unread, j + 1, Len(unread))
  /\ UNCHANGED peer

Closed == outcome' = Raised("closed") /\ UNCHANGED <<unread, peer>>

Next ==
  \/ Arrive \/ Hangup \/ Reset
  \/ Deliver \/ Raise \/ Interrupted \/ Closed

Spec == Init /\ [][Next]_vars
===============================================================================
