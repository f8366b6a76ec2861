------------------------- MODULE SocketTransportProofs -------------------------
(***************************************************************************)
(* For every alphabet, limit and chunk size: the receive buffer never      *)
(* outgrows max_response_bytes, and the transport implements LineStream,   *)
(* where there is no receive buffer and a read is one step.                *)
(***************************************************************************)
EXTENDS SocketTransport, SequenceTheorems, TLAPS

----------------------------------------------------------------------------
(* Cutting a sequence in two.                                              *)

\* What the first n elements and the rest are, and that together they are all.
LEMMA SplitAt ==
  ASSUME NEW S, NEW s \in Seq(S), NEW n \in 0 .. Len(s)
  PROVE  /\ SubSeq(s, 1, n) \in Seq(S)
         /\ Len(SubSeq(s, 1, n)) = n
         /\ SubSeq(s, n + 1, Len(s)) \in Seq(S)
         /\ Len(SubSeq(s, n + 1, Len(s))) = Len(s) - n
         /\ SubSeq(s, 1, n) \o SubSeq(s, n + 1, Len(s)) = s
  <1>1. Len(s) \in Nat /\ n \in Nat /\ n <= Len(s)
    BY LenProperties
  <1>2. \A i \in 1 .. Len(s) : s[i] \in S
    BY ElementOfSeq
  <1>3. \A i \in 1 .. n : s[i] \in S
    BY <1>1, <1>2
  <1>4. \A i \in n + 1 .. Len(s) : s[i] \in S
    BY <1>1, <1>2
  <1>5. SubSeq(s, 1, n) \in Seq(S)
        /\ Len(SubSeq(s, 1, n)) = IF 1 <= n THEN n - 1 + 1 ELSE 0
    BY <1>1, <1>3, SubSeqProperties
  <1>6. /\ SubSeq(s, n + 1, Len(s)) \in Seq(S)
        /\ Len(SubSeq(s, n + 1, Len(s)))
             = IF n + 1 <= Len(s) THEN Len(s) - (n + 1) + 1 ELSE 0
    BY <1>1, <1>4, SubSeqProperties
  <1>7. SubSeq(s, 1, n) \o SubSeq(s, n + 1, Len(s)) = SubSeq(s, 1, Len(s))
    <2>1. /\ 1 \in 1 .. Len(s) + 1
          /\ n \in 1 - 1 .. Len(s)
          /\ Len(s) \in n .. Len(s)
      BY <1>1
    <2>2. QED
      BY <2>1, ConcatAdjacentSubSeq
  <1>8. SubSeq(s, 1, Len(s)) = s
    BY SubSeqFull
  <1>9. /\ Len(SubSeq(s, 1, n)) = n
        /\ Len(SubSeq(s, n + 1, Len(s))) = Len(s) - n
    BY <1>1, <1>5, <1>6
  <1>10. QED
    BY <1>5, <1>6, <1>7, <1>8, <1>9

\* Cutting inside the first of two sequences leaves the second alone.
LEMMA SplitConcat ==
  ASSUME NEW S, NEW s \in Seq(S), NEW t \in Seq(S), NEW n \in 0 .. Len(s)
  PROVE  /\ SubSeq(s \o t, 1, n) = SubSeq(s, 1, n)
         /\ SubSeq(s \o t, n + 1, Len(s \o t)) = SubSeq(s, n + 1, Len(s)) \o t
  <1>1. /\ s \o t \in Seq(S)
        /\ Len(s \o t) = Len(s) + Len(t)
        /\ \A i \in 1 .. Len(s) + Len(t) :
             (s \o t)[i] = IF i <= Len(s) THEN s[i] ELSE t[i - Len(s)]
    BY ConcatProperties
  <1>2. Len(s) \in Nat /\ Len(t) \in Nat /\ n \in Nat /\ n <= Len(s)
    BY LenProperties
  <1>3. SubSeq(s \o t, 1, n) = SubSeq(s, 1, n)
    <2>1. CASE n = 0
      BY <2>1, SubSeqEmpty
    <2>2. CASE n # 0
      BY <1>2, <2>2, SubSeqOfConcat1
    <2>3. QED
      BY <2>1, <2>2
  <1>4. SubSeq(s \o t, n + 1, Len(s \o t)) = SubSeq(s, n + 1, Len(s)) \o t
    <2> DEFINE left == SubSeq(s \o t, n + 1, Len(s \o t))
    <2> DEFINE rest == SubSeq(s, n + 1, Len(s))
    <2>1. n \in 0 .. Len(s \o t)
      BY <1>1, <1>2
    <2>2. left \in Seq(S) /\ Len(left) = Len(s) + Len(t) - n
      BY <1>1, <2>1, SplitAt
    <2>3. rest \in Seq(S) /\ Len(rest) = Len(s) - n
      BY SplitAt
    <2>4. /\ rest \o t \in Seq(S)
          /\ Len(rest \o t) = Len(rest) + Len(t)
          /\ \A i \in 1 .. Len(rest) + Len(t) :
               (rest \o t)[i] = IF i <= Len(rest) THEN rest[i] ELSE t[i - Len(rest)]
      BY <2>3, ConcatProperties
    <2>5. \A i \in 1 .. Len(s) + Len(t) - n : left[i] = (s \o t)[n + i]
      <3>1. \A i \in n + 1 .. Len(s \o t) : (s \o t)[i] \in S
        <4> TAKE i \in n + 1 .. Len(s \o t)
        <4>1. i \in 1 .. Len(s \o t)
          BY <1>1, <1>2
        <4>2. QED
          BY <1>1, <4>1, ElementOfSeq
      <3>2. \A i \in 1 .. Len(s \o t) - (n + 1) + 1 : left[i] = (s \o t)[n + 1 + i - 1]
        BY <1>1, <1>2, <3>1, SubSeqProperties
      <3> HIDE DEF left
      <3>3. QED
        BY <1>1, <1>2, <3>2
    <2>6. \A i \in 1 .. Len(s) - n : rest[i] = s[n + i]
      <3>1. \A i \in n + 1 .. Len(s) : s[i] \in S
        BY <1>2, ElementOfSeq
      <3>2. \A i \in 1 .. Len(s) - (n + 1) + 1 : rest[i] = s[n + 1 + i - 1]
        BY <1>2, <3>1, SubSeqProperties
      <3> HIDE DEF rest
      <3>3. QED
        BY <1>2, <3>2
    <2> HIDE DEF left, rest
    <2>7. Len(left) = Len(rest \o t)
      BY <1>2, <2>2, <2>3, <2>4
    <2>8. \A i \in 1 .. Len(left) : left[i] = (rest \o t)[i]
      <3> TAKE i \in 1 .. Len(left)
      <3>1. n + i \in 1 .. Len(s) + Len(t) /\ i \in 1 .. Len(s) + Len(t) - n
        BY <1>2, <2>2
      <3>2. CASE i <= Len(s) - n
        <4>1. left[i] = s[n + i]
          BY <1>1, <1>2, <2>5, <3>1, <3>2
        <4>2. (rest \o t)[i] = rest[i]
          BY <1>2, <2>3, <2>4, <3>1, <3>2
        <4>3. QED
          BY <1>2, <2>6, <3>1, <3>2, <4>1, <4>2
      <3>3. CASE ~(i <= Len(s) - n)
        <4>0. ~(n + i <= Len(s)) /\ i \in Int
          BY <1>2, <2>2, <3>3
        <4>1. left[i] = t[n + i - Len(s)]
          <5>1. left[i] = (s \o t)[n + i]
            BY <2>5, <3>1
          <5>2. (s \o t)[n + i] = t[n + i - Len(s)]
            BY <1>1, <3>1, <4>0
          <5>3. QED
            BY <5>1, <5>2
        <4>2. (rest \o t)[i] = t[i - Len(rest)]
          BY <1>2, <2>3, <2>4, <3>1, <3>3
        <4>3. n + i - Len(s) = i - Len(rest)
          BY <1>2, <2>3, <3>1
        <4>4. QED
          BY <4>1, <4>2, <4>3
      <3>4. QED
        BY <3>2, <3>3
    <2>9. left = rest \o t
      BY <2>2, <2>4, <2>7, <2>8, SeqEqual
    <2>10. QED
      BY <2>9 DEF left, rest
  <1>5. QED
    BY <1>3, <1>4

\* A prefix that is the whole first sequence is that sequence.
LEMMA WholeFirst ==
  ASSUME NEW S, NEW s \in Seq(S), NEW t \in Seq(S)
  PROVE  SubSeq(s \o t, 1, Len(s)) = s
  <1>1. Len(s) \in 0 .. Len(s)
    BY LenProperties
  <1>2. SubSeq(s \o t, 1, Len(s)) = SubSeq(s, 1, Len(s))
    BY <1>1, SplitConcat
  <1>3. QED
    BY <1>2, SubSeqFull

\* Cutting inside the second of two sequences drops the first whole.
LEMMA DropBeyond ==
  ASSUME NEW S, NEW s \in Seq(S), NEW t \in Seq(S), NEW n \in 0 .. Len(t)
  PROVE  SubSeq(s \o t, Len(s) + n + 1, Len(s \o t)) = SubSeq(t, n + 1, Len(t))
  <1>1. /\ Len(s) \in Nat /\ Len(t) \in Nat /\ n \in Nat /\ n <= Len(t)
        /\ Len(s \o t) = Len(s) + Len(t)
    BY ConcatProperties, LenProperties
  <1>2. CASE n = Len(t)
    <2>1. /\ Len(s \o t) < Len(s) + n + 1 /\ Len(t) < n + 1
          /\ Len(s \o t) \in Int /\ Len(s) + n + 1 \in Int
          /\ Len(t) \in Int /\ n + 1 \in Int
      BY <1>1, <1>2
    <2>2. QED
      BY <2>1, SubSeqEmpty
  <1>3. CASE n # Len(t)
    <2>1. /\ Len(s) + n + 1 \in Len(s) + 1 .. Len(s) + Len(t)
          /\ Len(s \o t) \in Len(s) + 1 .. Len(s) + Len(t)
          /\ Len(s) + n + 1 - Len(s) = n + 1
          /\ Len(s \o t) - Len(s) = Len(t)
      BY <1>1, <1>3
    <2>2. SubSeq(s \o t, Len(s) + n + 1, Len(s \o t))
            = SubSeq(t, Len(s) + n + 1 - Len(s), Len(s \o t) - Len(s))
      BY <2>1, SubSeqOfConcat2
    <2>3. QED
      BY <2>1, <2>2
  <1>4. QED
    BY <1>2, <1>3

\* Moving a prefix of the second sequence to the end of the first keeps the
\* whole.
LEMMA MoveAcross ==
  ASSUME NEW S, NEW s \in Seq(S), NEW t \in Seq(S), NEW n \in 0 .. Len(t)
  PROVE  (s \o SubSeq(t, 1, n)) \o SubSeq(t, n + 1, Len(t)) = s \o t
  <1>1. /\ SubSeq(t, 1, n) \in Seq(S) /\ SubSeq(t, n + 1, Len(t)) \in Seq(S)
        /\ SubSeq(t, 1, n) \o SubSeq(t, n + 1, Len(t)) = t
    BY SplitAt
  <1>2. (s \o SubSeq(t, 1, n)) \o SubSeq(t, n + 1, Len(t))
          = s \o (SubSeq(t, 1, n) \o SubSeq(t, n + 1, Len(t)))
    <2> DEFINE front == SubSeq(t, 1, n)
    <2> DEFINE back == SubSeq(t, n + 1, Len(t))
    <2>1. front \in Seq(S) /\ back \in Seq(S)
      BY <1>1
    <2> HIDE DEF front, back
    <2>2. (s \o front) \o back = s \o (front \o back)
      BY <2>1, ConcatAssociative, SMTT(30)
    <2>3. QED
      BY <2>2 DEF front, back
  <1>3. QED
    BY <1>1, <1>2

----------------------------------------------------------------------------
(* Types, and the bound of the buffer.                                     *)

\* The sizes a recv() may return: no more than has come, than the chunk and
\* than what max_response_bytes leaves.
LEMMA SizesFit ==
  ASSUME TypeOK, NEW n \in Sizes
  PROVE  n \in 0 .. Len(incoming) /\ Len(buffer) + n <= MaxResponse
  <1>1. n \in 1 .. Len(incoming) /\ n <= Room
    BY DEF Sizes
  <1>2. Len(incoming) \in Nat /\ Len(buffer) \in Nat
    BY LenProperties DEF TypeOK
  <1>3. MaxResponse \in Nat /\ Chunk \in Nat
    BY SocketAssumption
  <1>4. QED
    BY <1>1, <1>2, <1>3 DEF Room

\* Where a first line ends, there is a byte of the buffer.
LEMMA LineInBuffer ==
  ASSUME TypeOK, NEW n \in DOMAIN buffer
  PROVE  n \in 0 .. Len(buffer) /\ n \in 1 .. MaxResponse
  <1>1. DOMAIN buffer = 1 .. Len(buffer) /\ Len(buffer) \in Nat
    BY LenProperties DEF TypeOK
  <1>2. MaxResponse \in Nat /\ Len(buffer) <= MaxResponse
    BY SocketAssumption DEF TypeOK
  <1>3. QED
    BY <1>1, <1>2

\* What taking n bytes off one of the two sequences leaves.
LEMMA RestOK ==
  ASSUME NEW s \in Seq(Bytes \cup {LF}), NEW bound \in Nat, Len(s) <= bound,
         NEW n \in 0 .. Len(s)
  PROVE  /\ SubSeq(s, n + 1, Len(s)) \in Seq(Bytes \cup {LF})
         /\ Len(SubSeq(s, n + 1, Len(s))) <= bound
         /\ SubSeq(s, 1, n) \in Seq(Bytes \cup {LF})
         /\ Len(SubSeq(s, 1, n)) <= bound
  <1>1. Len(s) \in Nat
    BY LenProperties
  <1>2. QED
    BY <1>1, SplitAt

\* An outcome that is an exception has an empty line.
LEMMA RaisedOK ==
  ASSUME NEW exception \in Kinds
  PROVE  /\ Raised(exception).kind \in Kinds
         /\ Raised(exception).line \in Seq(Bytes \cup {LF})
         /\ Len(Raised(exception).line) <= MaxResponse
  <1>1. <<>> \in Seq(Bytes \cup {LF}) /\ Len(<<>>) = 0
    BY EmptySeq
  <1>2. MaxResponse \in Nat
    BY SocketAssumption
  <1>3. QED
    BY <1>1, <1>2 DEF Raised

\* Every step keeps the types.
LEMMA TypeStep == TypeOK /\ [Next]_vars => TypeOK'
  <1> SUFFICES ASSUME TypeOK, [Next]_vars PROVE TypeOK'
    OBVIOUS
  <1> USE SocketAssumption
  <1>0. /\ Len(incoming) \in Nat /\ Len(buffer) \in Nat
        /\ MaxResponse \in Nat /\ MaxInFlight \in Nat
    BY LenProperties DEF TypeOK
  <1>r. \A e \in Kinds :
          /\ Raised(e).kind \in Kinds
          /\ Raised(e).line \in Seq(Bytes \cup {LF})
          /\ Len(Raised(e).line) <= MaxResponse
    BY RaisedOK
  <1>1. CASE Send
    <2>1. PICK b \in Bytes \cup {LF} : incoming' = Append(incoming, b)
      BY <1>1 DEF Send
    <2>2. incoming' \in Seq(Bytes \cup {LF}) /\ Len(incoming') = Len(incoming) + 1
      BY <2>1, AppendProperties DEF TypeOK
    <2>3. Len(incoming') <= MaxInFlight
      BY <1>0, <1>1, <2>2 DEF Send
    <2>4. QED
      BY <1>1, <2>2, <2>3 DEF Send, TypeOK
  <1>2. CASE PeerEnds
    BY <1>2 DEF PeerEnds, TypeOK
  <1>3. CASE PeerResets
    <2>1. incoming' \in Seq(Bytes \cup {LF}) /\ Len(incoming') = 0
      BY <1>3, EmptySeq DEF PeerResets
    <2>2. QED
      BY <1>0, <1>3, <2>1 DEF PeerResets, TypeOK
  <1>4. CASE BeginRead
    BY <1>4 DEF BeginRead, TypeOK
  <1>5. CASE ReadClosed
    <2>1. "closed" \in Kinds
      BY DEF Kinds
    <2>2. QED
      BY <1>5, <1>r, <2>1 DEF ReadClosed, TypeOK
  <1>6. CASE TakeLine
    <2>1. PICK n \in DOMAIN buffer :
            /\ outcome' = Got(SubSeq(buffer, 1, n))
            /\ buffer' = SubSeq(buffer, n + 1, Len(buffer))
      BY <1>6 DEF TakeLine
    <2>2. n \in 0 .. Len(buffer)
      BY LineInBuffer
    <2>3. /\ SubSeq(buffer, n + 1, Len(buffer)) \in Seq(Bytes \cup {LF})
          /\ Len(SubSeq(buffer, n + 1, Len(buffer))) <= MaxResponse
          /\ SubSeq(buffer, 1, n) \in Seq(Bytes \cup {LF})
          /\ Len(SubSeq(buffer, 1, n)) <= MaxResponse
      BY <1>0, <2>2, RestOK DEF TypeOK
    <2>4. outcome'.kind \in Kinds /\ outcome'.line = SubSeq(buffer, 1, n)
      BY <2>1 DEF Got, Kinds
    <2>5. QED
      BY <1>6, <2>1, <2>3, <2>4 DEF TakeLine, TypeOK
  <1>7. CASE OverLimit \/ Timeout \/ Disconnected
    <2>1. PICK e \in Kinds : outcome' = Raised(e)
      BY <1>7 DEF OverLimit, Timeout, Disconnected, Raise, Kinds
    <2>2. pc' = "idle" /\ UNCHANGED <<incoming, peer, buffer, closed>>
      BY <1>7 DEF OverLimit, Timeout, Disconnected, Raise
    <2>3. QED
      BY <1>r, <2>1, <2>2 DEF TypeOK
  <1>8. CASE Receive
    <2>1. PICK n \in Sizes : /\ buffer' = buffer \o SubSeq(incoming, 1, n)
                             /\ incoming' = SubSeq(incoming, n + 1, Len(incoming))
      BY <1>8 DEF Receive
    <2>2. n \in 0 .. Len(incoming) /\ Len(buffer) + n <= MaxResponse
      BY SizesFit
    <2>3. /\ SubSeq(incoming, 1, n) \in Seq(Bytes \cup {LF})
          /\ Len(SubSeq(incoming, 1, n)) = n
      BY <2>2, SplitAt DEF TypeOK
    <2>4. buffer' \in Seq(Bytes \cup {LF}) /\ Len(buffer') <= MaxResponse
      BY <2>1, <2>2, <2>3, ConcatProperties DEF TypeOK
    <2>5. incoming' \in Seq(Bytes \cup {LF}) /\ Len(incoming') <= MaxInFlight
      BY <1>0, <2>1, <2>2, RestOK DEF TypeOK
    <2>6. QED
      BY <1>8, <2>4, <2>5 DEF Receive, TypeOK
  <1>9. CASE Interrupt
    <2>1. outcome' = Raised("interrupted") /\ "interrupted" \in Kinds
      BY <1>9 DEF Interrupt, Kinds
    <2>2. pc' = "idle" /\ UNCHANGED <<peer, closed>>
      BY <1>9 DEF Interrupt
    <2>3. incoming' \in Seq(Bytes \cup {LF}) /\ Len(incoming') <= MaxInFlight
      <3>1. CASE incoming' = incoming
        BY <3>1 DEF TypeOK
      <3>2. CASE \E n \in Sizes : incoming' = SubSeq(incoming, n + 1, Len(incoming))
        BY <1>0, <3>2, SizesFit, RestOK DEF TypeOK
      <3>3. QED
        BY <1>9, <3>1, <3>2 DEF Interrupt
    <2>4. buffer' \in Seq(Bytes \cup {LF}) /\ Len(buffer') <= MaxResponse
      <3>1. CASE buffer' = buffer
        BY <3>1 DEF TypeOK
      <3>2. CASE \E n \in DOMAIN buffer : buffer' = SubSeq(buffer, n + 1, Len(buffer))
        BY <1>0, <3>2, LineInBuffer, RestOK DEF TypeOK
      <3>3. QED
        BY <1>9, <3>1, <3>2 DEF Interrupt
    <2>5. QED
      BY <1>r, <2>1, <2>2, <2>3, <2>4 DEF TypeOK
  <1>10. CASE Close
    BY <1>10 DEF Close, TypeOK
  <1>11. CASE UNCHANGED vars
    BY <1>11 DEF vars, TypeOK
  <1>12. QED
    BY <1>1, <1>2, <1>3, <1>4, <1>5, <1>6, <1>7, <1>8, <1>9, <1>10, <1>11
    DEF Next, ReadStep

\* Whatever the chunk size, and however the bytes come, the buffer never holds
\* more than max_response_bytes (socket.py:46-75): recv() is asked for no more
\* than there is room for.
THEOREM TypeCorrect == Spec => []TypeOK
  <1>1. Init => TypeOK
    <2> SUFFICES ASSUME Init PROVE TypeOK
      OBVIOUS
    <2>1. <<>> \in Seq(Bytes \cup {LF}) /\ Len(<<>>) = 0
      BY EmptySeq
    <2>2. "none" \in Kinds
      BY DEF Kinds
    <2>3. /\ Raised("none").kind \in Kinds
          /\ Raised("none").line \in Seq(Bytes \cup {LF})
          /\ Len(Raised("none").line) <= MaxResponse
      BY <2>2, RaisedOK
    <2>4. 0 <= MaxInFlight /\ 0 <= MaxResponse
      BY SocketAssumption
    <2>5. /\ incoming \in Seq(Bytes \cup {LF}) /\ Len(incoming) <= MaxInFlight
          /\ buffer \in Seq(Bytes \cup {LF}) /\ Len(buffer) <= MaxResponse
      BY <2>1, <2>4 DEF Init
    <2>6. QED
      BY <2>3, <2>5 DEF Init, TypeOK
  <1>2. TypeOK /\ [Next]_vars => TypeOK'
    BY TypeStep
  <1>3. QED
    BY <1>1, <1>2, PTL DEF Spec

----------------------------------------------------------------------------
(* The transport implements LineStream: what no read has returned is the   *)
(* buffer followed by the bytes in the socket.                             *)

\* The bytes that the instrument sent and that no read has returned.
Unread == buffer \o incoming

\* What the two parts of Unread are as sequences.
LEMMA UnreadIs ==
  ASSUME TypeOK
  PROVE  /\ buffer \in Seq(Bytes \cup {LF}) /\ incoming \in Seq(Bytes \cup {LF})
         /\ Unread \in Seq(Bytes \cup {LF})
         /\ Len(buffer) \in Nat /\ Len(incoming) \in Nat
         /\ Len(Unread) = Len(buffer) + Len(incoming)
         /\ DOMAIN buffer = 1 .. Len(buffer) /\ DOMAIN Unread = 1 .. Len(Unread)
         /\ \A i \in 1 .. Len(buffer) : Unread[i] = buffer[i]
  <1>1. buffer \in Seq(Bytes \cup {LF}) /\ incoming \in Seq(Bytes \cup {LF})
    BY DEF TypeOK
  <1>2. Len(buffer) \in Nat /\ Len(incoming) \in Nat /\ DOMAIN buffer = 1 .. Len(buffer)
    BY <1>1, LenProperties
  <1>3. /\ Unread \in Seq(Bytes \cup {LF})
        /\ Len(Unread) = Len(buffer) + Len(incoming)
        /\ \A i \in 1 .. Len(buffer) + Len(incoming) :
             Unread[i] = IF i <= Len(buffer) THEN buffer[i] ELSE incoming[i - Len(buffer)]
    BY <1>1, ConcatProperties DEF Unread
  <1>4. DOMAIN Unread = 1 .. Len(Unread)
    BY <1>3, LenProperties
  <1>5. \A i \in 1 .. Len(buffer) : Unread[i] = buffer[i]
    BY <1>2, <1>3
  <1>6. QED
    BY <1>1, <1>2, <1>3, <1>4, <1>5

\* A first line of the buffer is the first line of what no read has returned,
\* and taking it off the buffer takes it off the whole.
LEMMA LineIsFirst ==
  ASSUME TypeOK, NEW n \in DOMAIN buffer, FirstLine(buffer, n)
  PROVE  /\ Stream!FirstLine(Unread, n)
         /\ SubSeq(Unread, 1, n) = SubSeq(buffer, 1, n)
         /\ SubSeq(Unread, n + 1, Len(Unread))
              = SubSeq(buffer, n + 1, Len(buffer)) \o incoming
  <1>1. n \in 0 .. Len(buffer) /\ n \in 1 .. Len(buffer)
    BY LineInBuffer, UnreadIs
  <1>2. n \in 1 .. Len(Unread)
    BY <1>1, UnreadIs
  <1>3. \A i \in 1 .. n : i \in 1 .. Len(buffer)
    BY <1>1, UnreadIs
  <1>4. Unread[n] = LF /\ \A i \in 1 .. n - 1 : Unread[i] # LF
    BY <1>1, <1>3, UnreadIs DEF FirstLine
  <1>5. Stream!FirstLine(Unread, n)
    BY <1>2, <1>4, UnreadIs DEF Stream!FirstLine
  <1>6. QED
    BY <1>1, <1>5, SplitConcat, UnreadIs DEF Unread

\* Taking bytes off the socket without a place in the buffer cuts one piece
\* out of the stream, right behind the buffer.
LEMMA ChunkIsLost ==
  ASSUME TypeOK, NEW n \in Sizes
  PROVE  buffer \o SubSeq(incoming, n + 1, Len(incoming))
           = SubSeq(Unread, 1, Len(buffer))
               \o SubSeq(Unread, Len(buffer) + n + 1, Len(Unread))
  <1>1. n \in 0 .. Len(incoming)
    BY SizesFit
  <1>2. SubSeq(Unread, 1, Len(buffer)) = buffer
    BY UnreadIs, WholeFirst DEF Unread
  <1>3. SubSeq(Unread, Len(buffer) + n + 1, Len(Unread))
          = SubSeq(incoming, n + 1, Len(incoming))
    BY <1>1, UnreadIs, DropBeyond DEF Unread
  <1>4. QED
    BY <1>2, <1>3

\* A turn of recv() moves bytes from the socket to the buffer: nothing is
\* lost, added or reordered.
LEMMA ReceiveKeepsAll ==
  ASSUME TypeOK, Receive
  PROVE  Unread' = Unread
  <1>1. PICK n \in Sizes : /\ buffer' = buffer \o SubSeq(incoming, 1, n)
                           /\ incoming' = SubSeq(incoming, n + 1, Len(incoming))
    BY DEF Receive
  <1>2. n \in 0 .. Len(incoming)
    BY SizesFit
  <1>3. (buffer \o SubSeq(incoming, 1, n)) \o SubSeq(incoming, n + 1, Len(incoming))
          = buffer \o incoming
    BY <1>2, UnreadIs, MoveAcross
  <1>4. QED
    BY <1>1, <1>3 DEF Unread

\* An exception of read() says what the stream holds: no line within the
\* limit, or more than the limit without one.
LEMMA RaiseIsHonest ==
  ASSUME TypeOK, OverLimit \/ Timeout \/ Disconnected
  PROVE  Stream!Raise
  <1>1. Unread' = Unread /\ peer' = peer
    BY DEF OverLimit, Timeout, Disconnected, Raise, Unread
  <1>2. CASE OverLimit
    <2>1. Len(buffer) = MaxResponse
      BY <1>2, SocketAssumption, UnreadIs DEF OverLimit, TypeOK
    <2>2. SubSeq(Unread, 1, MaxResponse) = buffer
      BY <2>1, UnreadIs, WholeFirst DEF Unread
    <2>3. Stream!NoLine(SubSeq(Unread, 1, MaxResponse))
      BY <1>2, <2>2 DEF OverLimit, NoLine, Stream!NoLine
    <2>4. Len(Unread) >= MaxResponse
      BY <2>1, SocketAssumption, UnreadIs
    <2>5. outcome' = Stream!Raised("protocol")
      BY <1>2 DEF OverLimit, Raise, Raised, Stream!Raised
    <2>6. QED
      BY <1>1, <2>3, <2>4, <2>5 DEF Stream!Raise, Unread
  <1>3. CASE Timeout \/ Disconnected
    <2>1. incoming = <<>> /\ NoLine(buffer) /\ Len(buffer) < MaxResponse
      BY <1>3 DEF Timeout, Disconnected, Receiving
    <2>2. Unread = buffer
      BY <2>1, ConcatEmptySeq, UnreadIs DEF Unread
    <2>3. Stream!NoLine(Unread) /\ Len(Unread) < MaxResponse
      BY <2>1, <2>2 DEF NoLine, Stream!NoLine
    <2>4. outcome' = Stream!Raised(IF peer = "open" THEN "timeout" ELSE "connection")
      BY <1>3 DEF Timeout, Disconnected, Raise, Raised, Stream!Raised
    <2>5. QED
      BY <1>1, <2>3, <2>4 DEF Stream!Raise, Unread
  <1>4. QED
    BY <1>2, <1>3

\* A KeyboardInterrupt inside read() cuts at most one piece out of the stream.
LEMMA InterruptCutsOnce ==
  ASSUME TypeOK, Interrupt
  PROVE  Stream!Interrupted
  <1>1. outcome' = Stream!Raised("interrupted") /\ peer' = peer
    BY DEF Interrupt, Raised, Stream!Raised
  <1> DEFINE Cut(i, j) == SubSeq(Unread, 1, i) \o SubSeq(Unread, j + 1, Len(Unread))
  <1>2. \E i \in 0 .. Len(Unread), j \in 0 .. Len(Unread) :
          i <= j /\ Unread' = Cut(i, j)
    <2>1. CASE UNCHANGED <<incoming, buffer>>
      <3>1. 0 \in 0 .. Len(Unread)
        BY UnreadIs
      <3>2. Cut(0, 0) = Unread
        BY <3>1, SplitAt, UnreadIs
      <3>3. Unread' = Unread
        BY <2>1 DEF Unread
      <3> HIDE DEF Cut
      <3>4. QED
        BY <3>1, <3>2, <3>3
    <2>2. CASE /\ \E n \in Sizes : incoming' = SubSeq(incoming, n + 1, Len(incoming))
               /\ UNCHANGED buffer
      <3>1. PICK n \in Sizes : incoming' = SubSeq(incoming, n + 1, Len(incoming))
        BY <2>2
      <3>2. Unread' = Cut(Len(buffer), Len(buffer) + n)
        BY <2>2, <3>1, ChunkIsLost DEF Unread
      <3>3. n \in 0 .. Len(incoming)
        BY SizesFit
      <3>4. /\ Len(buffer) \in 0 .. Len(Unread) /\ Len(buffer) + n \in 0 .. Len(Unread)
            /\ Len(buffer) <= Len(buffer) + n
        BY <3>3, UnreadIs
      <3> HIDE DEF Cut
      <3>5. QED
        BY <3>2, <3>4
    <2>3. CASE /\ \E n \in DOMAIN buffer :
                     FirstLine(buffer, n) /\ buffer' = SubSeq(buffer, n + 1, Len(buffer))
               /\ UNCHANGED incoming
      <3>1. PICK n \in DOMAIN buffer :
              FirstLine(buffer, n) /\ buffer' = SubSeq(buffer, n + 1, Len(buffer))
        BY <2>3
      <3>2. n \in 0 .. Len(Unread) /\ 0 \in 0 .. Len(Unread) /\ 0 <= n
        BY LineInBuffer, UnreadIs
      <3>3. Unread' = SubSeq(Unread, n + 1, Len(Unread))
        BY <2>3, <3>1, LineIsFirst DEF Unread
      <3>4. SubSeq(Unread, 1, 0) = <<>>
        BY SubSeqEmpty
      <3>5. SubSeq(Unread, n + 1, Len(Unread)) \in Seq(Bytes \cup {LF})
        BY <3>2, SplitAt, UnreadIs
      <3>6. Unread' = Cut(0, n)
        BY <3>3, <3>4, <3>5, ConcatEmptySeq
      <3> HIDE DEF Cut
      <3>7. QED
        BY <3>2, <3>6
    <2>4. QED
      BY <2>1, <2>2, <2>3 DEF Interrupt
  <1>3. QED
    BY <1>1, <1>2 DEF Stream!Interrupted, Unread

\* Every step of the transport is a step of the stream or leaves it alone.
LEMMA StepIsStreamStep == TypeOK /\ [Next]_vars => [Stream!Next]_(Stream!vars)
  <1> SUFFICES ASSUME TypeOK, [Next]_vars
               PROVE  Stream!Next \/ UNCHANGED Stream!vars
    OBVIOUS
  <1>1. CASE Send
    <2>1. PICK b \in Bytes \cup {LF} : incoming' = Append(incoming, b)
      BY <1>1 DEF Send
    <2>2. buffer' = buffer /\ peer = "open" /\ UNCHANGED <<peer, outcome>>
      BY <1>1 DEF Send
    <2>3. Append(incoming, b) = incoming \o <<b>> /\ Append(Unread, b) = Unread \o <<b>>
      BY AppendIsConcat, UnreadIs
    <2>4. <<b>> \in Seq(Bytes \cup {LF})
      OBVIOUS
    <2>5. Unread' = Append(Unread, b)
      BY <2>1, <2>2, <2>3, <2>4, ConcatAssociative, UnreadIs DEF Unread
    <2>6. Stream!Arrive
      BY <2>2, <2>5 DEF Stream!Arrive, Unread
    <2>7. QED
      BY <2>6 DEF Stream!Next
  <1>2. CASE PeerEnds
    BY <1>2 DEF PeerEnds, Stream!Hangup, Stream!Next
  <1>3. CASE PeerResets
    <2>1. Len(buffer) \in 0 .. Len(Unread)
      BY UnreadIs
    <2>2. Unread' = buffer
      BY <1>3, ConcatEmptySeq, UnreadIs DEF PeerResets, Unread
    <2>3. Unread' = SubSeq(Unread, 1, Len(buffer))
      BY <2>2, UnreadIs, WholeFirst DEF Unread
    <2>4. Stream!Reset
      BY <1>3, <2>1, <2>3 DEF PeerResets, Stream!Reset, Unread
    <2>5. QED
      BY <2>4 DEF Stream!Next
  <1>4. CASE ReadClosed
    BY <1>4 DEF ReadClosed, Raised, Stream!Raised, Stream!Closed, Stream!Next
  <1>5. CASE TakeLine
    <2>1. PICK n \in DOMAIN buffer :
            /\ FirstLine(buffer, n)
            /\ outcome' = Got(SubSeq(buffer, 1, n))
            /\ buffer' = SubSeq(buffer, n + 1, Len(buffer))
      BY <1>5 DEF TakeLine
    <2>2. incoming' = incoming /\ peer' = peer
      BY <1>5 DEF TakeLine
    <2>3. n \in 1 .. MaxResponse
      BY LineInBuffer
    <2>4. /\ Stream!FirstLine(Unread, n)
          /\ outcome' = Stream!Got(SubSeq(Unread, 1, n))
          /\ Unread' = SubSeq(Unread, n + 1, Len(Unread))
      BY <2>1, <2>2, LineIsFirst DEF Got, Stream!Got, Unread
    <2>5. Stream!Deliver
      BY <2>2, <2>3, <2>4 DEF Stream!Deliver, Unread
    <2>6. QED
      BY <2>5 DEF Stream!Next
  <1>6. CASE OverLimit \/ Timeout \/ Disconnected
    BY <1>6, RaiseIsHonest DEF Stream!Next
  <1>7. CASE Receive
    <2>1. Unread' = Unread
      BY <1>7, ReceiveKeepsAll
    <2>2. QED
      BY <1>7, <2>1 DEF Receive, Unread, Stream!vars
  <1>8. CASE Interrupt
    BY <1>8, InterruptCutsOnce DEF Stream!Next
  <1>9. CASE BeginRead \/ Close \/ UNCHANGED vars
    BY <1>9 DEF BeginRead, Close, vars, Stream!vars
  <1>10. QED
    BY <1>1, <1>2, <1>3, <1>4, <1>5, <1>6, <1>7, <1>8, <1>9 DEF Next, ReadStep

\* The reads return the instrument's lines whole and in order, whatever the
\* chunks, the timeouts between them and the limit: the receive buffer is
\* never visible (socket.py:46-75).
THEOREM TransportImplementsStream == Spec => ReadsTakeLines
  <1>1. Init => Stream!Init
    <2>1. <<>> \o <<>> = <<>>
      BY ConcatEmptySeq, EmptySeq
    <2>2. QED
      BY <2>1 DEF Init, Stream!Init, Raised, Stream!Raised
  <1>2. TypeOK /\ [Next]_vars => [Stream!Next]_(Stream!vars)
    BY StepIsStreamStep
  <1>3. QED
    BY <1>1, <1>2, TypeCorrect, PTL DEF Spec, ReadsTakeLines, Stream!Spec
===============================================================================
