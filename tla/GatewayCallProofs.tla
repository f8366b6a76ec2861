--------------------------- MODULE GatewayCallProofs ---------------------------
(***************************************************************************)
(* Proofs about GatewayCall for any limits, sizes, timeouts, latency and   *)
(* number of calls: what an outcome keeps on its way through the gateway   *)
(* and what earlier calls may do to it, and that heartbeats hold every     *)
(* timeout of a session.                                                   *)
(***************************************************************************)
EXTENDS GatewayCall, SequenceTheorems, TLAPS

EndClasses  == Canonical \cup GatewayErrors \cup {"values", "KeyboardInterrupt"}
Classes     == EndClasses \cup {"none", "RuntimeError", "heartbeat", "fragment", "end"}
OutcomeType == [class : Classes, index : Int, size : Nat]
RequestType == [call : 1 .. MaxCalls, commands : Nat, bytes : 1 .. MaxMessage + 1,
                whole : BOOLEAN, age : 0 .. Latency]
ReplyType   == [id : 0 .. MaxCalls, says : OutcomeType, age : 0 .. Latency]

TypesOK ==
  /\ timeout \in Timeouts /\ calls \in 0 .. MaxCalls
  /\ result \in [1 .. MaxCalls -> OutcomeType] /\ direct \in [1 .. MaxCalls -> OutcomeType]
  /\ requests \in Seq(RequestType) /\ replies \in Seq(ReplyType)
  /\ partial \in 0 .. MaxMessage + 1
  /\ waiting \in BOOLEAN /\ cut \in BOOLEAN /\ latched \in BOOLEAN /\ closed \in BOOLEAN
  /\ running \in BOOLEAN
  /\ running => requests # <<>>
  /\ waiting => calls # 0

\* What DirectExecutor or the owner may end a batch with.
DirectOK(d) ==
  \/ d = NotRun
  \/ d.class = "values" /\ d = Outcome("values", NoIndex, d.size) /\ d.size \in Nat
  \/ /\ d.class \in {"SPD3000TimeoutError", "SPD3000ConnectionError",
                     "SPD3000ProtocolError", "RuntimeError"}
     /\ d = Outcome(d.class, d.index, 0) /\ d.index \in Int

-------------------------------------------------------------------------------
(* The ends of the wire format: what the owner may end a batch with comes  *)
(* out as it went in, or as a GatewayInternalError.                        *)
LEMMA ArrivedOutcome ==
  ASSUME NEW d, DirectOK(d), d # NotRun
  PROVE  /\ Arrived(d) \in OutcomeType /\ d \in OutcomeType
         /\ d.class \in Canonical \cup {"values"} => Arrived(d) = d
         /\ d.class \notin Canonical \cup {"values"} => Arrived(d) = Failure("GatewayInternalError")
         /\ Arrived(d).size = d.size
         /\ Arrived(d).class \in Canonical \cup {"values", "GatewayInternalError"}
  <1> USE DEF DirectOK, Arrived, ReconstructException, SerializeException, Outcome, Failure,
              Canonical, GatewayErrors, Rebuilt, NotRun, NoIndex, OutcomeType, Classes, EndClasses
  <1>1. CASE d.class = "values"
    BY <1>1
  <1>2. CASE d.class = "RuntimeError" /\ d = Outcome("RuntimeError", d.index, 0) /\ d.index \in Int
    BY <1>2
  <1>3. CASE /\ d.class \in {"SPD3000TimeoutError", "SPD3000ConnectionError",
                             "SPD3000ProtocolError"}
             /\ d = Outcome(d.class, d.index, 0) /\ d.index \in Int
    BY <1>3
  <1> QED BY <1>1, <1>2, <1>3

(* A message within the limit is read whole.                               *)
LEMMA EncodableReadable ==
  ASSUME NEW size \in Nat, Encodable(size)
  PROVE  Readable(size)
  BY CallAssumption DEF Encodable, Readable

LEMMA FailureType ==
  ASSUME NEW c \in Classes
  PROVE  /\ Failure(c) \in OutcomeType /\ Failure(c).class = c /\ Failure(c).size = 0
         /\ c # "none" => Failure(c) # NotRun
  BY DEF Failure, Outcome, OutcomeType, NoIndex, NotRun

LEMMA ConstantTypes ==
  MaxMessage \in Nat /\ MaxCalls \in Nat /\ MaxHeartbeat \in Nat /\ Latency \in Nat
  BY CallAssumption

(* The number of calls.                                                    *)
LEMMA CallsRange ==
  ASSUME TypesOK
  PROVE  /\ calls \in 0 .. MaxCalls /\ calls \in Nat /\ MaxCalls \in Nat
         /\ waiting => calls \in 1 .. MaxCalls
         /\ \A n \in 1 .. calls : n \in 1 .. MaxCalls
  <1>1. calls \in 0 .. MaxCalls /\ (waiting => calls # 0)
    BY DEF TypesOK
  <1> QED BY <1>1, ConstantTypes

(* What the handler and a broken connection write besides responses.       *)
LEMMA PlainMessages ==
  /\ \A id : Refusal(id).says = Failure("GatewayProtocolError") /\ Refusal(id).id = id
  /\ \A id, says : Message(id, says).id = id /\ Message(id, says).says = says
                   /\ Message(id, says).age = 0
  /\ \A id \in 0 .. MaxCalls, says \in OutcomeType : Message(id, says) \in ReplyType
  /\ \A id \in 0 .. MaxCalls : Refusal(id) \in ReplyType
  /\ Fragment \in ReplyType /\ Fragment.says = Failure("fragment") /\ Fragment.id = NoId
  /\ End \in ReplyType /\ End.says = Failure("end") /\ End.id = NoId
  /\ Heartbeat = Failure("heartbeat") /\ Heartbeat \in OutcomeType
  <1>1. {"heartbeat", "fragment", "end", "GatewayProtocolError"} \subseteq Classes
    BY DEF Classes, EndClasses, GatewayErrors
  <1>2. Arrived(Failure("GatewayProtocolError")) = Failure("GatewayProtocolError")
    BY DEF Arrived, ReconstructException, SerializeException, Failure, Outcome, Canonical,
           GatewayErrors, Rebuilt
  <1>3. 0 \in 0 .. Latency /\ NoId \in 0 .. MaxCalls
    BY CallAssumption DEF NoId
  <1>4. \A id, says : Message(id, says) = [id |-> id, says |-> says, age |-> 0]
    BY DEF Message
  <1>5. \A id \in 0 .. MaxCalls, says \in OutcomeType : Message(id, says) \in ReplyType
    BY <1>3, <1>4 DEF ReplyType
  <1> QED BY <1>1, <1>2, <1>3, <1>4, <1>5, FailureType DEF Refusal, Fragment, End, Heartbeat

LEMMA RefusalTypes ==
  /\ Refusal(NoId) \in ReplyType
  /\ \A id \in 0 .. MaxCalls : Refusal(id) \in ReplyType
  <1>1. NoId \in 0 .. MaxCalls
    BY CallAssumption DEF NoId
  <1> QED BY <1>1, PlainMessages

(* Time changes the ages of messages and nothing else of them.             *)
LEMMA OlderSeq ==
  ASSUME NEW S, NEW s \in Seq(S),
         \A m \in S : /\ m.age \in 0 .. Latency
                      /\ m.age < Latency => [m EXCEPT !.age = @ + 1] \in S
  PROVE  /\ Older(s) \in Seq(S) /\ Len(Older(s)) = Len(s)
         /\ \A i \in 1 .. Len(s) :
              Older(s)[i] = IF s[i].age < Latency THEN [s[i] EXCEPT !.age = @ + 1] ELSE s[i]
  <1>1. Len(s) \in Nat /\ DOMAIN s = 1 .. Len(s) /\ \A i \in 1 .. Len(s) : s[i] \in S
    BY LenProperties, ElementOfSeq
  <1>2. \A i \in 1 .. Len(s) :
          (IF s[i].age < Latency THEN [s[i] EXCEPT !.age = @ + 1] ELSE s[i]) \in S
    BY <1>1
  <1>3. Older(s) \in [1 .. Len(s) -> S]
    BY <1>1, <1>2 DEF Older
  <1>4. Older(s) \in Seq(S) /\ Len(Older(s)) = Len(s)
    BY <1>1, <1>3, SeqDef, LenProperties
  <1> QED BY <1>1, <1>4 DEF Older

LEMMA AgedRequest ==
  ASSUME NEW A, NEW B, NEW C, NEW D, NEW E, NEW age \in E,
         NEW m \in [call : A, commands : B, bytes : C, whole : D, age : E]
  PROVE  [m EXCEPT !.age = age] \in [call : A, commands : B, bytes : C, whole : D, age : E]
  OBVIOUS

LEMMA OlderRequests ==
  ASSUME requests \in Seq(RequestType)
  PROVE  /\ Older(requests) \in Seq(RequestType) /\ Len(Older(requests)) = Len(requests)
         /\ \A i \in 1 .. Len(requests) :
              /\ Older(requests)[i].call = requests[i].call
              /\ Older(requests)[i].whole = requests[i].whole
              /\ Older(requests)[i].age =
                   IF requests[i].age < Latency THEN requests[i].age + 1 ELSE requests[i].age
  <1>1. \A m \in RequestType : /\ m.age \in 0 .. Latency
                               /\ m.age < Latency => [m EXCEPT !.age = @ + 1] \in RequestType
    <2> SUFFICES ASSUME NEW m \in RequestType
                 PROVE  /\ m.age \in 0 .. Latency
                        /\ m.age < Latency => [m EXCEPT !.age = @ + 1] \in RequestType
      OBVIOUS
    <2>1. m.age \in 0 .. Latency
      BY DEF RequestType
    <2>2. m.age < Latency => m.age + 1 \in 0 .. Latency
      BY <2>1, ConstantTypes
    <2> QED BY <2>1, <2>2, AgedRequest DEF RequestType
  <1>2. \A i \in 1 .. Len(requests) : requests[i] \in RequestType
    BY ElementOfSeq
  <1>3. \A m \in RequestType :
          LET o == IF m.age < Latency THEN [m EXCEPT !.age = @ + 1] ELSE m IN
          /\ o.call = m.call /\ o.whole = m.whole
          /\ o.age = IF m.age < Latency THEN m.age + 1 ELSE m.age
    BY DEF RequestType
  <1>4. /\ Older(requests) \in Seq(RequestType) /\ Len(Older(requests)) = Len(requests)
        /\ \A i \in 1 .. Len(requests) : Older(requests)[i] =
             IF requests[i].age < Latency THEN [requests[i] EXCEPT !.age = @ + 1] ELSE requests[i]
    BY <1>1, OlderSeq
  <1> QED BY <1>2, <1>3, <1>4

LEMMA OlderReplies ==
  ASSUME replies \in Seq(ReplyType)
  PROVE  /\ Older(replies) \in Seq(ReplyType) /\ Len(Older(replies)) = Len(replies)
         /\ \A i \in 1 .. Len(replies) :
              /\ Older(replies)[i].id = replies[i].id
              /\ Older(replies)[i].says = replies[i].says
              /\ Older(replies)[i].age =
                   IF replies[i].age < Latency THEN replies[i].age + 1 ELSE replies[i].age
  <1>1. \A m \in ReplyType : /\ m.age \in 0 .. Latency
                             /\ m.age < Latency => [m EXCEPT !.age = @ + 1] \in ReplyType
    <2> SUFFICES ASSUME NEW m \in ReplyType
                 PROVE  /\ m.age \in 0 .. Latency
                        /\ m.age < Latency => [m EXCEPT !.age = @ + 1] \in ReplyType
      OBVIOUS
    <2>1. m.id \in 0 .. MaxCalls /\ m.says \in OutcomeType /\ m.age \in 0 .. Latency
          /\ [m EXCEPT !.age = @ + 1] = [id |-> m.id, says |-> m.says, age |-> m.age + 1]
      BY DEF ReplyType
    <2>2. m.age < Latency => m.age + 1 \in 0 .. Latency
      BY <2>1, ConstantTypes
    <2> QED BY <2>1, <2>2 DEF ReplyType
  <1>2. \A i \in 1 .. Len(replies) : replies[i] \in ReplyType
    BY ElementOfSeq
  <1>3. \A m \in ReplyType :
          LET o == IF m.age < Latency THEN [m EXCEPT !.age = @ + 1] ELSE m IN
          /\ o.id = m.id /\ o.says = m.says
          /\ o.age = IF m.age < Latency THEN m.age + 1 ELSE m.age
    BY DEF ReplyType
  <1>4. /\ Older(replies) \in Seq(ReplyType) /\ Len(Older(replies)) = Len(replies)
        /\ \A i \in 1 .. Len(replies) : Older(replies)[i] =
             IF replies[i].age < Latency THEN [replies[i] EXCEPT !.age = @ + 1] ELSE replies[i]
    BY <1>1, OlderSeq
  <1> QED BY <1>2, <1>3, <1>4

(* Taking the first and adding a last message.                             *)
LEMMA FirstRequest ==
  ASSUME requests \in Seq(RequestType), requests # <<>>
  PROVE  /\ Len(requests) \in Nat \ {0}
         /\ Head(requests) = requests[1] /\ Head(requests) \in RequestType
         /\ Tail(requests) \in Seq(RequestType) /\ Len(Tail(requests)) = Len(requests) - 1
         /\ \A i \in 1 .. Len(requests) - 1 : Tail(requests)[i] = requests[i + 1]
         /\ \A i \in 1 .. Len(requests) : requests[i] \in RequestType
  <1>1. Head(requests) = requests[1]
    OBVIOUS
  <1> QED BY <1>1, EmptySeq, HeadTailProperties, ElementOfSeq

LEMMA FirstReply ==
  ASSUME replies \in Seq(ReplyType), replies # <<>>
  PROVE  /\ Len(replies) \in Nat \ {0}
         /\ Head(replies) = replies[1] /\ Head(replies) \in ReplyType
         /\ Tail(replies) \in Seq(ReplyType) /\ Len(Tail(replies)) = Len(replies) - 1
         /\ \A i \in 1 .. Len(replies) - 1 : Tail(replies)[i] = replies[i + 1]
         /\ \A i \in 1 .. Len(replies) : replies[i] \in ReplyType
  <1>1. Head(replies) = replies[1]
    OBVIOUS
  <1> QED BY <1>1, EmptySeq, HeadTailProperties, ElementOfSeq

LEMMA WrittenReplies ==
  ASSUME NEW s \in Seq(ReplyType), NEW m \in ReplyType
  PROVE  /\ Written(s, m) \in Seq(ReplyType)
         /\ closed => Written(s, m) = s
         /\ ~ closed => /\ Len(Written(s, m)) = Len(s) + 1
                        /\ Written(s, m)[Len(s) + 1] = m
                        /\ \A i \in 1 .. Len(s) : Written(s, m)[i] = s[i]
  <1>1. CASE closed
    BY <1>1 DEF Written
  <1>2. CASE ~ closed
    BY <1>2, AppendProperties, LenProperties DEF Written
  <1> QED BY <1>1, <1>2

\* What is in a sequence, wherever.
In(s) == {s[i] : i \in 1 .. Len(s)}

LEMMA InAppend ==
  ASSUME NEW S, NEW s \in Seq(S), NEW e \in S
  PROVE  In(Append(s, e)) = In(s) \cup {e} /\ Append(s, e) \in Seq(S)
  <1>1. /\ Append(s, e) \in Seq(S) /\ Len(Append(s, e)) = Len(s) + 1 /\ Len(s) \in Nat
        /\ \A i \in 1 .. Len(s) : Append(s, e)[i] = s[i]
        /\ Append(s, e)[Len(s) + 1] = e
    BY AppendProperties, LenProperties
  <1>2. 1 .. Len(Append(s, e)) = 1 .. Len(s) \cup {Len(s) + 1}
    BY <1>1
  <1> QED BY <1>1, <1>2 DEF In

LEMMA InTail ==
  ASSUME NEW S, NEW s \in Seq(S), s # <<>>
  PROVE  Tail(s) \in Seq(S) /\ In(Tail(s)) \subseteq In(s) /\ Head(s) \in In(s)
  <1>1. /\ Tail(s) \in Seq(S) /\ Len(Tail(s)) = Len(s) - 1 /\ Len(s) \in Nat \ {0}
        /\ \A i \in 1 .. Len(Tail(s)) : Tail(s)[i] = s[i + 1]
    BY HeadTailProperties, EmptySeq
  <1>2. Head(s) = s[1]
    OBVIOUS
  <1>3. 1 \in 1 .. Len(s) /\ \A i \in 1 .. Len(Tail(s)) : i + 1 \in 1 .. Len(s)
    BY <1>1
  <1> QED BY <1>1, <1>2, <1>3 DEF In

LEMMA InSubSeq ==
  ASSUME NEW S, NEW s \in Seq(S), NEW k \in 0 .. Len(s)
  PROVE  SubSeq(s, 1, k) \in Seq(S) /\ Len(SubSeq(s, 1, k)) = k /\ In(SubSeq(s, 1, k)) \subseteq In(s)
         /\ \A i \in 1 .. k : SubSeq(s, 1, k)[i] = s[i]
  <1>1. Len(s) \in Nat /\ \A i \in 1 .. k : s[i] \in S
    BY LenProperties, ElementOfSeq
  <1>2. /\ SubSeq(s, 1, k) \in Seq(S) /\ Len(SubSeq(s, 1, k)) = k
        /\ \A i \in 1 .. k : SubSeq(s, 1, k)[i] = s[i]
    BY <1>1, SubSeqProperties
  <1> QED BY <1>1, <1>2 DEF In

-------------------------------------------------------------------------------
(* The types.                                                              *)
LEMMA FinishTypes ==
  ASSUME NEW n \in 1 .. MaxCalls, NEW o \in OutcomeType, Finish(n, o), TypesOK
  PROVE  result' \in [1 .. MaxCalls -> OutcomeType] /\ waiting' = FALSE /\ cut' = FALSE
  BY DEF Finish, TypesOK

LEMMA NewCallTypes ==
  ASSUME TypesOK, NewCall
  PROVE  calls' = calls + 1 /\ calls' \in 1 .. MaxCalls /\ calls \in 0 .. MaxCalls
  <1>1. calls' = calls + 1 /\ calls < MaxCalls
    BY DEF NewCall
  <1> QED BY <1>1, CallsRange

LEMMA ClientTypes ==
  ASSUME TypesOK,
         Refuse \/ SendFails \/ Send \/ ReadHeartbeat \/ ReadReply \/ ReadEnd \/ TimeOut \/ Interrupt
  PROVE  TypesOK'
  <1>a. {"GatewayProtocolError", "GatewayConnectionError", "KeyboardInterrupt"} \subseteq Classes
    BY DEF Classes, EndClasses, GatewayErrors
  <1>1. CASE Refuse \/ SendFails
    <2>1. PICK c \in Classes : Finish(calls', Failure(c))
      BY <1>1, <1>a DEF Refuse, SendFails
    <2>2. calls' \in 1 .. MaxCalls
      BY <1>1, NewCallTypes DEF Refuse, SendFails
    <2>3. result' \in [1 .. MaxCalls -> OutcomeType] /\ waiting' = FALSE /\ cut' = FALSE
      BY <2>1, <2>2, FailureType, FinishTypes
    <2>4. UNCHANGED <<timeout, latched, closed, requests, replies, serverVars>> /\ calls' \in 0 .. MaxCalls
      BY <1>1, <2>2, ConstantTypes DEF Refuse, SendFails
    <2> QED BY <2>3, <2>4 DEF serverVars, TypesOK
  <1>2. CASE Send
    <2>1. PICK r \in Requests, sent \in 1 .. MaxMessage + 1 :
            /\ requests' = IF closed THEN requests
                           ELSE Append(requests, [call |-> calls + 1, commands |-> r.commands,
                                         bytes |-> sent, whole |-> sent = r.size + 1, age |-> 0])
            /\ IF latched THEN Finish(calls + 1, Failure("GatewayConnectionError"))
               ELSE waiting' = TRUE /\ cut' = (sent # r.size + 1) /\ silent' = 0 /\ UNCHANGED result
      BY <1>2 DEF Send
    <2>2. calls' \in 1 .. MaxCalls /\ calls' = calls + 1
      BY <1>2, NewCallTypes DEF Send
    <2>3. r.commands \in Nat /\ 0 \in 0 .. Latency
      BY CallAssumption DEF Requests
    <2>4. [call |-> calls + 1, commands |-> r.commands, bytes |-> sent,
           whole |-> sent = r.size + 1, age |-> 0] \in RequestType
      BY <2>2, <2>3 DEF RequestType
    <2>5. requests' \in Seq(RequestType)
      BY <2>1, <2>4, AppendProperties DEF TypesOK
    <2>6. result' \in [1 .. MaxCalls -> OutcomeType] /\ waiting' \in BOOLEAN /\ cut' \in BOOLEAN
      BY <1>a, <2>1, <2>2, FailureType, FinishTypes DEF TypesOK
    <2>7. UNCHANGED <<timeout, latched, closed, replies, serverVars>> /\ (running => requests' # <<>>)
      <3>1. CASE running
        <4>1. requests # <<>> /\ requests \in Seq(RequestType)
          BY <3>1 DEF TypesOK
        <4>2. requests' # <<>>
          BY <2>1, <2>4, <4>1, AppendProperties, EmptySeq, LenProperties
        <4> QED BY <1>2, <3>1, <4>2 DEF Send
      <3> QED BY <1>2, <3>1 DEF Send
    <2> QED BY <2>2, <2>5, <2>6, <2>7 DEF serverVars, TypesOK
  <1>3. CASE ReadHeartbeat
    BY <1>3, FirstReply DEF ReadHeartbeat, callVars, serverVars, TypesOK
  <1>4. CASE ReadReply \/ ReadEnd \/ TimeOut \/ Interrupt
    <2>1. calls \in 1 .. MaxCalls
      BY <1>4, CallsRange DEF ReadReply, ReadEnd, TimeOut, Interrupt
    <2>2. PICK o \in OutcomeType : Finish(calls, o)
      <3>1. CASE ReadReply
        <4>1. Head(replies).says \in OutcomeType
          BY <3>1, FirstReply DEF ReadReply, TypesOK, ReplyType
        <4> QED BY <1>a, <3>1, <4>1, FailureType DEF ReadReply
      <3> QED BY <1>4, <1>a, <3>1, FailureType DEF ReadEnd, TimeOut, Interrupt
    <2>3. result' \in [1 .. MaxCalls -> OutcomeType] /\ waiting' = FALSE /\ cut' = FALSE
      BY <2>1, <2>2, FinishTypes
    <2>4. replies' \in Seq(ReplyType)
      BY <1>4, FirstReply DEF ReadReply, ReadEnd, TimeOut, Interrupt, TypesOK
    <2>5. latched' \in BOOLEAN /\ UNCHANGED <<callVars, closed, requests, serverVars>>
      BY <1>4 DEF ReadReply, ReadEnd, TimeOut, Interrupt, TypesOK
    <2> QED BY <2>3, <2>4, <2>5 DEF callVars, serverVars, TypesOK
  <1> QED BY <1>1, <1>2, <1>3, <1>4

(* What the owner may end a batch with.                                    *)
LEMMA OutcomesOfBatch ==
  ASSUME NEW commands \in Nat, NEW d \in DirectOutcomes(commands)
  PROVE  DirectOK(d) /\ d # NotRun
  BY CallAssumption DEF DirectOutcomes, DirectOK, Outcome, Failure, NotRun, NoIndex

LEMMA RequestFields ==
  ASSUME NEW r \in RequestType
  PROVE  /\ r.call \in 1 .. MaxCalls /\ r.call \in 0 .. MaxCalls
         /\ r.commands \in Nat /\ r.bytes \in 1 .. MaxMessage + 1 /\ r.age \in 0 .. Latency
  <1>1. r.call \in 1 .. MaxCalls /\ r.commands \in Nat /\ r.bytes \in 1 .. MaxMessage + 1
        /\ r.age \in 0 .. Latency
    BY DEF RequestType
  <1>2. MaxCalls \in Nat
    BY ConstantTypes
  <1> QED BY <1>1, <1>2

LEMMA ServerTypes ==
  ASSUME TypesOK, Receive \/ RefuseLine \/ ReceivePart \/ SendHeartbeat \/ EndWork
  PROVE  TypesOK'
  <1> USE DEF TypesOK, clientVars
  <1>1. /\ requests # <<>>
        /\ Head(requests) \in RequestType /\ Tail(requests) \in Seq(RequestType)
        /\ Head(requests).call \in 1 .. MaxCalls /\ Head(requests).call \in 0 .. MaxCalls
        /\ Head(requests).commands \in Nat /\ Head(requests).bytes \in 1 .. MaxMessage + 1
    <2>1. requests # <<>> /\ Head(requests) \in RequestType /\ Tail(requests) \in Seq(RequestType)
      BY FirstRequest DEF Receive, RefuseLine, ReceivePart, SendHeartbeat, EndWork
    <2> HIDE DEF TypesOK
    <2> QED BY <2>1, RequestFields
  <1>2. CASE Receive
    BY <1>1, <1>2 DEF Receive
  <1>3. CASE RefuseLine
    <2>1. replies' \in Seq(ReplyType)
      <3>1. Refusal(Head(requests).call) \in ReplyType /\ Refusal(NoId) \in ReplyType
        BY <1>1, RefusalTypes
      <3>2. \/ replies' = Written(replies, Refusal(Head(requests).call))
            \/ replies' = Written(replies, Refusal(NoId))
            \/ replies' = Written(Written(replies, Refusal(NoId)), Refusal(NoId))
        BY <1>3 DEF RefuseLine, Write
      <3>3. \A id \in {Head(requests).call, NoId}, s \in Seq(ReplyType) :
              Written(s, Refusal(id)) \in Seq(ReplyType)
        BY <3>1, WrittenReplies
      <3> QED BY <3>2, <3>3
    <2>2. partial' \in 0 .. MaxMessage + 1
      BY <1>3, CallAssumption DEF RefuseLine
    <2> QED BY <1>1, <1>3, <2>1, <2>2 DEF RefuseLine
  <1>4. CASE ReceivePart
    <2>1. replies' \in Seq(ReplyType)
      <3>1. Refusal(NoId) \in ReplyType
        BY RefusalTypes
      <3> QED BY <1>4, <3>1, WrittenReplies DEF ReceivePart, Write
    <2>2. partial' \in 0 .. MaxMessage + 1
      <3>1. MaxMessage \in Nat /\ partial \in 0 .. MaxMessage + 1 /\ Head(requests).bytes \in 1 .. MaxMessage + 1
        BY <1>1, ConstantTypes
      <3> HIDE DEF TypesOK
      <3>2. LET joined == partial + Head(requests).bytes IN
            \/ joined < MaxMessage + 2 /\ partial' = joined
            \/ joined >= MaxMessage + 2 /\ partial' = joined - (MaxMessage + 2)
        BY <1>4 DEF ReceivePart, Joined
      <3> QED BY <3>1, <3>2
    <2> QED BY <1>1, <1>4, <2>1, <2>2 DEF ReceivePart
  <1>5. CASE SendHeartbeat
    <2>1. Message(Head(requests).call, Heartbeat) \in ReplyType
      BY <1>1, PlainMessages
    <2>2. replies' \in Seq(ReplyType)
      BY <1>5, <2>1, WrittenReplies DEF SendHeartbeat, Write
    <2> QED BY <1>5, <2>2 DEF SendHeartbeat
  <1>6. CASE EndWork
    <2>1. PICK d \in DirectOutcomes(Head(requests).commands) :
            /\ direct' = [direct EXCEPT ![Head(requests).call] = d]
            /\ IF Encodable(d.size)
               THEN /\ Write(Message(Head(requests).call, Arrived(d)))
                    /\ requests' = Tail(requests) /\ UNCHANGED closed
               ELSE Write(End) /\ requests' = <<>> /\ closed' = TRUE
      BY <1>6 DEF EndWork
    <2>2. d \in OutcomeType /\ Arrived(d) \in OutcomeType
      BY <1>1, OutcomesOfBatch, ArrivedOutcome
    <2>3. Message(Head(requests).call, Arrived(d)) \in ReplyType /\ End \in ReplyType
      BY <1>1, <2>2, PlainMessages
    <2>4. replies' \in Seq(ReplyType)
      BY <2>1, <2>3, WrittenReplies DEF Write
    <2>5. requests' \in Seq(RequestType) /\ closed' \in BOOLEAN
      BY <1>1, <2>1, EmptySeq
    <2>6. direct' \in [1 .. MaxCalls -> OutcomeType]
      BY <2>1, <2>2
    <2> QED BY <1>6, <2>4, <2>5, <2>6 DEF EndWork
  <1> QED BY <1>2, <1>3, <1>4, <1>5, <1>6

LEMMA LinkTypes ==
  ASSUME TypesOK, LinkBreaks
  PROVE  /\ TypesOK'
         /\ In(requests') \subseteq In(requests) /\ Len(requests') <= Len(requests)
         /\ \A i \in 1 .. Len(requests') : requests'[i] = requests[i]
         /\ In(replies') \subseteq In(replies) \cup {Fragment, End}
  <1> USE DEF TypesOK
  <1>1. PICK i \in 0 .. Len(replies) :
          \/ replies' = Append(SubSeq(replies, 1, i), End)
          \/ replies' = Append(Append(SubSeq(replies, 1, i), Fragment), End)
    BY DEF LinkBreaks
  <1>2. PICK j \in (IF running THEN 1 ELSE 0) .. Len(requests) : requests' = SubSeq(requests, 1, j)
    BY DEF LinkBreaks
  <1>3. replies' \in Seq(ReplyType) /\ In(replies') \subseteq In(replies) \cup {Fragment, End}
    <2>1. /\ SubSeq(replies, 1, i) \in Seq(ReplyType)
          /\ In(SubSeq(replies, 1, i)) \subseteq In(replies)
      BY InSubSeq
    <2>2. Fragment \in ReplyType /\ End \in ReplyType
      BY PlainMessages
    <2> DEFINE kept == SubSeq(replies, 1, i)
    <2>a. kept \in Seq(ReplyType) /\ In(kept) \subseteq In(replies)
      BY <2>1
    <2> HIDE DEF kept
    <2>3. /\ Append(kept, Fragment) \in Seq(ReplyType)
          /\ In(Append(kept, Fragment)) \subseteq In(replies) \cup {Fragment}
      <3>1. In(Append(kept, Fragment)) = In(kept) \cup {Fragment} /\ Append(kept, Fragment) \in Seq(ReplyType)
        BY <2>a, <2>2, InAppend
      <3> QED BY <3>1, <2>a
    <2>4. \A s \in Seq(ReplyType) : Append(s, End) \in Seq(ReplyType)
                                    /\ In(Append(s, End)) = In(s) \cup {End}
      BY <2>2, InAppend
    <2>5. replies' = Append(kept, End) \/ replies' = Append(Append(kept, Fragment), End)
      BY <1>1 DEF kept
    <2> QED BY <2>a, <2>3, <2>4, <2>5
  <1>4. /\ requests' \in Seq(RequestType) /\ Len(requests') = j
        /\ In(requests') \subseteq In(requests)
        /\ \A k \in 1 .. j : requests'[k] = requests[k]
    <2>1. j \in 0 .. Len(requests)
      BY <1>2
    <2> QED BY <1>2, <2>1, InSubSeq
  <1>5. running => requests' # <<>>
    <2>1. running => Len(requests') # 0
      BY <1>2, <1>4
    <2> QED BY <2>1
  <1>6. UNCHANGED <<clientVars, serverVars>> /\ closed' = TRUE
    BY DEF LinkBreaks
  <1>7. TypesOK'
    BY <1>3, <1>4, <1>5, <1>6 DEF clientVars, serverVars
  <1>8. Len(requests') <= Len(requests)
    <2>1. Len(requests) \in Nat
      BY LenProperties
    <2> QED BY <1>2, <1>4, <2>1
  <1> HIDE DEF TypesOK
  <1> QED BY <1>3, <1>4, <1>7, <1>8

LEMMA TickTypes ==
  ASSUME TypesOK, Tick
  PROVE  TypesOK' /\ Len(requests') = Len(requests) /\ Len(replies') = Len(replies)
  <1>1. /\ requests' \in Seq(RequestType) /\ Len(requests') = Len(requests)
        /\ replies' \in Seq(ReplyType) /\ Len(replies') = Len(replies)
    BY OlderRequests, OlderReplies DEF Tick, TypesOK
  <1>2. running => requests' # <<>>
    BY <1>1, EmptySeq, LenProperties DEF TypesOK
  <1> QED BY <1>1, <1>2 DEF Tick, callVars, TypesOK

LEMMA TypesNext == TypesOK /\ [Next]_vars => TypesOK'
  <1>1. TypesOK /\ UNCHANGED vars => TypesOK'
    BY DEF vars, TypesOK
  <1> QED BY <1>1, ClientTypes, ServerTypes, LinkTypes, TickTypes DEF Next

LEMMA TypesInit == Init => TypesOK
  <1> SUFFICES ASSUME Init PROVE TypesOK
    OBVIOUS
  <1>1. NotRun \in OutcomeType
    BY FailureType DEF NotRun, Classes
  <1>2. 0 \in 0 .. MaxCalls /\ 0 \in 0 .. MaxMessage + 1
    BY ConstantTypes
  <1> QED BY <1>1, <1>2, EmptySeq DEF Init, TypesOK

-------------------------------------------------------------------------------
(* What earlier calls have left of their requests and responses.           *)
Pending(n) == \E i \in 1 .. Len(requests) : requests[i].call = n

ResultOK(n) ==
  \/ result[n] = NotRun
  \/ result[n] \in {Failure("KeyboardInterrupt"), Failure("GatewayProtocolError")}
  \/ result[n] = Failure("GatewayConnectionError") /\ (latched \/ closed)
  \/ result[n] = Failure("GatewayConnectionError") /\ direct[n] = NotRun /\ ~ Pending(n)
  \/ direct[n] # NotRun /\ result[n] = Own(n)

OwnResponse(m) ==
  /\ m.id \in 1 .. calls /\ direct[m.id] # NotRun /\ Encodable(direct[m.id].size)
  /\ m.says = Arrived(direct[m.id])

ReplyOK(m) ==
  \/ m.says = Failure("heartbeat")
  \/ m.says = Failure("GatewayProtocolError")
  \/ m.says = Failure("fragment") /\ m.id = NoId
  \/ m.says = Failure("end") /\ closed
  \/ OwnResponse(m)

RequestsOK ==
  /\ \A i \in 1 .. Len(requests) :
       requests[i].call \in 1 .. calls /\ direct[requests[i].call] = NotRun
  /\ \A i, j \in 1 .. Len(requests) : i < j => requests[i].call < requests[j].call

HistoryInv ==
  /\ \A n \in 1 .. MaxCalls : n > calls => result[n] = NotRun /\ direct[n] = NotRun
  /\ waiting => result[calls] = NotRun /\ ~ latched
  /\ \A n \in 1 .. MaxCalls : ResultOK(n)
  /\ \A n \in 1 .. MaxCalls : DirectOK(direct[n])
  /\ RequestsOK
  /\ \A m \in In(replies) : ReplyOK(m)

LEMMA Classified ==
  /\ \A c \in {"KeyboardInterrupt", "GatewayProtocolError", "GatewayConnectionError"} :
       Failure(c).class = c /\ Failure(c) # NotRun
       /\ c \notin Canonical \cup {"values", "GatewayInternalError"}
  /\ Failure("GatewayInternalError").class = "GatewayInternalError"
  /\ Failure("GatewayInternalError").class # "GatewayProtocolError"
  /\ "GatewayProtocolError" \notin Canonical \cup {"values"}
  /\ "KeyboardInterrupt" \notin Canonical \cup {"values"}
  BY DEF Failure, Outcome, NotRun, Canonical

(* An outcome that has arrived is neither a refusal nor a heartbeat.       *)
LEMMA ResponseClass ==
  ASSUME NEW d, DirectOK(d), d # NotRun
  PROVE  \A c \in {"heartbeat", "fragment", "end", "none", "GatewayProtocolError",
                   "KeyboardInterrupt", "GatewayConnectionError"} : Arrived(d) # Failure(c)
  <1>1. Arrived(d).class \in Canonical \cup {"values", "GatewayInternalError"}
    BY ArrivedOutcome
  <1>2. \A c \in {"heartbeat", "fragment", "end", "none", "GatewayProtocolError",
                  "KeyboardInterrupt", "GatewayConnectionError"} :
          Failure(c).class \notin Canonical \cup {"values", "GatewayInternalError"}
    BY DEF Failure, Outcome, Canonical
  <1> QED BY <1>1, <1>2

LEMMA HistoryInit == Init => HistoryInv
  <1> SUFFICES ASSUME Init PROVE HistoryInv
    OBVIOUS
  <1>1. Len(requests) = 0 /\ Len(replies) = 0
    BY EmptySeq DEF Init
  <1> QED BY <1>1 DEF Init, HistoryInv, ResultOK, DirectOK, RequestsOK, In

(* The invariant says SameAsDirect.                                        *)
LEMMA HistorySame == TypesOK /\ HistoryInv => SameAsDirect
  <1> SUFFICES ASSUME TypesOK, HistoryInv, NEW n \in 1 .. calls
               PROVE  /\ result[n].class \in Canonical \cup {"values", "GatewayInternalError"}
                           => direct[n] # NotRun
                      /\ Ended(n) /\ direct[n] # NotRun /\ result[n] # Own(n) =>
                           \/ result[n].class \in {"KeyboardInterrupt", "GatewayProtocolError"}
                           \/ result[n].class = "GatewayConnectionError" /\ (latched \/ closed)
    BY DEF SameAsDirect
  <1>1. n \in 1 .. MaxCalls
    BY CallsRange
  <1>2. ResultOK(n)
    BY <1>1 DEF HistoryInv
  <1>3. NotRun.class \notin Canonical \cup {"values", "GatewayInternalError"}
    BY DEF NotRun, Failure, Outcome, Canonical
  <1> QED BY <1>2, <1>3, Classified DEF ResultOK, Ended

(* A call ends, one that waited or one that has just begun.                *)
LEMMA FinishHistory ==
  ASSUME TypesOK, HistoryInv, NEW o, calls' \in {calls, calls + 1}, calls' \in 1 .. MaxCalls,
         Finish(calls', o), UNCHANGED <<direct, closed>>, latched => latched',
         RequestsOK', In(replies') \subseteq In(replies),
         \A n \in 1 .. MaxCalls : n = calls' => ResultOK(n)',
         \A n \in 1 .. MaxCalls : n # calls' /\ Pending(n)' => Pending(n)
  PROVE  HistoryInv'
  <1>1. /\ calls \in Nat /\ calls' \in Nat /\ MaxCalls \in Nat
        /\ calls' >= calls /\ waiting' = FALSE
        /\ \A n \in 1 .. MaxCalls : n # calls' => result'[n] = result[n]
    <2>1. waiting' = FALSE /\ \A n \in 1 .. MaxCalls : n # calls' => result'[n] = result[n]
      BY DEF TypesOK, Finish
    <2> QED BY <2>1, CallsRange
  <1>2. \A n \in 1 .. MaxCalls : n > calls' => result'[n] = NotRun /\ direct'[n] = NotRun
    BY <1>1 DEF HistoryInv
  <1>3. \A n \in 1 .. MaxCalls : ResultOK(n)'
    <2> TAKE n \in 1 .. MaxCalls
    <2>1. CASE n # calls'
      <3>1. ResultOK(n) /\ result'[n] = result[n] /\ (Pending(n)' => Pending(n))
        BY <1>1, <2>1 DEF HistoryInv
      <3> QED BY <3>1 DEF ResultOK, Own
    <2> QED BY <2>1
  <1>4. \A m \in In(replies') : ReplyOK(m)'
    <2> SUFFICES ASSUME NEW m \in In(replies') PROVE ReplyOK(m)'
      OBVIOUS
    <2>1. ReplyOK(m)
      BY DEF HistoryInv
    <2>2. m.id \in 1 .. calls => m.id \in 1 .. calls'
      BY <1>1
    <2> QED BY <2>1, <2>2 DEF ReplyOK, OwnResponse
  <1>5. \A n \in 1 .. MaxCalls : DirectOK(direct'[n])
    BY DEF HistoryInv
  <1> QED BY <1>1, <1>2, <1>3, <1>4, <1>5 DEF HistoryInv

(* A request joins those that the handler has not dealt with.              *)
LEMMA SentRequests ==
  ASSUME TypesOK, HistoryInv, NewCall, NEW m \in RequestType, m.call = calls + 1,
         requests' = Append(requests, m), UNCHANGED direct
  PROVE  /\ RequestsOK'
         /\ \A n \in 1 .. MaxCalls : n # calls' /\ Pending(n)' => Pending(n)
         /\ \A n \in 1 .. MaxCalls : n = calls' => Pending(n)'
  <1>1. /\ Len(requests) \in Nat /\ Len(requests') = Len(requests) + 1
        /\ requests'[Len(requests) + 1] = m
        /\ \A i \in 1 .. Len(requests) : requests'[i] = requests[i]
    BY AppendProperties, LenProperties DEF TypesOK
  <1>2. calls' = calls + 1 /\ calls' \in 1 .. MaxCalls /\ calls \in 0 .. MaxCalls
    BY NewCallTypes
  <1>3. /\ \A i \in 1 .. Len(requests) :
             requests[i].call \in 1 .. calls /\ direct[requests[i].call] = NotRun
        /\ \A i, j \in 1 .. Len(requests) : i < j => requests[i].call < requests[j].call
        /\ direct[calls'] = NotRun
    BY <1>2 DEF HistoryInv, RequestsOK
  <1>4. RequestsOK'
    <2>1. \A i \in 1 .. Len(requests') :
            requests'[i].call \in 1 .. calls' /\ direct'[requests'[i].call] = NotRun
      <3> SUFFICES ASSUME NEW i \in 1 .. Len(requests')
                   PROVE  requests'[i].call \in 1 .. calls' /\ direct'[requests'[i].call] = NotRun
        OBVIOUS
      <3>1. CASE i = Len(requests) + 1
        BY <1>1, <1>2, <1>3, <3>1
      <3>2. CASE i \in 1 .. Len(requests)
        BY <1>1, <1>2, <1>3, <3>2
      <3> QED BY <1>1, <3>1, <3>2
    <2>2. \A i, j \in 1 .. Len(requests') : i < j => requests'[i].call < requests'[j].call
      <3> SUFFICES ASSUME NEW i \in 1 .. Len(requests'), NEW j \in 1 .. Len(requests'), i < j
                   PROVE  requests'[i].call < requests'[j].call
        OBVIOUS
      <3>1. i \in 1 .. Len(requests)
        BY <1>1
      <3>2. CASE j = Len(requests) + 1
        BY <1>1, <1>2, <1>3, <3>1, <3>2
      <3>3. CASE j \in 1 .. Len(requests)
        BY <1>1, <1>3, <3>1, <3>3
      <3> QED BY <1>1, <3>2, <3>3
    <2> QED BY <2>1, <2>2 DEF RequestsOK
  <1>5. \A n \in 1 .. MaxCalls : n # calls' /\ Pending(n)' => Pending(n)
    <2> SUFFICES ASSUME NEW n \in 1 .. MaxCalls, n # calls',
                        NEW i \in 1 .. Len(requests'), requests'[i].call = n
                 PROVE  Pending(n)
      BY DEF Pending
    <2>1. i \in 1 .. Len(requests)
      BY <1>1, <1>2
    <2> QED BY <1>1, <2>1 DEF Pending
  <1>6. \A n \in 1 .. MaxCalls : n = calls' => Pending(n)'
    <2>1. Len(requests) + 1 \in 1 .. Len(requests') /\ requests'[Len(requests) + 1].call = calls'
      BY <1>1, <1>2
    <2> QED BY <2>1 DEF Pending
  <1> QED BY <1>4, <1>5, <1>6

(* Nothing new is pending while nothing is sent.                           *)
LEMMA KeptRequests ==
  ASSUME TypesOK, HistoryInv, calls' \in Nat, calls' >= calls, UNCHANGED <<requests, direct>>
  PROVE  RequestsOK' /\ \A n : Pending(n)' <=> Pending(n)
  <1>1. calls \in Nat
    BY DEF TypesOK
  <1>2. RequestsOK
    BY DEF HistoryInv
  <1>3. \A c \in 1 .. calls : c \in 1 .. calls'
    BY <1>1
  <1>4. \A n : Pending(n)' <=> Pending(n)
    BY DEF Pending
  <1> QED BY <1>2, <1>3, <1>4 DEF RequestsOK

LEMMA CallHistory ==
  ASSUME TypesOK, HistoryInv, Refuse \/ SendFails \/ Send
  PROVE  HistoryInv'
  <1>1. calls' = calls + 1 /\ calls' \in 1 .. MaxCalls /\ calls \in 0 .. MaxCalls /\ NewCall
    BY NewCallTypes DEF Refuse, SendFails, Send
  <1>2. calls' \in Nat /\ calls' >= calls /\ calls' > calls
    BY <1>1
  <1>3. direct[calls'] = NotRun /\ ~ Pending(calls')
    <2>1. direct[calls'] = NotRun
      BY <1>1, <1>2 DEF HistoryInv
    <2>2. \A i \in 1 .. Len(requests) : requests[i].call \in 1 .. calls
      BY DEF HistoryInv, RequestsOK
    <2>3. calls' \notin 1 .. calls
      BY <1>1
    <2> QED BY <2>1, <2>2, <2>3 DEF Pending
  <1>4. CASE Refuse \/ SendFails
    <2>1. /\ \E c \in {"GatewayProtocolError", "GatewayConnectionError", "KeyboardInterrupt"} :
               Finish(calls', Failure(c))
          /\ UNCHANGED <<timeout, latched, closed, requests, replies, serverVars>>
      BY <1>4 DEF Refuse, SendFails
    <2>2. PICK c \in {"GatewayProtocolError", "GatewayConnectionError", "KeyboardInterrupt"} :
            Finish(calls', Failure(c))
      BY <2>1
    <2>3. UNCHANGED <<latched, closed, requests, replies, direct>>
      BY <2>1 DEF serverVars
    <2>4. RequestsOK' /\ \A n : Pending(n)' <=> Pending(n)
      BY <1>2, <2>3, KeptRequests
    <2>5. result'[calls'] = Failure(c)
      BY <1>1, <2>2 DEF Finish, TypesOK
    <2>6. \A n \in 1 .. MaxCalls : n = calls' => ResultOK(n)'
      BY <1>3, <2>3, <2>4, <2>5 DEF ResultOK
    <2>7. In(replies') \subseteq In(replies)
      BY <2>3
    <2> QED BY <1>1, <2>2, <2>3, <2>4, <2>6, <2>7, FinishHistory
  <1>5. CASE Send
    <2>1. PICK r \in Requests, sent \in 1 .. MaxMessage + 1 :
            /\ requests' = IF closed THEN requests
                           ELSE Append(requests, [call |-> calls + 1, commands |-> r.commands,
                                         bytes |-> sent, whole |-> sent = r.size + 1, age |-> 0])
            /\ IF latched THEN Finish(calls + 1, Failure("GatewayConnectionError"))
               ELSE waiting' = TRUE /\ cut' = (sent # r.size + 1) /\ silent' = 0 /\ UNCHANGED result
      BY <1>5 DEF Send
    <2>2. UNCHANGED <<latched, closed, replies, direct>>
      BY <1>5 DEF Send, serverVars
    <2> DEFINE m == [call |-> calls + 1, commands |-> r.commands, bytes |-> sent,
                     whole |-> sent = r.size + 1, age |-> 0]
    <2>3. m \in RequestType /\ m.call = calls + 1
      <3>1. r.commands \in Nat /\ 0 \in 0 .. Latency
        BY CallAssumption DEF Requests
      <3> QED BY <1>1, <3>1 DEF RequestType
    <2>4. requests' = IF closed THEN requests ELSE Append(requests, m)
      BY <2>1
    <2> HIDE DEF m
    <2>5. RequestsOK' /\ \A n \in 1 .. MaxCalls : n # calls' /\ Pending(n)' => Pending(n)
      BY <1>1, <1>2, <2>2, <2>3, <2>4, KeptRequests, SentRequests
    <2>6. In(replies') \subseteq In(replies)
      BY <2>2
    <2>7. CASE latched
      <3>1. Finish(calls', Failure("GatewayConnectionError"))
        BY <1>1, <2>1, <2>7
      <3>2. result'[calls'] = Failure("GatewayConnectionError")
        BY <1>1, <3>1 DEF Finish, TypesOK
      <3>3. \A n \in 1 .. MaxCalls : n = calls' => ResultOK(n)'
        BY <2>2, <2>7, <3>2 DEF ResultOK
      <3> QED BY <1>1, <2>2, <2>5, <2>6, <3>1, <3>3, FinishHistory
    <2>8. CASE ~ latched
      <3>1. waiting' /\ UNCHANGED result
        BY <2>1, <2>8
      <3>2. \A n \in 1 .. MaxCalls : n > calls' => result'[n] = NotRun /\ direct'[n] = NotRun
        BY <1>1, <2>2, <3>1 DEF HistoryInv
      <3>3. result'[calls'] = NotRun
        BY <1>1, <1>2, <3>1 DEF HistoryInv
      <3>4. \A n \in 1 .. MaxCalls : ResultOK(n)'
        <4> TAKE n \in 1 .. MaxCalls
        <4>1. CASE n = calls'
          BY <3>3, <4>1 DEF ResultOK
        <4>2. CASE n # calls'
          <5>1. ResultOK(n) /\ (Pending(n)' => Pending(n))
            BY <2>5, <4>2 DEF HistoryInv
          <5> QED BY <2>2, <3>1, <5>1 DEF ResultOK, Own
        <4> QED BY <4>1, <4>2
      <3>5. \A n \in 1 .. MaxCalls : DirectOK(direct'[n])
        BY <2>2 DEF HistoryInv
      <3>6. \A o \in In(replies') : ReplyOK(o)'
        <4> TAKE o \in In(replies')
        <4>1. ReplyOK(o)
          BY <2>6 DEF HistoryInv
        <4>2. o.id \in 1 .. calls => o.id \in 1 .. calls'
          BY <1>1
        <4> QED BY <2>2, <4>1, <4>2 DEF ReplyOK, OwnResponse
      <3> QED BY <2>2, <2>5, <2>8, <3>2, <3>3, <3>4, <3>5, <3>6 DEF HistoryInv
    <2> QED BY <2>7, <2>8
  <1> QED BY <1>4, <1>5

LEMMA EndHistory ==
  ASSUME TypesOK, HistoryInv, ReadReply \/ ReadEnd \/ TimeOut \/ Interrupt
  PROVE  HistoryInv'
  <1>1. calls \in 1 .. MaxCalls /\ calls' = calls /\ waiting
    <2>1. calls' = calls /\ waiting
      BY DEF ReadReply, ReadEnd, TimeOut, Interrupt, callVars
    <2> QED BY <2>1, CallsRange
  <1>2. /\ calls' \in {calls, calls + 1} /\ calls' \in 1 .. MaxCalls /\ calls' \in Nat
        /\ calls' >= calls /\ latched => latched'
        /\ UNCHANGED <<requests, direct, closed>>
    BY <1>1 DEF ReadReply, ReadEnd, TimeOut, Interrupt, serverVars
  <1>3. RequestsOK' /\ \A n : Pending(n)' <=> Pending(n)
    BY <1>2, KeptRequests
  <1>4. In(replies') \subseteq In(replies)
    BY InTail DEF ReadReply, ReadEnd, TimeOut, Interrupt, TypesOK
  <1>5. replies # <<>> => ReplyOK(Head(replies))
    BY InTail DEF TypesOK, HistoryInv
  <1>6. PICK o \in OutcomeType : /\ Finish(calls, o)
             /\ \/ o \in {Failure("KeyboardInterrupt"), Failure("GatewayProtocolError")}
                \/ o = Failure("GatewayConnectionError") /\ (latched' \/ closed)
                \/ direct[calls] # NotRun /\ o = Own(calls)
    <2>0. \A c \in {"KeyboardInterrupt", "GatewayProtocolError", "GatewayConnectionError"} :
            Failure(c) \in OutcomeType
      BY FailureType DEF Classes, EndClasses, GatewayErrors
    <2>1. CASE ReadReply
      <3> DEFINE m == Head(replies)
      <3>1. /\ replies # <<>> /\ m.says # End.says /\ ~ OwnHeartbeat(m)
            /\ Finish(calls, IF Mine(m) /\ Readable(m.says.size) THEN m.says
                             ELSE Failure("GatewayProtocolError"))
        BY <2>1 DEF ReadReply
      <3>2. ReplyOK(m)
        BY <1>5, <3>1
      <3> HIDE DEF m
      <3>3. CASE Mine(m) /\ Readable(m.says.size)
        <4>1. m.id = calls /\ m.id # NoId
          BY <1>1, <3>3 DEF Mine, NoId
        <4>2. m.says # Failure("heartbeat") /\ m.says # Failure("end")
          BY <3>1, <3>3, PlainMessages DEF OwnHeartbeat
        <4>3. m.says = Failure("GatewayProtocolError") \/ OwnResponse(m)
          BY <3>2, <4>1, <4>2 DEF ReplyOK
        <4>4. CASE OwnResponse(m)
          <5>1. direct[calls] # NotRun /\ m.says = Arrived(direct[calls]) /\ DirectOK(direct[calls])
            BY <1>1, <4>1, <4>4 DEF OwnResponse, HistoryInv
          <5>2. m.says = Own(calls) /\ m.says \in OutcomeType
            BY <5>1, ArrivedOutcome DEF Own
          <5> QED BY <3>1, <3>3, <5>1, <5>2
        <4> QED BY <2>0, <3>1, <3>3, <4>3, <4>4
      <3>4. CASE ~ (Mine(m) /\ Readable(m.says.size))
        BY <2>0, <3>1, <3>4
      <3> QED BY <3>3, <3>4
    <2>2. CASE ReadEnd
      <3>1. ReplyOK(Head(replies)) /\ Head(replies).says = Failure("end")
        BY <1>5, <2>2, PlainMessages DEF ReadEnd
      <3>2. closed
        <4>1. Failure("end") # Failure("heartbeat") /\ Failure("end") # Failure("GatewayProtocolError")
              /\ Failure("end") # Failure("fragment")
          BY DEF Failure, Outcome
        <4>2. ~ OwnResponse(Head(replies))
          <5> SUFFICES ASSUME OwnResponse(Head(replies)) PROVE FALSE
            OBVIOUS
          <5> DEFINE n == Head(replies).id
          <5>1. n \in 1 .. MaxCalls /\ direct[n] # NotRun /\ Failure("end") = Arrived(direct[n])
            <6>1. n \in 1 .. calls /\ direct[n] # NotRun /\ Failure("end") = Arrived(direct[n])
              BY <3>1 DEF OwnResponse
            <6> HIDE DEF n
            <6>2. n \in 1 .. MaxCalls
              BY <1>1, <6>1, ConstantTypes
            <6> QED BY <6>1, <6>2
          <5> HIDE DEF n
          <5>2. DirectOK(direct[n])
            BY <5>1 DEF HistoryInv
          <5> QED BY <5>1, <5>2, ResponseClass
        <4> QED BY <3>1, <4>1, <4>2 DEF ReplyOK
      <3> QED BY <2>0, <2>2, <3>2 DEF ReadEnd
    <2>3. CASE TimeOut \/ Interrupt
      BY <2>0, <2>3 DEF TimeOut, Interrupt
    <2> QED BY <2>1, <2>2, <2>3
  <1>7. result'[calls] = o
    BY <1>1, <1>6 DEF Finish, TypesOK
  <1>8. \A n \in 1 .. MaxCalls : n = calls' => ResultOK(n)'
    BY <1>1, <1>2, <1>6, <1>7 DEF ResultOK, Own
  <1>9. Finish(calls', o)
    BY <1>1, <1>6
  <1> QED BY <1>2, <1>3, <1>4, <1>8, <1>9, FinishHistory

(* What one request of those that are sent is like.                        *)
LEMMA TheRequest ==
  ASSUME TypesOK, HistoryInv, requests # <<>>, NEW n, n = Head(requests).call
  PROVE  /\ n \in 1 .. calls /\ n \in 1 .. MaxCalls /\ direct[n] = NotRun /\ Pending(n)
         /\ \/ result[n] = NotRun
            \/ result[n] \in {Failure("KeyboardInterrupt"), Failure("GatewayProtocolError")}
            \/ result[n] = Failure("GatewayConnectionError") /\ (latched \/ closed)
  <1>1. /\ requests[1] = Head(requests) /\ 1 \in 1 .. Len(requests) /\ Head(requests) \in RequestType
    BY FirstRequest DEF TypesOK
  <1>2. n \in 1 .. calls /\ direct[n] = NotRun /\ Pending(n)
    BY <1>1 DEF HistoryInv, RequestsOK, Pending
  <1>3. n \in 1 .. MaxCalls
    BY <1>1, RequestFields
  <1>4. ResultOK(n)
    BY <1>3 DEF HistoryInv
  <1>5. ~ (result[n] = Failure("GatewayConnectionError") /\ direct[n] = NotRun /\ ~ Pending(n))
        /\ ~ (direct[n] # NotRun /\ result[n] = Own(n))
    BY <1>2, Zenon
  <1> QED BY <1>2, <1>3, <1>4, <1>5, Zenon DEF ResultOK

(* The handler deals with the first request, whose batch may have run now. *)
LEMMA TakenHistory ==
  ASSUME TypesOK, HistoryInv, requests # <<>>,
         UNCHANGED <<calls, result, waiting, latched>>, closed => closed',
         requests' \in {Tail(requests), <<>>},
         NEW n, n = Head(requests).call, NEW d, DirectOK(d),
         direct' = direct \/ direct' = [direct EXCEPT ![n] = d],
         \A m \in In(replies') : m \in In(replies) \/ ReplyOK(m)'
  PROVE  HistoryInv'
  <1>1. /\ n \in 1 .. calls /\ n \in 1 .. MaxCalls /\ direct[n] = NotRun
        /\ \/ result[n] = NotRun
           \/ result[n] \in {Failure("KeyboardInterrupt"), Failure("GatewayProtocolError")}
           \/ result[n] = Failure("GatewayConnectionError") /\ (latched \/ closed)
    BY TheRequest
  <1>2. /\ \A k \in 1 .. MaxCalls : k # n => direct'[k] = direct[k]
        /\ direct'[n] = d \/ direct'[n] = direct[n]
    BY <1>1 DEF TypesOK
  <1>3. /\ \A i \in 1 .. Len(requests') : i + 1 \in 1 .. Len(requests) /\ requests'[i] = requests[i + 1]
        /\ 1 \in 1 .. Len(requests) /\ requests[1].call = n /\ Len(requests') \in Nat
        /\ \A i \in 1 .. Len(requests) : requests[i].call \in 1 .. MaxCalls
    <2>1. /\ Len(requests) \in Nat \ {0} /\ Len(Tail(requests)) = Len(requests) - 1
          /\ \A i \in 1 .. Len(requests) - 1 : Tail(requests)[i] = requests[i + 1]
          /\ requests[1].call = n /\ \A i \in 1 .. Len(requests) : requests[i] \in RequestType
      BY FirstRequest DEF TypesOK
    <2>2. Len(<<>>) = 0
      BY EmptySeq
    <2>3. \A i \in 1 .. Len(requests) : requests[i].call \in 1 .. MaxCalls
      BY <2>1, RequestFields
    <2>4. CASE requests' = <<>>
      BY <2>1, <2>2, <2>3, <2>4
    <2>5. CASE requests' = Tail(requests)
      BY <2>1, <2>3, <2>5
    <2> QED BY <2>4, <2>5
  <1>4. RequestsOK
    BY DEF HistoryInv
  <1>5. RequestsOK'
    <2>1. \A i \in 1 .. Len(requests') : requests'[i].call \in 1 .. calls /\ requests'[i].call # n
                                         /\ direct'[requests'[i].call] = NotRun
      <3> SUFFICES ASSUME NEW i \in 1 .. Len(requests')
                   PROVE  requests'[i].call \in 1 .. calls /\ requests'[i].call # n
                          /\ direct'[requests'[i].call] = NotRun
        OBVIOUS
      <3>1. i + 1 \in 1 .. Len(requests) /\ requests'[i] = requests[i + 1] /\ 1 < i + 1
        BY <1>3
      <3>2. n < requests[i + 1].call /\ requests[i + 1].call \in 1 .. calls
            /\ direct[requests[i + 1].call] = NotRun
        BY <1>3, <1>4, <3>1 DEF RequestsOK
      <3>3. n # requests[i + 1].call /\ requests[i + 1].call \in 1 .. MaxCalls
        BY <1>1, <1>3, <3>1, <3>2
      <3> QED BY <1>2, <3>1, <3>2, <3>3
    <2>2. \A i, j \in 1 .. Len(requests') : i < j => requests'[i].call < requests'[j].call
      <3> TAKE i \in 1 .. Len(requests'), j \in 1 .. Len(requests')
      <3>1. i < j => i + 1 < j + 1
        BY <1>3
      <3> QED BY <1>3, <1>4, <3>1 DEF RequestsOK
    <2> QED BY <2>1, <2>2 DEF RequestsOK
  <1>6. \A k \in 1 .. MaxCalls : Pending(k)' => Pending(k)
    BY <1>3 DEF Pending
  <1>7. \A k \in 1 .. MaxCalls : ResultOK(k)'
    <2> TAKE k \in 1 .. MaxCalls
    <2>1. CASE k = n
      BY <1>1, <2>1 DEF ResultOK
    <2>2. CASE k # n
      <3>1. ResultOK(k) /\ direct'[k] = direct[k] /\ (Pending(k)' => Pending(k))
        BY <1>2, <1>6, <2>2 DEF HistoryInv
      <3> QED BY <3>1 DEF ResultOK, Own
    <2> QED BY <2>1, <2>2
  <1>8. \A k \in 1 .. MaxCalls : k > calls' => result'[k] = NotRun /\ direct'[k] = NotRun
    <2> TAKE k \in 1 .. MaxCalls
    <2>0. calls \in Nat
      BY DEF TypesOK
    <2>1. k > calls => k # n /\ result[k] = NotRun /\ direct[k] = NotRun
      BY <1>1, <2>0 DEF HistoryInv
    <2> QED BY <1>2, <2>1
  <1>9. \A k \in 1 .. MaxCalls : DirectOK(direct'[k])
    <2> TAKE k \in 1 .. MaxCalls
    <2>1. DirectOK(direct[k])
      BY DEF HistoryInv
    <2> QED BY <1>2, <2>1
  <1>10. \A m \in In(replies') : ReplyOK(m)'
    <2> TAKE m \in In(replies')
    <2>1. CASE m \in In(replies)
      <3>1. ReplyOK(m)
        BY <2>1 DEF HistoryInv
      <3>2. CASE OwnResponse(m)
        <4>1. m.id \in 1 .. calls /\ direct[m.id] # NotRun /\ m.id # n
          BY <1>1, <3>2 DEF OwnResponse
        <4>2. m.id \in 1 .. MaxCalls
          <5>1. calls \in 0 .. MaxCalls
            BY DEF TypesOK
          <5> QED BY <4>1, <5>1, ConstantTypes
        <4>3. direct'[m.id] = direct[m.id]
          BY <1>2, <4>1, <4>2
        <4> QED BY <3>2, <4>3 DEF ReplyOK, OwnResponse
      <3> QED BY <3>1, <3>2 DEF ReplyOK
    <2> QED BY <2>1
  <1> QED BY <1>5, <1>7, <1>8, <1>9, <1>10 DEF HistoryInv

LEMMA ServerHistory ==
  ASSUME TypesOK, HistoryInv, RefuseLine \/ ReceivePart \/ EndWork
  PROVE  HistoryInv'
  <1>1. PICK n : n = Head(requests).call
    OBVIOUS
  <1>2. /\ requests # <<>> /\ replies \in Seq(ReplyType) /\ Head(requests) \in RequestType
        /\ n \in 0 .. MaxCalls /\ n \in 1 .. calls
    <2>1. requests # <<>> /\ Head(requests) \in RequestType
      BY FirstRequest DEF RefuseLine, ReceivePart, EndWork, TypesOK
    <2> QED BY <1>1, <2>1, RequestFields, TheRequest DEF TypesOK
  <1>3. \A s \in Seq(ReplyType), m \in ReplyType :
          Written(s, m) \in Seq(ReplyType) /\ In(Written(s, m)) \subseteq In(s) \cup {m}
    BY InAppend DEF Written
  <1>4. DirectOK(NotRun)
    BY DEF DirectOK
  <1>5. CASE RefuseLine \/ ReceivePart
    <2>1. /\ UNCHANGED <<calls, result, waiting, latched, closed, direct>>
          /\ requests' \in {Tail(requests), <<>>}
      BY <1>5 DEF RefuseLine, ReceivePart, clientVars
    <2>2. In(replies') \subseteq In(replies) \cup {Refusal(n), Refusal(NoId)}
      <3>1. \/ replies' = replies \/ replies' = Written(replies, Refusal(n))
            \/ replies' = Written(replies, Refusal(NoId))
            \/ replies' = Written(Written(replies, Refusal(NoId)), Refusal(NoId))
        BY <1>1, <1>5 DEF RefuseLine, ReceivePart, Write
      <3>2. Refusal(n) \in ReplyType /\ Refusal(NoId) \in ReplyType
        BY <1>2, RefusalTypes
      <3>3. /\ In(Written(replies, Refusal(n))) \subseteq In(replies) \cup {Refusal(n)}
            /\ In(Written(replies, Refusal(NoId))) \subseteq In(replies) \cup {Refusal(NoId)}
            /\ Written(replies, Refusal(NoId)) \in Seq(ReplyType)
        BY <1>2, <1>3, <3>2
      <3>4. In(Written(Written(replies, Refusal(NoId)), Refusal(NoId)))
              \subseteq In(replies) \cup {Refusal(NoId)}
        BY <1>3, <3>2, <3>3
      <3> QED BY <3>1, <3>3, <3>4
    <2>3. ReplyOK(Refusal(n))' /\ ReplyOK(Refusal(NoId))'
      BY PlainMessages DEF ReplyOK
    <2>4. \A m \in In(replies') : m \in In(replies) \/ ReplyOK(m)'
      BY <2>2, <2>3
    <2> QED BY <1>1, <1>2, <1>4, <2>1, <2>4, TakenHistory
  <1>6. CASE EndWork
    <2>1. PICK d \in DirectOutcomes(Head(requests).commands) :
            /\ direct' = [direct EXCEPT ![n] = d]
            /\ IF Encodable(d.size)
               THEN /\ Write(Message(n, Arrived(d)))
                    /\ requests' = Tail(requests) /\ UNCHANGED closed
               ELSE Write(End) /\ requests' = <<>> /\ closed' = TRUE
      BY <1>1, <1>6 DEF EndWork
    <2>2. DirectOK(d) /\ d # NotRun /\ Arrived(d) \in OutcomeType
      BY <1>2, RequestFields, OutcomesOfBatch, ArrivedOutcome
    <2>3. UNCHANGED <<calls, result, waiting, latched>> /\ (closed => closed')
      BY <1>6, <2>1 DEF EndWork, clientVars
    <2>4. direct'[n] = d
      <3>1. n \in 1 .. MaxCalls
        BY <1>1, <1>2, RequestFields
      <3> QED BY <2>1, <3>1 DEF TypesOK
    <2>5. \A m \in In(replies') : m \in In(replies) \/ ReplyOK(m)'
      <3>1. CASE Encodable(d.size)
        <4> DEFINE mine == Message(n, Arrived(d))
        <4>1. mine \in ReplyType /\ mine.id = n /\ mine.says = Arrived(d)
          BY <1>2, <2>2, PlainMessages
        <4>2. replies' = Written(replies, mine)
          BY <2>1, <3>1 DEF Write
        <4> HIDE DEF mine
        <4>3. In(replies') \subseteq In(replies) \cup {mine}
          BY <1>2, <1>3, <4>1, <4>2
        <4>4. OwnResponse(mine)'
          <5>1. mine.id \in 1 .. calls' /\ direct'[mine.id] = d
            BY <1>2, <2>3, <2>4, <4>1
          <5> QED BY <2>2, <3>1, <4>1, <5>1 DEF OwnResponse
        <4> QED BY <4>3, <4>4 DEF ReplyOK
      <3>2. CASE ~ Encodable(d.size)
        <4>1. replies' = Written(replies, End) /\ closed' = TRUE
          BY <2>1, <3>2 DEF Write
        <4>2. In(replies') \subseteq In(replies) \cup {End}
          BY <1>2, <1>3, <4>1, PlainMessages
        <4>3. ReplyOK(End)'
          BY <4>1, PlainMessages DEF ReplyOK
        <4> QED BY <4>2, <4>3
      <3> QED BY <3>1, <3>2
    <2>6. requests' \in {Tail(requests), <<>>}
      BY <2>1
    <2> QED BY <1>1, <1>2, <2>1, <2>2, <2>3, <2>5, <2>6, TakenHistory
  <1> QED BY <1>5, <1>6

(* Steps that end no call and deal with no request.                        *)
LEMMA QuietHistory ==
  ASSUME TypesOK, HistoryInv, UNCHANGED <<calls, result, direct, waiting, latched>>,
         closed => closed', Len(requests') \in Nat, Len(requests') <= Len(requests),
         \A i \in 1 .. Len(requests') : requests'[i].call = requests[i].call,
         \A m \in In(replies') : m \in In(replies) \/ ReplyOK(m)'
  PROVE  HistoryInv'
  <1>1. \A i \in 1 .. Len(requests') : i \in 1 .. Len(requests)
    BY LenProperties DEF TypesOK
  <1>2. RequestsOK'
    BY <1>1 DEF HistoryInv, RequestsOK
  <1>3. \A n \in 1 .. MaxCalls : ResultOK(n)'
    <2> TAKE n \in 1 .. MaxCalls
    <2>1. ResultOK(n) /\ (Pending(n)' => Pending(n))
      BY <1>1 DEF HistoryInv, Pending
    <2> QED BY <2>1 DEF ResultOK, Own
  <1>4. \A m \in In(replies') : ReplyOK(m)'
    <2> TAKE m \in In(replies')
    <2>1. ReplyOK(m) => ReplyOK(m)'
      BY DEF ReplyOK, OwnResponse
    <2> QED BY <2>1 DEF HistoryInv
  <1> QED BY <1>2, <1>3, <1>4 DEF HistoryInv

LEMMA HistoryNext == TypesOK /\ HistoryInv /\ [Next]_vars => HistoryInv'
  <1> SUFFICES ASSUME TypesOK, HistoryInv, [Next]_vars PROVE HistoryInv'
    OBVIOUS
  <1>0. /\ requests \in Seq(RequestType) /\ replies \in Seq(ReplyType)
        /\ Len(requests) \in Nat
    BY LenProperties DEF TypesOK
  <1>1. CASE ReadHeartbeat \/ Receive \/ UNCHANGED vars
    <2>1. UNCHANGED <<calls, result, direct, waiting, latched, closed, requests>>
      BY <1>1 DEF ReadHeartbeat, Receive, vars, callVars, clientVars, serverVars
    <2>2. In(replies') \subseteq In(replies)
      BY <1>0, <1>1, InTail DEF ReadHeartbeat, Receive, vars
    <2> QED BY <1>0, <2>1, <2>2, QuietHistory
  <1>2. CASE SendHeartbeat
    <2>1. UNCHANGED <<calls, result, direct, waiting, latched, closed, requests>>
          /\ replies' = Written(replies, Message(Head(requests).call, Heartbeat))
      BY <1>2 DEF SendHeartbeat, Write, clientVars
    <2>a. PICK m : m = Message(Head(requests).call, Heartbeat)
      OBVIOUS
    <2>2. m \in ReplyType /\ m.says = Failure("heartbeat")
      <3>1. running /\ Head(requests).call \in 0 .. MaxCalls
        BY <1>0, <1>2, FirstRequest, RequestFields DEF SendHeartbeat, TypesOK
      <3> QED BY <2>a, <3>1, PlainMessages
    <2>3. In(replies') \subseteq In(replies) \cup {m}
      <3>1. In(Append(replies, m)) = In(replies) \cup {m}
        BY <1>0, <2>2, InAppend
      <3> QED BY <2>a, <2>1, <3>1 DEF Written
    <2>4. ReplyOK(m)'
      BY <2>2 DEF ReplyOK
    <2> QED BY <1>0, <2>1, <2>3, <2>4, QuietHistory
  <1>3. CASE LinkBreaks
    <2>1. UNCHANGED <<calls, result, direct, waiting, latched>> /\ closed' = TRUE
      BY <1>3 DEF LinkBreaks, clientVars, serverVars
    <2>2. /\ requests' \in Seq(RequestType) /\ Len(requests') <= Len(requests)
          /\ \A i \in 1 .. Len(requests') : requests'[i] = requests[i]
          /\ In(replies') \subseteq In(replies) \cup {Fragment, End}
      BY <1>3, LinkTypes DEF TypesOK
    <2>3. Len(requests') \in Nat
      BY <2>2, LenProperties
    <2>4. ReplyOK(Fragment)' /\ ReplyOK(End)'
      BY <2>1, PlainMessages DEF ReplyOK
    <2> QED BY <2>1, <2>2, <2>3, <2>4, QuietHistory
  <1>4. CASE Tick
    <2>1. UNCHANGED <<calls, result, direct, waiting, latched, closed>>
          /\ requests' = Older(requests) /\ replies' = Older(replies)
      BY <1>4 DEF Tick, callVars
    <2>2. /\ Len(requests') = Len(requests)
          /\ \A i \in 1 .. Len(requests) : requests'[i].call = requests[i].call
          /\ Len(replies') = Len(replies)
          /\ \A i \in 1 .. Len(replies) : /\ replies'[i].id = replies[i].id
                                          /\ replies'[i].says = replies[i].says
      BY <1>0, <2>1, OlderRequests, OlderReplies
    <2>3. \A m \in In(replies') : ReplyOK(m)'
      <3> TAKE m \in In(replies')
      <3>1. PICK o \in In(replies) : m.id = o.id /\ m.says = o.says
        BY <2>2 DEF In
      <3>2. ReplyOK(o)
        BY DEF HistoryInv
      <3> QED BY <2>1, <3>1, <3>2 DEF ReplyOK, OwnResponse
    <2> QED BY <1>0, <2>1, <2>2, <2>3, QuietHistory
  <1> QED BY <1>1, <1>2, <1>3, <1>4, CallHistory, EndHistory, ServerHistory DEF Next

(* What execute() through the gateway says of the instrument is what a     *)
(* DirectExecutor has said of the same batch, for every limit, size,       *)
(* timeout and number of calls, and whatever earlier calls have left       *)
(* behind (client.py:69-120, server.py:163-265).                           *)
THEOREM GatewayIsTransparent == Spec => []SameAsDirect
  <1>1. Init => TypesOK /\ HistoryInv
    BY TypesInit, HistoryInit
  <1>2. TypesOK /\ HistoryInv /\ [Next]_vars => TypesOK' /\ HistoryInv'
    BY TypesNext, HistoryNext
  <1>3. TypesOK /\ HistoryInv => SameAsDirect
    BY HistorySame
  <1> QED BY <1>1, <1>2, <1>3, PTL DEF Spec

-------------------------------------------------------------------------------
(* While no call has been interrupted and the stream is read, a session is *)
(* in step: what is in the connection belongs to the call that waits.      *)
Interrupted == \E n \in 1 .. MaxCalls : result[n].class = "KeyboardInterrupt"

Beat(m) == m.id = calls /\ m.says = Failure("heartbeat")

Asked ==
  /\ \A m \in In(replies) : Beat(m)
  /\ \/ Len(requests) = 1 /\ requests[1].call = calls /\ partial = 0
     \/ requests = <<>> /\ partial > 0

LastOK(m) ==
  \/ m.id = calls /\ m.says = Failure("GatewayProtocolError") /\ direct[calls] = NotRun
  \/ m.id = calls /\ OwnResponse(m)

Answered ==
  /\ requests = <<>> /\ partial = 0 /\ replies # <<>>
  /\ \A i \in 1 .. Len(replies) - 1 : Beat(replies[i])
  /\ LastOK(replies[Len(replies)])

Idle == requests = <<>> /\ replies = <<>> /\ partial = 0

InStep ==
  ~ Interrupted /\ ~ closed /\ ~ latched => IF waiting THEN Asked \/ Answered ELSE Idle

RefusedOK ==
  \A n \in 1 .. MaxCalls :
    \/ result[n].class # "GatewayProtocolError" \/ closed
    \/ \E m \in 1 .. n - 1 : result[m].class = "KeyboardInterrupt"
    \/ direct[n] = NotRun /\ ~ Pending(n)

(* A call ends once.                                                       *)
LEMMA EndedKept ==
  ASSUME TypesOK, HistoryInv, [Next]_vars
  PROVE  /\ \A n \in 1 .. MaxCalls : result[n] # NotRun => result'[n] = result[n]
         /\ closed => closed'
         /\ latched => latched'
         /\ Interrupted => Interrupted'
  <1>1. \/ UNCHANGED result
        \/ \E o : Finish(calls', o) /\ calls' = calls + 1 /\ calls' \in 1 .. MaxCalls
        \/ \E o : Finish(calls, o) /\ waiting
    <2>1. CASE Refuse \/ SendFails \/ Send
      <3>1. calls' = calls + 1 /\ calls' \in 1 .. MaxCalls
        BY <2>1, NewCallTypes DEF Refuse, SendFails, Send
      <3> QED BY <2>1, <3>1 DEF Refuse, SendFails, Send
    <2>2. CASE ReadReply \/ ReadEnd \/ TimeOut \/ Interrupt
      BY <2>2 DEF ReadReply, ReadEnd, TimeOut, Interrupt
    <2>3. CASE ~ (Refuse \/ SendFails \/ Send \/ ReadReply \/ ReadEnd \/ TimeOut \/ Interrupt)
      BY <2>3 DEF Next, ReadHeartbeat, Receive, RefuseLine, ReceivePart, SendHeartbeat, EndWork,
                  LinkBreaks, Tick, clientVars, vars
    <2> QED BY <2>1, <2>2, <2>3
  <1>2. \A n \in 1 .. MaxCalls : result[n] # NotRun => result'[n] = result[n]
    <2> SUFFICES ASSUME NEW n \in 1 .. MaxCalls, result[n] # NotRun PROVE result'[n] = result[n]
      OBVIOUS
    <2>1. n # calls + 1 /\ (waiting => n # calls)
      <3>1. calls \in Nat
        BY DEF TypesOK
      <3> QED BY <3>1 DEF HistoryInv
    <2> QED BY <1>1, <2>1 DEF Finish, TypesOK
  <1>3. closed => closed'
    BY DEF Next, Refuse, SendFails, Send, ReadHeartbeat, ReadReply, ReadEnd, TimeOut, Interrupt,
           Receive, RefuseLine, ReceivePart, SendHeartbeat, EndWork, LinkBreaks, Tick, vars
  <1>4. latched => latched'
    BY DEF Next, Refuse, SendFails, Send, ReadHeartbeat, ReadReply, ReadEnd, TimeOut, Interrupt,
           Receive, RefuseLine, ReceivePart, SendHeartbeat, EndWork, LinkBreaks, Tick, vars, clientVars
  <1>5. Interrupted => Interrupted'
    <2>1. NotRun.class # "KeyboardInterrupt"
      BY DEF NotRun, Failure, Outcome
    <2> QED BY <1>2, <2>1 DEF Interrupted
  <1> QED BY <1>2, <1>3, <1>4, <1>5

(* The last reply is neither a heartbeat nor the end of the stream.        *)
LEMMA LastSays ==
  ASSUME TypesOK, HistoryInv, waiting, NEW m, LastOK(m)
  PROVE  /\ m.says # Failure("heartbeat") /\ m.says # Failure("end") /\ m.id = calls
         /\ Mine(m) /\ Readable(m.says.size)
         /\ m.says.class = "GatewayProtocolError" => direct[calls] = NotRun
  <1>1. m.id = calls /\ Mine(m) /\ calls \in 1 .. MaxCalls
    BY CallsRange DEF LastOK, Mine
  <1>2. CASE m.says = Failure("GatewayProtocolError") /\ direct[calls] = NotRun
    <2>1. m.says # Failure("heartbeat") /\ m.says # Failure("end") /\ m.says.size = 0
      BY <1>2 DEF Failure, Outcome
    <2>2. Encodable(0)
      BY CallAssumption DEF Encodable
    <2> QED BY <1>1, <1>2, <2>1, <2>2, EncodableReadable
  <1>3. CASE OwnResponse(m)
    <2>1. /\ direct[calls] # NotRun /\ m.says = Arrived(direct[calls]) /\ DirectOK(direct[calls])
          /\ Encodable(direct[calls].size)
      BY <1>1, <1>3 DEF OwnResponse, HistoryInv
    <2>2. m.says # Failure("heartbeat") /\ m.says # Failure("end")
      BY <2>1, ResponseClass
    <2>3. /\ m.says.size = direct[calls].size /\ direct[calls].size \in Nat
          /\ m.says.class \in Canonical \cup {"values", "GatewayInternalError"}
      <3>1. direct[calls] \in OutcomeType
        BY <1>1 DEF TypesOK
      <3> QED BY <2>1, <3>1, ArrivedOutcome DEF OutcomeType
    <2>4. m.says.class # "GatewayProtocolError"
      BY <2>3, Classified
    <2> QED BY <1>1, <2>1, <2>2, <2>3, <2>4, EncodableReadable
  <1> QED BY <1>1, <1>2, <1>3 DEF LastOK

(* What waits for a session in step to read.                               *)
LEMMA FirstInStep ==
  ASSUME TypesOK, HistoryInv, waiting, Asked \/ Answered, replies # <<>>
  PROVE  \/ Beat(Head(replies)) /\ (Answered => Len(replies) > 1)
         \/ /\ Answered /\ Len(replies) = 1 /\ LastOK(Head(replies)) /\ Tail(replies) = <<>>
            /\ ~ Beat(Head(replies))
  <1>1. /\ Len(replies) \in Nat \ {0} /\ Head(replies) = replies[1]
        /\ Tail(replies) \in Seq(ReplyType) /\ Len(Tail(replies)) = Len(replies) - 1
        /\ Head(replies) \in In(replies)
    BY FirstReply, InTail DEF TypesOK
  <1>2. CASE Asked /\ ~ Answered
    BY <1>1, <1>2 DEF Asked
  <1>3. CASE Answered /\ Len(replies) = 1
    <2>1. LastOK(Head(replies))
      BY <1>1, <1>3 DEF Answered
    <2>2. Tail(replies) = <<>>
      <3>1. Len(Tail(replies)) = 0
        BY <1>1, <1>3
      <3> QED BY <1>1, <3>1, EmptySeq
    <2>3. ~ Beat(Head(replies))
      BY <2>1, LastSays DEF Beat
    <2> QED BY <1>3, <2>1, <2>2, <2>3
  <1>4. CASE Answered /\ Len(replies) # 1
    BY <1>1, <1>4 DEF Answered
  <1> QED BY <1>2, <1>3, <1>4

LEMMA ClientInStep ==
  ASSUME TypesOK, HistoryInv, InStep, ~ Interrupted, ~ closed, ~ latched,
         ~ Interrupted', ~ closed', ~ latched',
         Refuse \/ SendFails \/ Send \/ ReadHeartbeat \/ ReadReply \/ ReadEnd \/ TimeOut \/ Interrupt
  PROVE  IF waiting' THEN (Asked \/ Answered)' ELSE Idle'
  <1>0. IF waiting THEN Asked \/ Answered ELSE Idle
    BY DEF InStep
  <1>1. CASE Refuse \/ SendFails
    BY <1>0, <1>1 DEF Refuse, SendFails, NewCall, Finish, serverVars, Idle
  <1>2. CASE Send
    <2>1. Idle /\ waiting' = TRUE /\ UNCHANGED <<replies, partial>> /\ calls' = calls + 1
      BY <1>0, <1>2 DEF Send, NewCall, serverVars
    <2>2. PICK r \in Requests, sent \in 1 .. MaxMessage + 1 :
            requests' = Append(requests, [call |-> calls + 1, commands |-> r.commands,
                                          bytes |-> sent, whole |-> sent = r.size + 1, age |-> 0])
      BY <1>2 DEF Send
    <2> DEFINE m == [call |-> calls + 1, commands |-> r.commands, bytes |-> sent,
                     whole |-> sent = r.size + 1, age |-> 0]
    <2>3. m.call = calls + 1 /\ requests' = Append(<<>>, m)
      BY <2>1, <2>2 DEF Idle
    <2> HIDE DEF m
    <2>4. Len(requests') = 1 /\ requests'[1] = m
      BY <2>3
    <2>5. Len(replies') = 0
      BY <2>1, EmptySeq DEF Idle
    <2> QED BY <2>1, <2>3, <2>4, <2>5 DEF Asked, Idle, In
  <1>3. CASE ReadHeartbeat
    <2>1. /\ waiting /\ replies # <<>> /\ replies' = Tail(replies)
          /\ UNCHANGED <<calls, waiting, requests, partial, direct>>
          /\ Head(replies).says = Failure("heartbeat")
      BY <1>3, PlainMessages DEF ReadHeartbeat, OwnHeartbeat, callVars, serverVars
    <2>2. Asked \/ Answered
      BY <1>0, <2>1
    <2>3. /\ Len(replies) \in Nat \ {0} /\ In(Tail(replies)) \subseteq In(replies)
          /\ Tail(replies) \in Seq(ReplyType) /\ Len(Tail(replies)) = Len(replies) - 1
          /\ \A i \in 1 .. Len(replies) - 1 : Tail(replies)[i] = replies[i + 1]
      BY <2>1, FirstReply, InTail DEF TypesOK
    <2>4. CASE Asked
      BY <2>1, <2>3, <2>4 DEF Asked, Beat
    <2>5. CASE Answered
      <3>1. Len(replies) > 1
        BY <2>1, <2>2, <2>5, FirstInStep, LastSays
      <3>2. replies' # <<>> /\ Len(replies') = Len(replies) - 1
        BY <2>1, <2>3, <3>1, EmptySeq
      <3>3. replies'[Len(replies')] = replies[Len(replies)]
        BY <2>1, <2>3, <3>1, <3>2
      <3>4. \A i \in 1 .. Len(replies') - 1 : replies'[i] = replies[i + 1] /\ i + 1 \in 1 .. Len(replies) - 1
        BY <2>1, <2>3, <3>2
      <3>5. \A i \in 1 .. Len(replies') - 1 : Beat(replies[i])'
        <4>1. \A i \in 1 .. Len(replies) - 1 : Beat(replies[i])
          BY <2>5 DEF Answered
        <4> QED BY <2>1, <3>4, <4>1 DEF Beat
      <3>6. LastOK(replies[Len(replies)])'
        BY <2>1, <2>5, <3>3 DEF Answered, LastOK, OwnResponse
      <3> QED BY <2>1, <2>5, <3>2, <3>5, <3>6 DEF Answered
    <2> QED BY <2>1, <2>2, <2>4, <2>5
  <1>4. CASE ReadReply \/ ReadEnd
    <2>1. /\ waiting /\ replies # <<>> /\ waiting' = FALSE
          /\ ~ OwnHeartbeat(Head(replies)) \/ Head(replies).says = Failure("end")
          /\ UNCHANGED <<calls, requests, partial>>
      BY <1>4, PlainMessages DEF ReadReply, ReadEnd, Finish, callVars, serverVars
    <2>2. ~ Beat(Head(replies))
      <3>1. Failure("end") # Failure("heartbeat")
        BY DEF Failure, Outcome
      <3> QED BY <2>1, <3>1, PlainMessages DEF Beat, OwnHeartbeat, Mine
    <2>3. Answered /\ LastOK(Head(replies)) /\ Tail(replies) = <<>>
      BY <1>0, <2>1, <2>2, FirstInStep
    <2>4. replies' = <<>>
      BY <1>4, <2>1, <2>3, LastSays, PlainMessages DEF ReadReply, ReadEnd
    <2> QED BY <2>1, <2>3, <2>4 DEF Answered, Idle
  <1>5. CASE TimeOut
    BY <1>5 DEF TimeOut
  <1>6. CASE Interrupt
    <2>1. calls \in 1 .. MaxCalls /\ result'[calls] = Failure("KeyboardInterrupt")
      BY <1>6, CallsRange DEF Interrupt, Finish, TypesOK
    <2>2. Failure("KeyboardInterrupt").class = "KeyboardInterrupt"
      BY Classified
    <2> QED BY <2>1, <2>2 DEF Interrupted
  <1> QED BY <1>1, <1>2, <1>3, <1>4, <1>5, <1>6

LEMMA ServerInStep ==
  ASSUME TypesOK, HistoryInv, InStep, ~ Interrupted, ~ closed, ~ latched, ~ closed',
         Receive \/ RefuseLine \/ ReceivePart \/ SendHeartbeat \/ EndWork
  PROVE  IF waiting' THEN (Asked \/ Answered)' ELSE Idle'
  <1>1. /\ requests # <<>> /\ waiting' = waiting /\ calls' = calls
    BY DEF Receive, RefuseLine, ReceivePart, SendHeartbeat, EndWork, clientVars, TypesOK
  <1>2. waiting /\ Asked /\ Len(requests) = 1 /\ Head(requests).call = calls /\ partial = 0
    <2>1. Head(requests) = requests[1]
      BY <1>1, FirstRequest DEF TypesOK
    <2> QED BY <1>1, <2>1 DEF InStep, Asked, Answered, Idle
  <1>3. /\ Tail(requests) = <<>> /\ replies \in Seq(ReplyType)
        /\ Head(requests) \in RequestType /\ calls \in 0 .. MaxCalls /\ direct[calls] = NotRun
        /\ calls \in 1 .. MaxCalls
    <2>1. Tail(requests) = <<>>
      <3>1. Tail(requests) \in Seq(RequestType) /\ Len(Tail(requests)) = Len(requests) - 1
        BY <1>1, FirstRequest DEF TypesOK
      <3>2. Len(Tail(requests)) = 0
        BY <1>2, <3>1
      <3> QED BY <3>1, <3>2, EmptySeq
    <2>2. Head(requests) \in RequestType /\ replies \in Seq(ReplyType) /\ calls \in 0 .. MaxCalls
      BY <1>1, FirstRequest DEF TypesOK
    <2>3. direct[calls] = NotRun /\ calls \in 1 .. MaxCalls
      BY <1>1, <1>2, TheRequest
    <2> QED BY <2>1, <2>2, <2>3
  <1>4. \A m \in ReplyType : /\ Append(replies, m) \in Seq(ReplyType)
                             /\ In(Append(replies, m)) = In(replies) \cup {m}
                             /\ Append(replies, m) # <<>> /\ Len(Append(replies, m)) = Len(replies) + 1
                             /\ Append(replies, m)[Len(replies) + 1] = m
                             /\ \A i \in 1 .. Len(replies) : Append(replies, m)[i] \in In(replies)
    <2> TAKE m \in ReplyType
    <2>1. /\ Append(replies, m) \in Seq(ReplyType) /\ Len(Append(replies, m)) = Len(replies) + 1
          /\ Append(replies, m)[Len(replies) + 1] = m /\ Len(replies) \in Nat
          /\ \A i \in 1 .. Len(replies) : Append(replies, m)[i] = replies[i]
      BY <1>3, AppendProperties, LenProperties
    <2>2. In(Append(replies, m)) = In(replies) \cup {m}
      BY <1>3, InAppend
    <2>3. Append(replies, m) # <<>>
      BY <2>1, EmptySeq
    <2> QED BY <2>1, <2>2, <2>3 DEF In
  <1>5. ASSUME NEW m \in ReplyType, replies' = Append(replies, m), requests' = <<>>, partial' = 0,
               LastOK(m)'
        PROVE  Answered'
    <2>1. /\ replies' # <<>> /\ Len(replies') = Len(replies) + 1 /\ replies'[Len(replies')] = m
          /\ Len(replies) \in Nat
      BY <1>3, <1>4, <1>5, LenProperties
    <2>2. \A i \in 1 .. Len(replies') - 1 : Beat(replies[i])'
      <3>1. \A i \in 1 .. Len(replies') - 1 : i \in 1 .. Len(replies)
        BY <2>1
      <3>2. \A i \in 1 .. Len(replies) : replies'[i] \in In(replies)
        BY <1>4, <1>5
      <3> QED BY <1>1, <1>2, <3>1, <3>2 DEF Asked, Beat
    <2> QED BY <1>5, <2>1, <2>2 DEF Answered
  <1>6. CASE Receive
    <2>1. UNCHANGED <<requests, partial, replies, direct>>
      BY <1>6 DEF Receive
    <2> QED BY <1>1, <1>2, <2>1 DEF Asked, Beat
  <1>7. CASE RefuseLine
    <2>1. PICK m : m = Refusal(calls)
      OBVIOUS
    <2>2. m \in ReplyType /\ m.id = calls /\ m.says = Failure("GatewayProtocolError")
      BY <1>3, <2>1, PlainMessages
    <2>3. /\ replies' = Append(replies, m) /\ requests' = <<>> /\ partial' = 0 /\ direct' = direct
      BY <1>2, <1>3, <1>7, <2>1 DEF RefuseLine, Write, Written
    <2>4. LastOK(m)'
      BY <1>1, <1>3, <2>2, <2>3 DEF LastOK
    <2> QED BY <1>1, <1>2, <1>5, <2>2, <2>3, <2>4
  <1>8. CASE ReceivePart
    <2>1. Head(requests).bytes \in 1 .. MaxMessage + 1 /\ MaxMessage \in Nat
      BY <1>3, RequestFields, ConstantTypes
    <2>2. Joined(Head(requests)) < MaxMessage + 2 /\ Joined(Head(requests)) > 0
      BY <1>2, <2>1 DEF Joined
    <2>a. MaxMessage + 2 > Joined(Head(requests)) /\ ~ (Joined(Head(requests)) >= MaxMessage + 2)
      BY <1>2, <2>1, <2>2 DEF Joined
    <2>3. partial' = Joined(Head(requests)) /\ requests' = <<>> /\ UNCHANGED replies
      BY <1>3, <1>8, <2>a DEF ReceivePart
    <2> QED BY <1>1, <1>2, <2>2, <2>3 DEF Asked, Beat
  <1>9. CASE SendHeartbeat
    <2>1. PICK m : m = Message(calls, Heartbeat)
      OBVIOUS
    <2>2. m \in ReplyType /\ m.id = calls /\ m.says = Failure("heartbeat")
      BY <1>3, <2>1, PlainMessages
    <2>3. replies' = Append(replies, m) /\ UNCHANGED <<requests, partial>>
      BY <1>2, <1>9, <2>1 DEF SendHeartbeat, Write, Written
    <2>4. \A o \in In(replies') : Beat(o)'
      BY <1>1, <1>2, <1>4, <2>2, <2>3 DEF Asked, Beat
    <2> QED BY <1>1, <1>2, <2>3, <2>4 DEF Asked
  <1>10. CASE EndWork
    <2>1. PICK d \in DirectOutcomes(Head(requests).commands) :
            /\ direct' = [direct EXCEPT ![calls] = d]
            /\ IF Encodable(d.size)
               THEN /\ Write(Message(calls, Arrived(d)))
                    /\ requests' = Tail(requests) /\ UNCHANGED closed
               ELSE Write(End) /\ requests' = <<>> /\ closed' = TRUE
      BY <1>2, <1>10 DEF EndWork
    <2>2. Encodable(d.size)
      BY <2>1
    <2>3. DirectOK(d) /\ d # NotRun /\ Arrived(d) \in OutcomeType
      BY <1>3, RequestFields, OutcomesOfBatch, ArrivedOutcome
    <2>4. PICK m : m = Message(calls, Arrived(d))
      OBVIOUS
    <2>5. m \in ReplyType /\ m.id = calls /\ m.says = Arrived(d)
      BY <1>3, <2>3, <2>4, PlainMessages
    <2>6. replies' = Append(replies, m) /\ requests' = <<>> /\ partial' = 0
      BY <1>2, <1>3, <1>10, <2>1, <2>2, <2>4 DEF EndWork, Write, Written
    <2>7. direct'[calls] = d
      BY <1>3, <2>1 DEF TypesOK
    <2>8. LastOK(m)'
      <3>1. m.id \in 1 .. calls
        BY <1>3, <2>5
      <3> QED BY <1>1, <2>2, <2>3, <2>5, <2>7, <3>1 DEF LastOK, OwnResponse
    <2> QED BY <1>1, <1>2, <1>5, <2>5, <2>6, <2>8
  <1> QED BY <1>6, <1>7, <1>8, <1>9, <1>10

LEMMA InStepNext == TypesOK /\ HistoryInv /\ InStep /\ [Next]_vars => InStep'
  <1> SUFFICES ASSUME TypesOK, HistoryInv, InStep, [Next]_vars,
                      ~ Interrupted', ~ closed', ~ latched'
               PROVE  IF waiting' THEN (Asked \/ Answered)' ELSE Idle'
    BY DEF InStep
  <1>1. ~ Interrupted /\ ~ closed /\ ~ latched
    BY EndedKept
  <1>2. CASE LinkBreaks
    BY <1>2 DEF LinkBreaks
  <1>3. CASE UNCHANGED vars
    BY <1>1, <1>3 DEF vars, InStep, Asked, Answered, Idle, Beat, LastOK, OwnResponse
  <1>4. CASE Tick
    <2>1. /\ UNCHANGED <<calls, waiting, direct, partial>>
          /\ requests' = Older(requests) /\ replies' = Older(replies)
          /\ requests \in Seq(RequestType) /\ replies \in Seq(ReplyType)
          /\ Len(requests) \in Nat /\ Len(replies) \in Nat
      BY <1>4, LenProperties DEF Tick, callVars, TypesOK
    <2>2. /\ requests' \in Seq(RequestType) /\ Len(requests') = Len(requests)
          /\ \A i \in 1 .. Len(requests) : requests'[i].call = requests[i].call
          /\ replies' \in Seq(ReplyType) /\ Len(replies') = Len(replies)
          /\ \A i \in 1 .. Len(replies) : /\ replies'[i].id = replies[i].id
                                          /\ replies'[i].says = replies[i].says
      BY <2>1, OlderRequests, OlderReplies
    <2>3. (requests' = <<>> <=> requests = <<>>) /\ (replies' = <<>> <=> replies = <<>>)
      BY <2>1, <2>2, EmptySeq
    <2>4. CASE ~ waiting
      BY <1>1, <2>1, <2>3, <2>4 DEF InStep, Idle
    <2>5. CASE waiting /\ Asked
      <3>1. \A m \in In(replies') : Beat(m)'
        <4> TAKE m \in In(replies')
        <4>1. PICK o \in In(replies) : m.id = o.id /\ m.says = o.says
          BY <2>2 DEF In
        <4> QED BY <2>1, <2>5, <4>1 DEF Asked, Beat
      <3>2. Len(requests) = 1 => requests'[1].call = requests[1].call
        BY <2>2
      <3> QED BY <2>1, <2>2, <2>3, <2>5, <3>1, <3>2 DEF Asked
    <2>6. CASE waiting /\ Answered
      <3>1. Len(replies) \in 1 .. Len(replies) /\ \A i \in 1 .. Len(replies) - 1 : i \in 1 .. Len(replies)
        BY <2>1, <2>6, EmptySeq DEF Answered
      <3>2. LastOK(replies[Len(replies)])'
        BY <2>1, <2>2, <2>6, <3>1 DEF Answered, LastOK, OwnResponse
      <3>3. \A i \in 1 .. Len(replies') - 1 : Beat(replies[i])'
        BY <2>1, <2>2, <2>6, <3>1 DEF Answered, Beat
      <3> QED BY <2>1, <2>2, <2>3, <2>6, <3>2, <3>3 DEF Answered
    <2> QED BY <1>1, <2>4, <2>5, <2>6 DEF InStep
  <1> QED BY <1>1, <1>2, <1>3, <1>4, ClientInStep, ServerInStep DEF Next

(* Only what the handler has still to deal with can run.                   *)
LEMMA DirectKept ==
  ASSUME TypesOK, HistoryInv, [Next]_vars, NEW n \in 1 .. MaxCalls, ~ Pending(n)
  PROVE  direct'[n] = direct[n] /\ (Pending(n)' => n = calls + 1)
  <1>0. /\ requests \in Seq(RequestType) /\ Len(requests) \in Nat
        /\ \A i \in 1 .. Len(requests) : requests[i].call # n
    BY LenProperties DEF TypesOK, Pending
  <1>1. CASE Send
    <2>1. direct' = direct
      BY <1>1 DEF Send, serverVars
    <2>2. PICK m \in RequestType : /\ m.call = calls + 1
                                   /\ requests' = requests \/ requests' = Append(requests, m)
      <3>1. PICK r \in Requests, sent \in 1 .. MaxMessage + 1 :
              requests' = IF closed THEN requests
                          ELSE Append(requests, [call |-> calls + 1, commands |-> r.commands,
                                        bytes |-> sent, whole |-> sent = r.size + 1, age |-> 0])
        BY <1>1 DEF Send
      <3>2. r.commands \in Nat /\ 0 \in 0 .. Latency /\ calls + 1 \in 1 .. MaxCalls
        <4>1. r.commands \in Nat /\ 0 \in 0 .. Latency
          BY CallAssumption DEF Requests
        <4> QED BY <1>1, <4>1, NewCallTypes DEF Send
      <3>3. [call |-> calls + 1, commands |-> r.commands, bytes |-> sent,
             whole |-> sent = r.size + 1, age |-> 0] \in RequestType
        BY <3>2 DEF RequestType
      <3> QED BY <3>1, <3>3
    <2>3. \A i \in 1 .. Len(requests') : requests'[i].call = n => n = calls + 1
      <3>1. CASE requests' = requests
        BY <1>0, <3>1
      <3>2. CASE requests' = Append(requests, m)
        <4>1. /\ Len(requests') = Len(requests) + 1 /\ requests'[Len(requests) + 1] = m
              /\ \A i \in 1 .. Len(requests) : requests'[i] = requests[i]
          BY <1>0, <3>2, AppendProperties
        <4>2. \A i \in 1 .. Len(requests') : i = Len(requests) + 1 \/ i \in 1 .. Len(requests)
          BY <1>0, <4>1
        <4> QED BY <1>0, <2>2, <4>1, <4>2
      <3> QED BY <2>2, <3>1, <3>2
    <2> QED BY <2>1, <2>3 DEF Pending
  <1>2. CASE RefuseLine \/ ReceivePart \/ EndWork
    <2>1. /\ requests # <<>> /\ requests' \in {Tail(requests), <<>>}
          /\ direct' = direct \/ \E d : direct' = [direct EXCEPT ![Head(requests).call] = d]
      BY <1>2 DEF RefuseLine, ReceivePart, EndWork, TypesOK
    <2>2. /\ Head(requests).call # n
          /\ \A i \in 1 .. Len(requests') : i + 1 \in 1 .. Len(requests) /\ requests'[i] = requests[i + 1]
      <3>1. /\ Head(requests) = requests[1] /\ Len(requests) \in Nat \ {0}
            /\ Len(Tail(requests)) = Len(requests) - 1 /\ Len(<<>>) = 0
            /\ \A i \in 1 .. Len(requests) - 1 : Tail(requests)[i] = requests[i + 1]
        BY <1>0, <2>1, FirstRequest, EmptySeq
      <3>2. Head(requests).call # n
        BY <1>0, <3>1
      <3>3. CASE requests' = Tail(requests)
        BY <3>1, <3>2, <3>3
      <3>4. CASE requests' = <<>>
        BY <3>1, <3>2, <3>4
      <3> QED BY <2>1, <3>3, <3>4
    <2>3. direct'[n] = direct[n]
      BY <2>1, <2>2 DEF TypesOK
    <2> QED BY <1>0, <2>2, <2>3 DEF Pending
  <1>3. CASE LinkBreaks
    BY <1>0, <1>3, LinkTypes DEF LinkBreaks, serverVars, Pending
  <1>4. CASE Tick
    BY <1>0, <1>4, OlderRequests DEF Tick, Pending
  <1>5. CASE ~ (Send \/ RefuseLine \/ ReceivePart \/ EndWork \/ LinkBreaks \/ Tick)
    <2>1. UNCHANGED <<direct, requests>>
      BY <1>5 DEF Next, Refuse, SendFails, ReadHeartbeat, ReadReply, ReadEnd, TimeOut, Interrupt,
                  Receive, SendHeartbeat, serverVars, vars
    <2> QED BY <1>0, <2>1 DEF Pending
  <1> QED BY <1>1, <1>2, <1>3, <1>4, <1>5

LEMMA RefusedNext ==
  ASSUME TypesOK, HistoryInv, InStep, RefusedOK, [Next]_vars
  PROVE  RefusedOK'
  <1> SUFFICES ASSUME NEW n \in 1 .. MaxCalls, result'[n].class = "GatewayProtocolError",
                      ~ closed', \A m \in 1 .. n - 1 : result'[m].class # "KeyboardInterrupt"
               PROVE  direct'[n] = NotRun /\ ~ Pending(n)'
    BY DEF RefusedOK
  <1>0. calls \in 0 .. MaxCalls /\ MaxCalls \in Nat /\ NotRun.class \notin {"KeyboardInterrupt", "GatewayProtocolError"}
    BY CallsRange DEF NotRun, Failure, Outcome
  <1>1. /\ ~ closed
        /\ \A m \in 1 .. n - 1 : m \in 1 .. MaxCalls /\ result[m].class # "KeyboardInterrupt"
    <2>1. \A m \in 1 .. n - 1 : m \in 1 .. MaxCalls
      BY <1>0
    <2>2. \A m \in 1 .. MaxCalls : result[m] # NotRun => result'[m] = result[m]
      BY EndedKept
    <2> QED BY <1>0, <2>1, <2>2, EndedKept
  <1>2. CASE result[n] # NotRun
    <2>1. result[n].class = "GatewayProtocolError"
      BY <1>2, EndedKept
    <2>2. direct[n] = NotRun /\ ~ Pending(n)
      BY <1>1, <2>1 DEF RefusedOK
    <2>3. n # calls + 1
      BY <1>0, <1>2 DEF HistoryInv
    <2> QED BY <2>2, <2>3, DirectKept
  <1>3. CASE result[n] = NotRun
    <2>1. \/ Refuse \/ SendFails \/ Send
          \/ ReadReply \/ ReadEnd \/ TimeOut \/ Interrupt
      <3> SUFFICES ASSUME ~ (Refuse \/ SendFails \/ Send \/ ReadReply \/ ReadEnd \/ TimeOut \/ Interrupt)
                   PROVE  FALSE
        OBVIOUS
      <3>1. UNCHANGED result
        BY DEF Next, ReadHeartbeat, Receive, RefuseLine, ReceivePart, SendHeartbeat, EndWork,
                  LinkBreaks, Tick, clientVars, vars
      <3> QED BY <1>0, <1>3, <3>1
    <2>2. \A m \in 1 .. MaxCalls : n # m /\ (\E o : Finish(m, o)) => result'[n] = result[n]
      BY DEF Finish, TypesOK
    <2>3. CASE Refuse \/ SendFails \/ Send
      <3>1. calls' = calls + 1 /\ calls' \in 1 .. MaxCalls
        BY <2>3, NewCallTypes DEF Refuse, SendFails, Send
      <3>2. n = calls + 1
        BY <1>0, <1>3, <2>2, <2>3, <3>1 DEF Refuse, SendFails, Send
      <3>3. ~ Send
        <4> SUFFICES ASSUME Send PROVE FALSE
          OBVIOUS
        <4>1. UNCHANGED result \/ Finish(calls + 1, Failure("GatewayConnectionError"))
          BY DEF Send
        <4>2. result'[n] = NotRun \/ result'[n] = Failure("GatewayConnectionError")
          BY <1>3, <3>2, <4>1 DEF Finish, TypesOK
        <4> QED BY <1>0, <4>2, Classified
      <3>4. UNCHANGED <<requests, direct>>
        BY <2>3, <3>3 DEF Refuse, SendFails, serverVars
      <3>5. direct[n] = NotRun
        BY <1>0, <3>2 DEF HistoryInv
      <3>6. ~ Pending(n)
        <4>1. \A i \in 1 .. Len(requests) : requests[i].call \in 1 .. calls
          BY DEF HistoryInv, RequestsOK
        <4>2. n \notin 1 .. calls
          BY <1>0, <3>2
        <4> QED BY <4>1, <4>2 DEF Pending
      <3> QED BY <3>4, <3>5, <3>6 DEF Pending
    <2>4. CASE ReadReply \/ ReadEnd \/ TimeOut \/ Interrupt
      <3>1. waiting /\ calls \in 1 .. MaxCalls /\ UNCHANGED <<requests, direct>>
        <4>1. waiting /\ UNCHANGED <<requests, direct>>
          BY <2>4 DEF ReadReply, ReadEnd, TimeOut, Interrupt, serverVars
        <4> QED BY <4>1, CallsRange
      <3>2. n = calls
        <4>1. \E o : Finish(calls, o)
          BY <2>4 DEF ReadReply, ReadEnd, TimeOut, Interrupt
        <4> QED BY <1>0, <1>3, <2>2, <3>1, <4>1
      <3>3. ~ Interrupted /\ ~ latched
        <4>1. \A m \in 1 .. MaxCalls : m \in 1 .. n - 1 \/ result[m] = NotRun
          BY <1>0, <1>3, <3>2 DEF HistoryInv
        <4> QED BY <1>0, <1>1, <3>1, <4>1 DEF Interrupted, HistoryInv
      <3>4. Asked \/ Answered
        BY <1>1, <3>1, <3>3 DEF InStep
      <3>5. ReadReply
        <4> SUFFICES ASSUME ReadEnd \/ TimeOut \/ Interrupt PROVE FALSE
          BY <2>4
        <4>1. result'[n] \in {Failure("GatewayConnectionError"), Failure("KeyboardInterrupt")}
          BY <3>1, <3>2 DEF ReadEnd, TimeOut, Interrupt, Finish, TypesOK
        <4> QED BY <4>1, Classified
      <3>6. /\ Answered /\ LastOK(Head(replies))
        <4>1. replies # <<>> /\ ~ Beat(Head(replies))
          BY <3>5, PlainMessages DEF ReadReply, Beat, OwnHeartbeat, Mine
        <4> QED BY <3>1, <3>4, <4>1, FirstInStep
      <3>7. result'[n] = Head(replies).says /\ direct[n] = NotRun
        <4>1. /\ Mine(Head(replies)) /\ Readable(Head(replies).says.size)
              /\ Head(replies).says.class = "GatewayProtocolError" => direct[calls] = NotRun
          BY <3>1, <3>6, LastSays
        <4>2. Finish(n, Head(replies).says)
          BY <3>2, <3>5, <4>1 DEF ReadReply
        <4>3. result'[n] = Head(replies).says
          BY <4>2 DEF Finish, TypesOK
        <4> QED BY <3>2, <4>1, <4>3
      <3>8. ~ Pending(n)
        <4>1. Len(requests) = 0
          BY <3>6, EmptySeq DEF Answered
        <4> QED BY <4>1 DEF Pending
      <3> QED BY <3>1, <3>7, <3>8 DEF Pending
    <2> QED BY <2>1, <2>3, <2>4
  <1> QED BY <1>2, <1>3

(* While the connection holds, a GatewayProtocolError means that nothing   *)
(* of the batch reaches the instrument, unless an earlier call of the      *)
(* session was interrupted (client.py:98-120, server.py:165-197).          *)
THEOREM RefusedNotRun == Spec => []ProtocolErrorMeansNotRun
  <1>1. Init => TypesOK /\ HistoryInv /\ InStep /\ RefusedOK
    <2> SUFFICES ASSUME Init PROVE InStep /\ RefusedOK
      BY TypesInit, HistoryInit
    <2>1. NotRun.class # "GatewayProtocolError"
      BY DEF NotRun, Failure, Outcome
    <2> QED BY <2>1 DEF Init, InStep, Idle, RefusedOK
  <1>2. /\ TypesOK /\ HistoryInv /\ InStep /\ RefusedOK /\ [Next]_vars
        => TypesOK' /\ HistoryInv' /\ InStep' /\ RefusedOK'
    BY TypesNext, HistoryNext, InStepNext, RefusedNext
  <1>3. TypesOK /\ RefusedOK => ProtocolErrorMeansNotRun
    <2>1. TypesOK => \A n \in 1 .. calls : n \in 1 .. MaxCalls
      BY CallsRange
    <2> QED BY <2>1 DEF RefusedOK, ProtocolErrorMeansNotRun
  <1> QED BY <1>1, <1>2, <1>3, PTL DEF Spec

-------------------------------------------------------------------------------
(* The clock: what a waiting call has not heard for long is behind a       *)
(* heartbeat, a work that will send one, or a request on its way.          *)
Sorted ==
  \A i, j \in 1 .. Len(requests) : i < j => requests[i].age >= requests[j].age

Heard ==
  /\ requests # <<>> => requests[Len(requests)].whole
  /\ requests = <<>> => replies # <<>> /\ replies[Len(replies)].says # Failure("heartbeat")
  /\ replies # <<>> => silent <= HeartbeatInterval + Latency + replies[1].age
  /\ replies = <<>> /\ running => silent <= waited + Latency
  /\ replies = <<>> /\ ~ running => silent <= requests[Len(requests)].age

ClockInv ==
  /\ silent \in 0 .. timeout
  /\ waited \in 0 .. HeartbeatInterval
  /\ Sorted
  /\ waiting /\ ~ cut /\ ~ closed => Heard

LEMMA Intervals ==
  ASSUME TypesOK
  PROVE  /\ timeout \in Nat /\ Latency \in Nat /\ HeartbeatInterval \in Nat
         /\ HeartbeatInterval \in 0 .. MaxHeartbeat
         /\ HeartbeatInterval + Latency + Latency < timeout
  <1>1. timeout \in Nat /\ timeout % 2 = 0 /\ timeout > 4 * Latency
    BY CallAssumption DEF TypesOK
  <1>2. Latency \in Nat /\ MaxHeartbeat \in Nat
    BY CallAssumption
  <1>3. /\ timeout \div 2 \in Nat /\ 2 * (timeout \div 2) = timeout
        /\ HeartbeatInterval = IF MaxHeartbeat < timeout \div 2 THEN MaxHeartbeat ELSE timeout \div 2
    BY <1>1 DEF HeartbeatInterval
  <1>4. PICK half \in Nat : half = timeout \div 2 /\ 2 * half = timeout
    BY <1>3
  <1> QED BY <1>1, <1>2, <1>3, <1>4

(* No call that waits for a whole request and an unbroken connection may   *)
(* have waited for its timeout.                                            *)
LEMMA HeardEarly ==
  ASSUME TypesOK, ClockInv, Heard
  PROVE  silent < timeout
  <1>1. /\ replies # <<>> => replies[1].age \in 0 .. Latency
        /\ requests # <<>> => requests[Len(requests)].age \in 0 .. Latency
    <2>1. replies # <<>> => replies[1] \in ReplyType
      BY FirstReply DEF TypesOK
    <2>2. requests # <<>> => requests[Len(requests)] \in RequestType
      BY FirstRequest DEF TypesOK
    <2> QED BY <2>1, <2>2, RequestFields DEF ReplyType
  <1>2. waited \in 0 .. HeartbeatInterval /\ silent \in 0 .. timeout
    BY DEF ClockInv
  <1>3. CASE replies # <<>>
    BY <1>1, <1>2, <1>3, Intervals DEF Heard
  <1>4. CASE replies = <<>> /\ running
    BY <1>1, <1>2, <1>4, Intervals DEF Heard
  <1>5. CASE replies = <<>> /\ ~ running
    BY <1>1, <1>2, <1>5, Intervals DEF Heard
  <1> QED BY <1>3, <1>4, <1>5

LEMMA ClientClock ==
  ASSUME TypesOK, HistoryInv, ClockInv,
         Refuse \/ SendFails \/ Send \/ ReadHeartbeat \/ ReadReply \/ ReadEnd \/ TimeOut \/ Interrupt
  PROVE  ClockInv'
  <1>0. /\ requests \in Seq(RequestType) /\ replies \in Seq(ReplyType) /\ timeout \in Nat
        /\ Latency \in Nat /\ HeartbeatInterval \in Nat /\ Len(requests) \in Nat
        /\ waited \in 0 .. HeartbeatInterval
    BY Intervals, LenProperties DEF TypesOK, ClockInv
  <1>1. /\ UNCHANGED <<timeout, waited, running>> /\ HeartbeatInterval' = HeartbeatInterval
        /\ silent' = 0 /\ silent' \in 0 .. timeout'
    <2>1. UNCHANGED <<timeout, waited, running>>
      BY DEF Refuse, SendFails, Send, ReadHeartbeat, ReadReply, ReadEnd, TimeOut, Interrupt,
             callVars, serverVars
    <2>2. silent' = 0
      BY DEF Refuse, SendFails, Send, ReadHeartbeat, ReadReply, ReadEnd, TimeOut, Interrupt, Finish
    <2> QED BY <1>0, <2>1, <2>2 DEF HeartbeatInterval
  <1>2. CASE ~ Send /\ ~ ReadHeartbeat
    <2>1. waiting' = FALSE /\ requests' = requests
      BY <1>2 DEF Refuse, SendFails, ReadReply, ReadEnd, TimeOut, Interrupt, Finish
    <2> QED BY <1>0, <1>1, <2>1 DEF ClockInv, Sorted
  <1>3. CASE ReadHeartbeat
    <2>1. /\ UNCHANGED <<waiting, cut, closed, requests>> /\ replies # <<>> /\ replies' = Tail(replies)
          /\ waiting /\ replies[1].says = Failure("heartbeat")
      BY <1>0, <1>3, FirstReply, PlainMessages DEF ReadHeartbeat, OwnHeartbeat
    <2>2. /\ Len(replies) \in Nat \ {0} /\ Tail(replies) \in Seq(ReplyType)
          /\ Len(Tail(replies)) = Len(replies) - 1
          /\ \A i \in 1 .. Len(replies) - 1 : Tail(replies)[i] = replies[i + 1]
      BY <1>0, <2>1, FirstReply
    <2>3. ASSUME ~ cut, ~ closed PROVE Heard'
      <3>1. Heard
        BY <2>1, <2>3 DEF ClockInv
      <3>2. requests = <<>> => replies' # <<>> /\ replies'[Len(replies')] = replies[Len(replies)]
        <4> SUFFICES ASSUME requests = <<>>
                     PROVE  replies' # <<>> /\ replies'[Len(replies')] = replies[Len(replies)]
          OBVIOUS
        <4>1. Len(replies) # 1
          BY <2>1, <3>1 DEF Heard
        <4>2. Len(replies') # 0 /\ Len(replies') = Len(replies) - 1 /\ Len(replies') \in 1 .. Len(replies) - 1
          BY <2>1, <2>2, <4>1
        <4>3. replies' # <<>>
          BY <2>1, <2>2, <4>2, EmptySeq
        <4> QED BY <2>1, <2>2, <4>2, <4>3
      <3>3. replies' # <<>> => replies'[1].age \in Nat
        <4> SUFFICES ASSUME replies' # <<>> PROVE replies'[1].age \in Nat
          OBVIOUS
        <4>1. replies' \in Seq(ReplyType) /\ Len(replies') \in Nat \ {0}
          BY <2>1, <2>2, EmptySeq, LenProperties
        <4>2. replies'[1] \in ReplyType
          BY <4>1, ElementOfSeq
        <4> QED BY <1>0, <4>2 DEF ReplyType
      <3>4. requests # <<>> => requests[Len(requests)].age \in Nat
        <4> SUFFICES ASSUME requests # <<>> PROVE requests[Len(requests)].age \in Nat
          OBVIOUS
        <4>1. requests[Len(requests)] \in RequestType
          BY <1>0, FirstRequest
        <4> QED BY <1>0, <4>1 DEF RequestType
      <3>5. replies' = <<>> => requests # <<>>
        BY <3>2
      <3> QED BY <1>0, <1>1, <2>1, <3>1, <3>2, <3>3, <3>4, <3>5 DEF Heard
    <2> QED BY <1>0, <1>1, <2>1, <2>3 DEF ClockInv, Sorted
  <1>4. CASE Send
    <2>1. PICK r \in Requests, sent \in 1 .. MaxMessage + 1 :
            /\ requests' = IF closed THEN requests
                           ELSE Append(requests, [call |-> calls + 1, commands |-> r.commands,
                                         bytes |-> sent, whole |-> sent = r.size + 1, age |-> 0])
            /\ IF latched THEN Finish(calls + 1, Failure("GatewayConnectionError"))
               ELSE waiting' = TRUE /\ cut' = (sent # r.size + 1) /\ silent' = 0 /\ UNCHANGED result
      BY <1>4 DEF Send
    <2> DEFINE m == [call |-> calls + 1, commands |-> r.commands, bytes |-> sent,
                     whole |-> sent = r.size + 1, age |-> 0]
    <2>2. m \in RequestType /\ m.age = 0 /\ m.whole = (sent = r.size + 1)
      <3>1. r.commands \in Nat /\ 0 \in 0 .. Latency
        BY CallAssumption DEF Requests
      <3>2. calls + 1 \in 1 .. MaxCalls
        BY <1>4, NewCallTypes DEF Send
      <3> QED BY <3>1, <3>2 DEF RequestType
    <2>3. UNCHANGED <<closed, replies>> /\ requests' = IF closed THEN requests ELSE Append(requests, m)
      BY <1>4, <2>1 DEF Send
    <2> HIDE DEF m
    <2>4. CASE closed
      BY <1>0, <1>1, <2>3, <2>4 DEF ClockInv, Sorted
    <2>5. CASE ~ closed
      <3>1. /\ Len(requests') = Len(requests) + 1 /\ requests'[Len(requests')] = m
            /\ requests'[Len(requests) + 1] = m /\ requests' # <<>>
            /\ \A i \in 1 .. Len(requests) : requests'[i] = requests[i] /\ requests[i].age \in Nat
        <4>1. /\ Len(requests') = Len(requests) + 1 /\ requests'[Len(requests) + 1] = m
              /\ \A i \in 1 .. Len(requests) : requests'[i] = requests[i]
              /\ requests' \in Seq(RequestType)
          BY <1>0, <2>2, <2>3, <2>5, AppendProperties
        <4>2. \A i \in 1 .. Len(requests) : requests[i] \in RequestType
          BY <1>0, ElementOfSeq
        <4>3. requests' # <<>>
          BY <1>0, <4>1, EmptySeq
        <4> QED BY <1>0, <4>1, <4>2, <4>3, RequestFields
      <3>2. Sorted'
        <4> SUFFICES ASSUME NEW i \in 1 .. Len(requests'), NEW j \in 1 .. Len(requests'), i < j
                     PROVE  requests'[i].age >= requests'[j].age
          BY DEF Sorted
        <4>1. i \in 1 .. Len(requests)
          BY <1>0, <3>1
        <4>2. CASE j = Len(requests) + 1
          BY <1>0, <2>2, <3>1, <4>1, <4>2
        <4>3. CASE j \in 1 .. Len(requests)
          <5>1. requests[i].age >= requests[j].age
            BY <4>1, <4>3 DEF ClockInv, Sorted
          <5>2. requests'[i].age = requests[i].age /\ requests'[j].age = requests[j].age
            BY <3>1, <4>1, <4>3
          <5> QED BY <5>1, <5>2
        <4>4. j = Len(requests) + 1 \/ j \in 1 .. Len(requests)
          BY <1>0, <3>1
        <4> QED BY <4>2, <4>3, <4>4
      <3>3. waiting' /\ ~ cut' => m.whole
        BY <2>1, <2>2 DEF Finish
      <3>4. replies # <<>> => replies[1].age \in Nat
        <4> SUFFICES ASSUME replies # <<>> PROVE replies[1].age \in Nat
          OBVIOUS
        <4>1. replies[1] \in ReplyType
          BY <1>0, FirstReply
        <4> QED BY <1>0, <4>1 DEF ReplyType
      <3>5. waiting' /\ ~ cut' => Heard'
        BY <1>0, <1>1, <2>2, <2>3, <3>1, <3>3, <3>4 DEF Heard
      <3> QED BY <1>0, <1>1, <3>2, <3>5 DEF ClockInv
    <2> QED BY <2>4, <2>5
  <1> QED BY <1>2, <1>3, <1>4

LEMMA ServerClock ==
  ASSUME TypesOK, HistoryInv, ClockInv,
         Receive \/ RefuseLine \/ ReceivePart \/ SendHeartbeat \/ EndWork
  PROVE  ClockInv'
  <1>0. /\ requests \in Seq(RequestType) /\ replies \in Seq(ReplyType) /\ timeout \in Nat
        /\ Latency \in Nat /\ HeartbeatInterval \in Nat
        /\ waited \in 0 .. HeartbeatInterval /\ silent \in 0 .. timeout
    BY Intervals DEF TypesOK, ClockInv
  <1>1. /\ UNCHANGED <<timeout, calls, waiting, cut, silent>> /\ HeartbeatInterval' = HeartbeatInterval
        /\ requests # <<>>
        /\ closed => closed'
    BY DEF Receive, RefuseLine, ReceivePart, SendHeartbeat, EndWork, clientVars, HeartbeatInterval,
           TypesOK
  <1>2. waited' \in {0, waited}
    BY DEF Receive, RefuseLine, ReceivePart, SendHeartbeat, EndWork, clientVars
  <1>3. /\ Len(requests) \in Nat \ {0} /\ requests[1] = Head(requests)
        /\ Head(requests) \in RequestType
        /\ Len(Tail(requests)) = Len(requests) - 1 /\ Tail(requests) \in Seq(RequestType)
        /\ \A i \in 1 .. Len(requests) - 1 : Tail(requests)[i] = requests[i + 1]
        /\ \A i \in 1 .. Len(requests) : requests[i].age \in 0 .. Latency
    BY <1>0, <1>1, FirstRequest, RequestFields
  <1>4. Sorted'
    <2>1. requests' \in {requests, Tail(requests), <<>>}
      BY DEF Receive, RefuseLine, ReceivePart, SendHeartbeat, EndWork
    <2>2. Sorted
      BY DEF ClockInv
    <2>3. CASE requests' = requests
      BY <2>2, <2>3 DEF Sorted
    <2>4. CASE requests' = <<>>
      <3>1. Len(requests') = 0
        BY <2>4, EmptySeq
      <3> QED BY <3>1 DEF Sorted
    <2>5. CASE requests' = Tail(requests)
      <3> SUFFICES ASSUME NEW i \in 1 .. Len(requests'), NEW j \in 1 .. Len(requests'), i < j
                   PROVE  requests'[i].age >= requests'[j].age
        BY DEF Sorted
      <3>1. /\ i + 1 \in 1 .. Len(requests) /\ j + 1 \in 1 .. Len(requests) /\ i + 1 < j + 1
            /\ requests'[i] = requests[i + 1] /\ requests'[j] = requests[j + 1]
        BY <1>3, <2>5
      <3> QED BY <2>2, <3>1 DEF Sorted
    <2> QED BY <2>1, <2>3, <2>4, <2>5
  <1>5. ASSUME waiting, ~ cut, ~ closed' PROVE Heard'
    <2>0. ~ closed /\ Heard
      BY <1>1, <1>5 DEF ClockInv
    \* What is written to the client when something is.
    <2>1. ASSUME NEW m \in ReplyType, m.age = 0, replies' = Append(replies, m)
          PROVE  /\ replies' # <<>> /\ replies'[Len(replies')] = m
                 /\ silent <= HeartbeatInterval + Latency + replies'[1].age
      <3>1. /\ Len(replies) \in Nat /\ Len(replies') = Len(replies) + 1
            /\ replies'[Len(replies) + 1] = m /\ replies' \in Seq(ReplyType)
            /\ \A i \in 1 .. Len(replies) : replies'[i] = replies[i]
        BY <1>0, <2>1, AppendProperties, LenProperties
      <3>2. replies' # <<>>
        BY <3>1, EmptySeq
      <3>3. CASE replies = <<>>
        <4>1. replies'[1] = m
          BY <3>1, <3>3, EmptySeq
        <4>2. running => silent <= waited + Latency
          BY <2>0, <3>3 DEF Heard
        <4>3. ~ running => silent <= Latency
          <5>1. requests[Len(requests)].age \in 0 .. Latency
            BY <1>3
          <5> QED BY <1>0, <2>0, <3>3, <5>1 DEF Heard
        <4> QED BY <1>0, <2>1, <3>1, <3>2, <4>1, <4>2, <4>3
      <3>4. CASE replies # <<>>
        <4>1. replies'[1] = replies[1]
          BY <1>0, <3>1, <3>4, EmptySeq
        <4> QED BY <2>0, <3>1, <3>2, <3>4, <4>1 DEF Heard
      <3> QED BY <3>3, <3>4
    <2>2. ASSUME requests' = Tail(requests), requests' # <<>>
          PROVE  requests'[Len(requests')] = requests[Len(requests)] /\ requests'[Len(requests')].whole
                 /\ requests'[Len(requests')].age \in 0 .. Latency
      <3>1. Len(requests') \in Nat \ {0} /\ Len(requests') = Len(requests) - 1
        BY <1>3, <2>2, EmptySeq
      <3>2. requests'[Len(requests')] = requests[Len(requests)]
        BY <1>3, <2>2, <3>1
      <3> QED BY <1>1, <1>3, <2>0, <3>2 DEF Heard
    <2>3. CASE Receive
      <3>1. UNCHANGED <<requests, replies>> /\ running' /\ waited' = 0
        BY <2>3 DEF Receive
      <3>2. replies = <<>> => silent <= Latency
        <4>1. ~ running /\ requests[Len(requests)].age \in 0 .. Latency
          BY <1>3, <2>3 DEF Receive
        <4> QED BY <1>0, <2>0, <4>1 DEF Heard
      <3> QED BY <1>0, <1>1, <2>0, <3>1, <3>2 DEF Heard
    <2>4. CASE SendHeartbeat
      <3>1. PICK m : m = Message(Head(requests).call, Heartbeat)
        OBVIOUS
      <3>2. m \in ReplyType /\ m.age = 0
        <4>1. Head(requests).call \in 0 .. MaxCalls
          BY <1>3, RequestFields
        <4> QED BY <3>1, <4>1, PlainMessages
      <3>3. replies' = Append(replies, m) /\ UNCHANGED requests
        BY <2>0, <2>4, <3>1 DEF SendHeartbeat, Write, Written
      <3>4. replies' # <<>> /\ silent <= HeartbeatInterval + Latency + replies'[1].age
        BY <2>1, <3>2, <3>3
      <3> QED BY <1>1, <2>0, <3>3, <3>4 DEF Heard
    <2>5. CASE EndWork
      <3>1. PICK d \in DirectOutcomes(Head(requests).commands) :
              IF Encodable(d.size)
              THEN /\ Write(Message(Head(requests).call, Arrived(d)))
                   /\ requests' = Tail(requests) /\ UNCHANGED closed
              ELSE Write(End) /\ requests' = <<>> /\ closed' = TRUE
        BY <2>5 DEF EndWork
      <3>2. PICK m : m = Message(Head(requests).call, Arrived(d))
        OBVIOUS
      <3>3. m \in ReplyType /\ m.age = 0 /\ m.says # Failure("heartbeat")
        <4>1. Head(requests).call \in 0 .. MaxCalls /\ Head(requests).commands \in Nat
          BY <1>3, RequestFields
        <4>2. DirectOK(d) /\ d # NotRun
          BY <4>1, OutcomesOfBatch
        <4>3. Arrived(d) \in OutcomeType /\ Arrived(d) # Failure("heartbeat")
          BY <4>2, ArrivedOutcome, ResponseClass
        <4> QED BY <3>2, <4>1, <4>3, PlainMessages
      <3>4. replies' = Append(replies, m) /\ requests' = Tail(requests)
        BY <1>5, <2>0, <3>1, <3>2 DEF Write, Written
      <3>5. /\ replies' # <<>> /\ replies'[Len(replies')] = m
            /\ silent <= HeartbeatInterval + Latency + replies'[1].age
        BY <2>1, <3>3, <3>4
      <3> QED BY <1>1, <2>2, <3>3, <3>4, <3>5 DEF Heard
    <2>6. CASE RefuseLine
      <3>1. requests' = Tail(requests) /\ running' = running /\ ~ running
        BY <2>6 DEF RefuseLine
      <3>2. \A id \in 0 .. MaxCalls : /\ Refusal(id) \in ReplyType /\ Refusal(id).age = 0
                                      /\ Refusal(id).says # Failure("heartbeat")
        <4>1. Failure("GatewayProtocolError") # Failure("heartbeat")
          BY DEF Failure, Outcome
        <4> QED BY <4>1, PlainMessages, RefusalTypes DEF Refusal, Message
      <3>3. Head(requests).call \in 0 .. MaxCalls /\ NoId \in 0 .. MaxCalls
        BY <1>3, RequestFields, CallAssumption DEF NoId
      <3>4. CASE \E m \in {Refusal(Head(requests).call), Refusal(NoId)} : replies' = Append(replies, m)
        <4>1. PICK m \in ReplyType : /\ replies' = Append(replies, m) /\ m.age = 0
                                     /\ m.says # Failure("heartbeat")
          BY <3>2, <3>3, <3>4
        <4>2. /\ replies' # <<>> /\ replies'[Len(replies')] = m
              /\ silent <= HeartbeatInterval + Latency + replies'[1].age
          BY <2>1, <4>1
        <4> QED BY <1>1, <2>2, <3>1, <4>1, <4>2 DEF Heard
      <3>5. CASE replies' = Append(Append(replies, Refusal(NoId)), Refusal(NoId))
        <4>1. PICK m : m = Refusal(NoId)
          OBVIOUS
        <4>2. m \in ReplyType /\ m.age = 0 /\ m.says # Failure("heartbeat")
          BY <3>2, <3>3, <4>1
        <4>3. PICK s : s = Append(replies, m)
          OBVIOUS
        <4>4. /\ s \in Seq(ReplyType) /\ Len(s) = Len(replies) + 1 /\ Len(replies) \in Nat
              /\ s[Len(replies) + 1] = m /\ \A i \in 1 .. Len(replies) : s[i] = replies[i]
          BY <1>0, <4>2, <4>3, AppendProperties, LenProperties
        <4>5. /\ replies' \in Seq(ReplyType) /\ Len(replies') = Len(s) + 1
              /\ replies'[Len(s) + 1] = m /\ \A i \in 1 .. Len(s) : replies'[i] = s[i]
          <5>1. replies' = Append(s, m)
            BY <3>5, <4>1, <4>3
          <5> QED BY <4>2, <4>4, <5>1, AppendProperties
        <4>6. replies' # <<>>
          BY <4>4, <4>5, EmptySeq
        <4>7. silent <= HeartbeatInterval + Latency + replies'[1].age
          <5>1. CASE replies = <<>>
            <6>1. replies'[1] = m
              BY <4>4, <4>5, <5>1, EmptySeq
            <6>2. requests[Len(requests)].age \in 0 .. Latency
              BY <1>3
            <6>3. silent <= Latency
              BY <1>0, <2>0, <3>1, <5>1, <6>2 DEF Heard
            <6> QED BY <1>0, <4>2, <6>1, <6>3
          <5>2. CASE replies # <<>>
            <6>1. replies'[1] = replies[1]
              BY <1>0, <4>4, <4>5, <5>2, EmptySeq
            <6> QED BY <2>0, <5>2, <6>1 DEF Heard
          <5> QED BY <5>1, <5>2
        <4>8. replies'[Len(replies')].says # Failure("heartbeat")
          BY <4>2, <4>5
        <4> QED BY <1>1, <2>2, <3>1, <4>6, <4>7, <4>8 DEF Heard
      <3> QED BY <2>0, <2>6, <3>4, <3>5 DEF RefuseLine, Write, Written
    <2>7. CASE ReceivePart
      <3>1. /\ requests' = Tail(requests) /\ running' = running /\ ~ running
            /\ ~ requests[1].whole
        BY <1>3, <2>7 DEF ReceivePart
      <3>2. requests' # <<>>
        <4>1. requests[Len(requests)].whole
          BY <1>1, <2>0 DEF Heard
        <4>2. Len(requests) # 1
          BY <3>1, <4>1
        <4>3. Len(requests') # 0
          BY <1>3, <3>1, <4>2
        <4> QED BY <1>3, <3>1, <4>3, EmptySeq
      <3>3. requests'[Len(requests')] = requests[Len(requests)] /\ requests'[Len(requests')].whole
        BY <2>2, <3>1, <3>2
      <3>4. CASE replies' = replies
        BY <1>1, <2>0, <3>1, <3>2, <3>3, <3>4 DEF Heard
      <3>5. CASE replies' = Append(replies, Refusal(NoId))
        <4>1. PICK m : m = Refusal(NoId)
          OBVIOUS
        <4>2. m \in ReplyType /\ m.age = 0
          BY <4>1, RefusalTypes DEF Refusal, Message
        <4>3. replies' # <<>> /\ silent <= HeartbeatInterval + Latency + replies'[1].age
          BY <2>1, <3>5, <4>1, <4>2
        <4> QED BY <1>1, <3>2, <3>3, <4>3 DEF Heard
      <3> QED BY <2>0, <2>7, <3>4, <3>5 DEF ReceivePart, Write, Written
    <2> QED BY <2>3, <2>4, <2>5, <2>6, <2>7
  <1> QED BY <1>0, <1>1, <1>2, <1>4, <1>5 DEF ClockInv

LEMMA TickClock ==
  ASSUME TypesOK, HistoryInv, ClockInv, Tick
  PROVE  ClockInv'
  <1>0. /\ requests \in Seq(RequestType) /\ replies \in Seq(ReplyType) /\ timeout \in Nat
        /\ Latency \in Nat /\ HeartbeatInterval \in Nat
        /\ waited \in 0 .. HeartbeatInterval /\ silent \in 0 .. timeout
        /\ Len(requests) \in Nat /\ Len(replies) \in Nat
    BY Intervals, LenProperties DEF TypesOK, ClockInv
  <1>1. /\ UNCHANGED <<timeout, calls, waiting, cut, closed, running>>
        /\ HeartbeatInterval' = HeartbeatInterval
        /\ waiting => silent < timeout
        /\ waiting /\ replies # <<>> => Head(replies).age < Latency
        /\ running => waited < HeartbeatInterval
        /\ ~ running /\ requests # <<>> => closed \/ Head(requests).age < Latency
        /\ silent' = IF waiting THEN silent + 1 ELSE silent
        /\ waited' = IF running THEN waited + 1 ELSE waited
        /\ requests' = Older(requests) /\ replies' = Older(replies)
    BY DEF Tick, callVars, HeartbeatInterval
  <1>2. /\ requests' \in Seq(RequestType) /\ Len(requests') = Len(requests)
        /\ \A i \in 1 .. Len(requests) :
             /\ requests'[i].whole = requests[i].whole
             /\ requests'[i].age = IF requests[i].age < Latency THEN requests[i].age + 1
                                   ELSE requests[i].age
             /\ requests[i].age \in 0 .. Latency
    <2>1. \A i \in 1 .. Len(requests) : requests[i] \in RequestType
      BY <1>0, ElementOfSeq
    <2> QED BY <1>0, <1>1, <2>1, OlderRequests, RequestFields
  <1>3. /\ replies' \in Seq(ReplyType) /\ Len(replies') = Len(replies)
        /\ \A i \in 1 .. Len(replies) :
             /\ replies'[i].says = replies[i].says
             /\ replies'[i].age = IF replies[i].age < Latency THEN replies[i].age + 1
                                  ELSE replies[i].age
    BY <1>0, <1>1, OlderReplies
  <1>4. (requests' = <<>> <=> requests = <<>>) /\ (replies' = <<>> <=> replies = <<>>)
    BY <1>0, <1>2, <1>3, EmptySeq
  <1>5. Sorted /\ Sorted'
    <2>1. Sorted
      BY DEF ClockInv
    <2> SUFFICES ASSUME NEW i \in 1 .. Len(requests'), NEW j \in 1 .. Len(requests'), i < j
                 PROVE  requests'[i].age >= requests'[j].age
      BY <2>1 DEF Sorted
    <2>2. i \in 1 .. Len(requests) /\ j \in 1 .. Len(requests)
      BY <1>2
    <2>3. requests[i].age >= requests[j].age
      BY <2>1, <2>2 DEF Sorted
    <2>4. requests[i].age \in Nat /\ requests[j].age \in Nat
      BY <1>0, <1>2, <2>2
    <2> QED BY <1>0, <1>2, <2>2, <2>3, <2>4
  <1>6. ASSUME waiting, ~ cut, ~ closed PROVE Heard'
    <2>1. Heard
      BY <1>6 DEF ClockInv
    <2>2. requests # <<>> =>
            /\ 1 \in 1 .. Len(requests) /\ Len(requests) \in 1 .. Len(requests)
            /\ Head(requests) = requests[1]
            /\ requests[1].age >= requests[Len(requests)].age
      <3> SUFFICES ASSUME requests # <<>>
                   PROVE  /\ 1 \in 1 .. Len(requests) /\ Len(requests) \in 1 .. Len(requests)
                          /\ Head(requests) = requests[1]
                          /\ requests[1].age >= requests[Len(requests)].age
        OBVIOUS
      <3>1. /\ 1 \in 1 .. Len(requests) /\ Len(requests) \in 1 .. Len(requests)
            /\ Head(requests) = requests[1]
        BY <1>0, FirstRequest
      <3>2. requests[1].age \in Nat /\ requests[Len(requests)].age \in Nat
        BY <1>0, <1>2, <3>1
      <3>3. CASE Len(requests) = 1
        BY <3>1, <3>2, <3>3
      <3>4. CASE Len(requests) # 1
        <4>a. \A k \in Nat : 1 \in 1 .. k /\ k # 1 => 1 < k
          OBVIOUS
        <4>1. 1 < Len(requests)
          BY <1>0, <3>1, <3>4, <4>a, Zenon
        <4> QED BY <1>5, <3>1, <4>1 DEF Sorted
      <3> QED BY <3>1, <3>3, <3>4
    <2>3. replies # <<>> => /\ 1 \in 1 .. Len(replies) /\ Len(replies) \in 1 .. Len(replies)
                            /\ Head(replies) = replies[1] /\ replies[1].age \in Nat
      <3> SUFFICES ASSUME replies # <<>>
                   PROVE  /\ 1 \in 1 .. Len(replies) /\ Len(replies) \in 1 .. Len(replies)
                          /\ Head(replies) = replies[1] /\ replies[1].age \in Nat
        OBVIOUS
      <3>1. /\ Len(replies) \in Nat \ {0} /\ Head(replies) = replies[1] /\ Head(replies) \in ReplyType
        BY <1>0, FirstReply
      <3> QED BY <1>0, <3>1 DEF ReplyType
    <2>4. requests' # <<>> => requests'[Len(requests')].whole
      BY <1>2, <1>4, <2>1, <2>2 DEF Heard
    <2>5. requests' = <<>> => replies' # <<>> /\ replies'[Len(replies')].says # Failure("heartbeat")
      BY <1>3, <1>4, <2>1, <2>3 DEF Heard
    <2>6. replies' # <<>> => silent' <= HeartbeatInterval + Latency + replies'[1].age
      <3> SUFFICES ASSUME replies # <<>>
                   PROVE  silent' <= HeartbeatInterval + Latency + replies'[1].age
        BY <1>4
      <3>1. replies'[1].age = replies[1].age + 1 /\ silent' = silent + 1
        BY <1>1, <1>3, <1>6, <2>3
      <3>2. silent <= HeartbeatInterval + Latency + replies[1].age
        BY <2>1 DEF Heard
      <3> QED BY <1>0, <2>3, <3>1, <3>2
    <2>7. replies' = <<>> /\ running' => silent' <= waited' + Latency
      <3>1. replies = <<>> /\ running => silent <= waited + Latency
        BY <2>1 DEF Heard
      <3> QED BY <1>0, <1>1, <1>4, <3>1
    <2>8. replies' = <<>> /\ ~ running' => silent' <= requests'[Len(requests')].age
      <3> SUFFICES ASSUME replies = <<>>, ~ running
                   PROVE  silent' <= requests'[Len(requests')].age
        BY <1>1, <1>4
      <3>1. requests # <<>>
        BY <2>1 DEF Heard
      <3>2. requests[1].age < Latency
        BY <1>1, <1>6, <2>2, <3>1
      <3>3. requests[1].age \in Nat /\ requests[Len(requests)].age \in Nat
        BY <1>0, <1>2, <2>2, <3>1
      <3>4. requests[Len(requests)].age < Latency
        BY <1>0, <2>2, <3>1, <3>2, <3>3
      <3>5. requests'[Len(requests')].age = requests[Len(requests)].age + 1
        BY <1>2, <2>2, <3>1, <3>4
      <3>6. silent <= requests[Len(requests)].age
        BY <2>1 DEF Heard
      <3>7. silent' = silent + 1
        BY <1>1, <1>6
      <3> QED BY <1>0, <3>3, <3>5, <3>6, <3>7
    <2> QED BY <1>1, <2>4, <2>5, <2>6, <2>7, <2>8 DEF Heard
  <1>7. silent' \in 0 .. timeout' /\ waited' \in 0 .. HeartbeatInterval'
    BY <1>0, <1>1
  <1> QED BY <1>1, <1>5, <1>6, <1>7 DEF ClockInv

LEMMA ClockNext == TypesOK /\ HistoryInv /\ ClockInv /\ [Next]_vars => ClockInv'
  <1> SUFFICES ASSUME TypesOK, HistoryInv, ClockInv, [Next]_vars PROVE ClockInv'
    OBVIOUS
  <1>1. CASE UNCHANGED vars
    BY <1>1 DEF vars, ClockInv, Sorted, Heard, HeartbeatInterval
  <1>2. CASE LinkBreaks
    <2>1. UNCHANGED <<timeout, silent, waited>> /\ closed' = TRUE
      BY <1>2 DEF LinkBreaks, clientVars, serverVars
    <2>2. /\ Len(requests') \in Nat /\ Len(requests') <= Len(requests) /\ Len(requests) \in Nat
          /\ \A i \in 1 .. Len(requests') : requests'[i] = requests[i]
      BY <1>2, LinkTypes, LenProperties DEF TypesOK
    <2>3. Sorted'
      <3> SUFFICES ASSUME NEW i \in 1 .. Len(requests'), NEW j \in 1 .. Len(requests'), i < j
                   PROVE  requests'[i].age >= requests'[j].age
        BY DEF Sorted
      <3>1. i \in 1 .. Len(requests) /\ j \in 1 .. Len(requests)
        BY <2>2
      <3>2. requests[i].age >= requests[j].age
        BY <3>1 DEF ClockInv, Sorted
      <3>3. requests'[i].age = requests[i].age /\ requests'[j].age = requests[j].age
        BY <2>2
      <3> QED BY <3>2, <3>3
    <2> QED BY <2>1, <2>3 DEF ClockInv, HeartbeatInterval
  <1> QED BY <1>1, <1>2, ClientClock, ServerClock, TickClock DEF Next

LEMMA ClockInit == Init => ClockInv
  <1> SUFFICES ASSUME Init PROVE ClockInv
    OBVIOUS
  <1>1. /\ timeout \in Nat /\ HeartbeatInterval \in Nat /\ Len(requests) = 0
    BY TypesInit, Intervals, EmptySeq DEF Init
  <1> QED BY <1>1 DEF Init, ClockInv, Sorted

(* No call times out that has sent its request whole over a connection     *)
(* that holds, however long its batch or those before it run, for every    *)
(* timeout of a session longer than four times the latency: the heartbeats *)
(* come often enough (server.py:213-235, README.md:540).                   *)
THEOREM HeartbeatsHoldTimeouts == Spec => HeardInTime
  <1>1. Init => TypesOK /\ HistoryInv /\ ClockInv
    BY TypesInit, HistoryInit, ClockInit
  <1>2. /\ TypesOK /\ HistoryInv /\ ClockInv /\ [Next]_vars
        => TypesOK' /\ HistoryInv' /\ ClockInv'
    BY TypesNext, HistoryNext, ClockNext
  <1>3. TypesOK /\ ClockInv /\ [Next]_vars => [latched' /\ ~ latched => cut \/ closed]_vars
    <2> SUFFICES ASSUME TypesOK, ClockInv, [Next]_vars, latched', ~ latched PROVE cut \/ closed
      OBVIOUS
    <2>1. TimeOut
      BY DEF Next, Refuse, SendFails, Send, ReadHeartbeat, ReadReply, ReadEnd, Interrupt,
             Receive, RefuseLine, ReceivePart, SendHeartbeat, EndWork, LinkBreaks, Tick, vars, clientVars
    <2>2. waiting /\ silent >= timeout
      BY <2>1 DEF TimeOut
    <2> SUFFICES ASSUME ~ cut, ~ closed PROVE FALSE
      OBVIOUS
    <2>3. silent < timeout
      BY <2>2, HeardEarly DEF ClockInv
    <2>4. silent \in Nat /\ timeout \in Nat
      BY Intervals DEF ClockInv
    <2> QED BY <2>2, <2>3, <2>4
  <1> QED BY <1>1, <1>2, <1>3, PTL DEF Spec, HeardInTime

(* The type invariant of the module.                                       *)
THEOREM TypeCorrect == Spec => []TypeOK
  <1>1. Init => TypesOK /\ HistoryInv /\ ClockInv
    BY TypesInit, HistoryInit, ClockInit
  <1>2. /\ TypesOK /\ HistoryInv /\ ClockInv /\ [Next]_vars
        => TypesOK' /\ HistoryInv' /\ ClockInv'
    BY TypesNext, HistoryNext, ClockNext
  <1>3. TypesOK /\ HistoryInv /\ ClockInv => TypeOK
    <2> SUFFICES ASSUME TypesOK, HistoryInv, ClockInv PROVE TypeOK
      OBVIOUS
    <2> DEFINE Seen == Canonical \cup GatewayErrors
                       \cup {"none", "values", "RuntimeError", "KeyboardInterrupt"}
    <2>1. \A n \in 1 .. MaxCalls : direct[n].class \in Seen
      <3> TAKE n \in 1 .. MaxCalls
      <3>1. DirectOK(direct[n])
        BY DEF HistoryInv
      <3> QED BY <3>1 DEF DirectOK, NotRun, Failure, Outcome, Canonical
    <2>2. \A n \in 1 .. MaxCalls : result[n].class \in Seen
      <3> TAKE n \in 1 .. MaxCalls
      <3>1. ResultOK(n)
        BY DEF HistoryInv
      <3>2. Own(n).class \in Seen
        BY <2>1 DEF Own, Failure, Outcome, GatewayErrors
      <3>3. NotRun.class \in Seen /\ \A c \in Seen : Failure(c).class \in Seen
        BY DEF NotRun, Failure, Outcome
      <3>4. {"KeyboardInterrupt", "GatewayProtocolError", "GatewayConnectionError"} \subseteq Seen
        BY DEF GatewayErrors
      <3> HIDE DEF Seen
      <3> QED BY <3>1, <3>2, <3>3, <3>4 DEF ResultOK
    <2>3. \A n \in 1 .. MaxCalls : \A o \in {result[n], direct[n]} : o.class \in Seen
      BY <2>1, <2>2
    <2>4. /\ \A i \in DOMAIN requests : requests[i].age \in 0 .. Latency
          /\ \A i \in DOMAIN replies : replies[i].age \in 0 .. Latency
      <3>1. /\ \A i \in DOMAIN requests : requests[i] \in RequestType
            /\ \A i \in DOMAIN replies : replies[i] \in ReplyType
        BY ElementOfSeq, LenProperties DEF TypesOK
      <3> QED BY <3>1, RequestFields DEF ReplyType
    <2>5. silent \in 0 .. timeout /\ waited \in 0 .. MaxHeartbeat
      <3>1. MaxHeartbeat \in Nat /\ waited \in 0 .. HeartbeatInterval
        BY CallAssumption DEF ClockInv
      <3>2. HeartbeatInterval \in 0 .. MaxHeartbeat /\ silent \in 0 .. timeout
        BY Intervals DEF ClockInv
      <3> QED BY <3>1, <3>2
    <2> QED BY <2>3, <2>4, <2>5 DEF TypesOK, TypeOK
  <1> QED BY <1>1, <1>2, <1>3, PTL DEF Spec
===============================================================================
