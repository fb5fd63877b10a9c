-------------------------- MODULE GrpcStreamProofs --------------------------
(***************************************************************************)
(* For every capacity of the pipe and of the channel and every length of   *)
(* the bodies: the handler never sees the end of the pipe before the flag  *)
(* that explains it, and the response implements ByteStream.               *)
(***************************************************************************)
EXTENDS GrpcStream, SequenceTheorems, TLAPS

\* The flag precedes the end of the pipe; only a pump that is lost skips it.
FlagFirst ==
  /\ pump \in {"on", "eof", "closed", "panicked", "dropped"}
  /\ pump \in {"eof", "closed"} => cancelled

IInv == FlagFirst /\ NilOnlyAfterLoss

\* Every step keeps the order of the flag and the end of the pipe.
LEMMA FlagStep == FlagFirst /\ [Next]_vars => FlagFirst'
<1> SUFFICES ASSUME FlagFirst, [Next]_vars PROVE FlagFirst'
    BY Zenon
<1> USE DEF FlagFirst
<1>1. CASE PumpChunk
    BY <1>1, Zenon DEF PumpChunk
<1>2. CASE PumpEnds
    BY <1>2, Zenon DEF PumpEnds
<1>d. CASE PumpDropped
    BY <1>d, Zenon DEF PumpDropped
<1>3. CASE ReadMessage
    BY <1>3, Zenon DEF ReadMessage
<1>4. CASE UNCHANGED pipeVars
    BY <1>4, Zenon DEF pipeVars
<1> QED
    BY <1>1, <1>2, <1>d, <1>3, <1>4, Zenon
       DEF Next, HandlerStep, ServiceStep, Refuse, StartCall, WriteMessage, EndCall, Abort, SendEmpty,
           SendEnds, SendTrailers, CloseStream, Collect, RecvFirst, BuildResponse, PollData,
           PollTrailers, Disconnect, ShutdownAnnounced, RuntimeStops, vars

\* Every step keeps nil away from the service method.
LEMMA NilStep == IInv /\ [Next]_vars => NilOnlyAfterLoss'
<1> SUFFICES ASSUME IInv, [Next]_vars PROVE NilOnlyAfterLoss'
    BY Zenon
<1> USE DEF IInv, FlagFirst, NilOnlyAfterLoss
<1>1. CASE PumpChunk
    BY <1>1, Zenon DEF PumpChunk, callVars
<1>2. CASE PumpEnds
    BY <1>2, Zenon DEF PumpEnds, callVars
<1>d. CASE PumpDropped
    BY <1>d, Zenon DEF PumpDropped, callVars
<1>3. CASE ReadMessage
    BY <1>3, Zenon DEF ReadMessage
<1>4. CASE UNCHANGED <<pump, nils>>
    BY <1>4, Zenon
<1> QED
    BY <1>1, <1>2, <1>d, <1>3, <1>4, Zenon
       DEF Next, HandlerStep, ServiceStep, Refuse, StartCall, WriteMessage, EndCall, Abort, SendEmpty,
           SendEnds, SendTrailers, CloseStream, Collect, RecvFirst, BuildResponse, PollData,
           PollTrailers, Disconnect, ShutdownAnnounced, RuntimeStops, vars, pipeVars, callVars

\* each_remote_read yields nil to a service method only when the task that
\* copies the request body panicked or was dropped with the runtime, however
\* long the body, however small the pipe, and wherever the handler is when the
\* body ends.
THEOREM NoNil == Spec => []NilOnlyAfterLoss
<1>1. Init => IInv
    BY Zenon DEF Init, IInv, FlagFirst, NilOnlyAfterLoss
<1>2. IInv /\ [Next]_vars => IInv'
    BY FlagStep, NilStep, Zenon DEF IInv
<1>3. IInv => NilOnlyAfterLoss
    BY Zenon DEF IInv
<1> QED
    BY <1>1, <1>2, <1>3, PTL DEF Spec

\* What the response channel holds.
Item == Frame \cup {Empty}

(* Facts about queues *)

\* The head of a queue that is not empty, and what is behind it.
LEMMA Behead ==
  ASSUME NEW S, NEW q \in Seq(S), q # << >>
  PROVE  /\ Head(q) \in S /\ Tail(q) \in Seq(S) /\ <<Head(q)>> \in Seq(S)
         /\ <<Head(q)>> \o Tail(q) = q
<1>1. Head(q) \in S /\ Tail(q) \in Seq(S) /\ q = <<Head(q)>> \o Tail(q)
    BY HeadTailProperties
<1> QED
    BY <1>1

\* A frame in front of a queue is its head.
LEMMA Front ==
  ASSUME NEW S, NEW x \in S, NEW q \in Seq(S)
  PROVE  <<x>> \o q \in Seq(S) /\ <<x>> \o q # << >> /\ Head(<<x>> \o q) = x /\ Tail(<<x>> \o q) = q
<1>1. <<x>> \in Seq(S) /\ <<x>> \o q \in Seq(S) /\ Len(<<x>> \o q) = 1 + Len(q)
    OBVIOUS
<1>2. Len(q) \in Nat /\ <<x>> \o q # << >> /\ Head(<<x>> \o q) = x
    BY <1>1
<1>3. /\ Tail(<<x>> \o q) \in Seq(S) /\ Len(Tail(<<x>> \o q)) = Len(q)
      /\ \A i \in 1..Len(q) : Tail(<<x>> \o q)[i] = q[i]
    BY <1>1, <1>2
<1>4. Tail(<<x>> \o q) = q
    BY <1>3
<1> QED
    BY <1>1, <1>2, <1>4

\* The head of a queue of data frames with end marks behind them: a data frame
\* comes from the first part, an end mark says that there is no data.
LEMMA HeadOf ==
  ASSUME NEW s \in Seq(Frame), NEW e \in Seq({Empty}), s \o e # << >>
  PROVE  /\ Head(s \o e) = Empty => s = << >> /\ e # << >>
         /\ Head(s \o e) # Empty => /\ s # << >> /\ Head(s \o e) = Head(s)
                                    /\ Tail(s \o e) = Tail(s) \o e
<1>1. CASE s = << >>
  <2>1. s \o e = e /\ e # << >>
      BY <1>1
  <2>2. Head(e) \in {Empty}
      BY <2>1, Behead, Zenon
  <2> QED
      BY <1>1, <2>1, <2>2, Zenon
<1>2. CASE s # << >>
  <2>1. /\ Head(s) \in Frame /\ Tail(s) \in Seq(Frame) /\ <<Head(s)>> \o Tail(s) = s
        /\ <<Head(s)>> \in Seq(Frame)
      BY <1>2, Behead, Zenon
  <2> DEFINE S == Item
             h == Head(s)
             t == Tail(s)
  <2>2. h \in S /\ t \in Seq(S) /\ e \in Seq(S) /\ <<h>> \in Seq(S)
      BY <2>1 DEF Item
  <2>3. h # Empty
      BY <2>1 DEF Frame, Empty
  <2> HIDE DEF h, t, S
  <2>4. t \o e \in Seq(S) /\ s \o e = <<h>> \o (t \o e)
    <3>1. s = <<h>> \o t
        BY <2>1, Zenon DEF h, t
    <3> QED
        BY <2>2, <3>1, ConcatProperties, ConcatAssociative
  <2>5. Head(s \o e) = h /\ Tail(s \o e) = t \o e
      BY <2>2, <2>4, Front
  <2> QED
      BY <1>2, <2>3, <2>5, Zenon DEF h, t
<1> QED
    BY <1>1, <1>2, Zenon

\* What has been delivered and what is next make a longer delivery.
LEMMA Advance ==
  ASSUME NEW w \in Seq(Frame), NEW s \in Seq(Frame), s # << >>
  PROVE  /\ Append(w, Head(s)) \in Seq(Frame) /\ Tail(s) \in Seq(Frame) /\ Head(s) \in Frame
         /\ Append(w, Head(s)) \o Tail(s) = w \o s
<1>1. Head(s) \in Frame /\ Tail(s) \in Seq(Frame) /\ <<Head(s)>> \in Seq(Frame) /\ <<Head(s)>> \o Tail(s) = s
    BY Behead, Zenon
<1>2. Append(w, Head(s)) = w \o <<Head(s)>> /\ Append(w, Head(s)) \in Seq(Frame)
    BY <1>1
<1>3. (w \o <<Head(s)>>) \o Tail(s) = w \o (<<Head(s)>> \o Tail(s))
    BY <1>1, ConcatAssociative
<1> QED
    BY <1>1, <1>2, <1>3, Zenon

\* A frame appended to the second part is appended to the whole.
LEMMA AppendBehind ==
  ASSUME NEW s \in Seq(Item), NEW t \in Seq(Item), NEW x \in Item
  PROVE  Append(t, x) \in Seq(Item) /\ Append(s \o t, x) = s \o Append(t, x)
<1>1. Append(t, x) \in Seq(Item)
    OBVIOUS
<1>2. Append(s \o t, x) = s \o Append(t, x)
    OBVIOUS
<1> QED
    BY <1>1, <1>2, Zenon

\* A first part is the prefix of its length.
LEMMA FirstPart ==
  ASSUME NEW s \in Seq(Frame), NEW t \in Seq(Frame)
  PROVE  /\ Len(s) \in Nat /\ Len(s \o t) \in Nat /\ Len(s) <= Len(s \o t)
         /\ SubSeq(s \o t, 1, Len(s)) = s
<1>1. Len(s) \in Nat /\ Len(t) \in Nat /\ s \o t \in Seq(Frame) /\ Len(s \o t) = Len(s) + Len(t)
    OBVIOUS
<1>2. \A i \in 1..Len(s) : (s \o t)[i] = s[i]
    BY <1>1
<1>3. /\ SubSeq(s \o t, 1, Len(s)) \in Seq(Frame) /\ Len(SubSeq(s \o t, 1, Len(s))) = Len(s)
      /\ \A i \in 1..Len(s) : SubSeq(s \o t, 1, Len(s))[i] = (s \o t)[i]
    BY <1>1
<1>4. SubSeq(s \o t, 1, Len(s)) = s
    BY <1>1, <1>2, <1>3
<1> QED
    BY <1>1, <1>4

(* The inductive invariant of the response *)

\* Frames taken from the channel for the body that is not built yet, and those
\* still in the channel.
Queue == (IF first = NoFrame THEN << >> ELSE <<first>>) \o chan

RespTypes ==
  /\ chan \in Seq(Item)
  /\ first \in Frame \cup {Empty, NoFrame} /\ sending \in Frame \cup {Empty, NoFrame}
  /\ accepted \in Seq(Frame) /\ wire \in Seq(Frame)
  /\ closed \in BOOLEAN

\* Which part of the response exists while the service task is where.
Built ==
  /\ svc \in {"recv", "lock", "built", "dropped"}
  /\ svc = "lock" <=> first # NoFrame
  /\ svc \in {"recv", "lock"} => body = "none" /\ wire = << >>
  /\ svc = "built" => body \in {"data", "trailers", "ended", "gone"}
  /\ svc = "dropped" => body = "gone"

\* The handler writes no data once it has sent the end of the stream.
Writers ==
  /\ handler = "start" => sending = NoFrame
  /\ sending \in Frame => handler \in {"unknown", "call", "restatus"}
  /\ sending = Empty => handler \in {"refused", "close", "over", "lost"}
  /\ closed /\ ReceiverAlive => handler \in {"close", "over", "lost", "freed", "dropped"}

\* What was accepted is what was delivered and then the data in the queue; end
\* marks come last.
Ordered ==
  /\ \E s \in Seq(Frame) : accepted = wire \o s
  /\ ReceiverAlive => \E s \in Seq(Frame), e \in Seq({Empty}) :
       Queue = s \o e /\ accepted = wire \o s /\ (closed \/ e = << >>)

RInv == RespTypes /\ Built /\ Writers /\ Ordered

\* The steps that touch the response.
LEMMA RespMoves ==
  ASSUME [Next]_vars
  PROVE  \/ SendEnds \/ RecvFirst \/ BuildResponse \/ PollData \/ PollTrailers
         \/ Disconnect \/ ShutdownAnnounced \/ RuntimeStops
         \/ UNCHANGED <<chan, accepted, closed, svc, first, body, wire, phase>>
<1>1. CASE PumpChunk \/ PumpEnds \/ PumpDropped \/ UNCHANGED vars
    BY <1>1, Zenon DEF PumpChunk, PumpEnds, PumpDropped, vars, chanVars, respVars
<1>2. CASE Refuse \/ StartCall \/ ReadMessage
    BY <1>2, Zenon DEF Refuse, StartCall, ReadMessage, BeginSend, chanVars, respVars
<1>3. CASE WriteMessage \/ EndCall \/ Abort \/ SendEmpty
    BY <1>3, Zenon DEF WriteMessage, EndCall, Abort, SendEmpty, BeginSend, chanVars, respVars
<1>4. CASE SendTrailers \/ CloseStream \/ Collect
    BY <1>4, Zenon DEF SendTrailers, CloseStream, Collect, BeginSend, chanVars, respVars
<1> QED
    BY <1>1, <1>2, <1>3, <1>4, Zenon DEF Next, HandlerStep, ServiceStep

\* A frame that waits is a frame of the application or the end mark.
LEMMA SendingType == RespTypes /\ [Next]_vars => sending' \in Frame \cup {Empty, NoFrame}
<1> SUFFICES ASSUME RespTypes, [Next]_vars PROVE sending' \in Frame \cup {Empty, NoFrame}
    BY Zenon
<1>0. sending \in Frame \cup {Empty, NoFrame}
    BY Zenon DEF RespTypes
<1>1. CASE WriteMessage
  <2>1. sending' = Len(accepted) + 1 /\ Len(accepted) < MaxFrames
      BY <1>1, Zenon DEF WriteMessage, BeginSend
  <2>2. Len(accepted) \in Nat /\ MaxFrames \in Nat
      BY GrpcAssumption DEF RespTypes
  <2> QED
      BY <2>1, <2>2 DEF Frame
<1>2. CASE StartCall \/ SendEmpty
  <2>1. sending' = 1 \/ sending' = sending
      BY <1>2, Zenon DEF StartCall, SendEmpty, BeginSend, chanVars
  <2>2. 1 \in Frame
      BY GrpcAssumption DEF Frame
  <2> QED
      BY <1>0, <2>1, <2>2, Zenon
<1>3. CASE Refuse \/ CloseStream \/ SendEnds
    BY <1>3, Zenon DEF Refuse, CloseStream, SendEnds, BeginSend
<1>4. CASE sending' = sending
    BY <1>0, <1>4, Zenon
<1>5. \/ WriteMessage \/ StartCall \/ SendEmpty \/ Refuse \/ CloseStream \/ SendEnds
      \/ sending' = sending
  <2>1. CASE PumpChunk \/ PumpEnds \/ PumpDropped \/ UNCHANGED vars
      BY <2>1, Zenon DEF PumpChunk, PumpEnds, PumpDropped, vars, chanVars
  <2>2. CASE ReadMessage \/ EndCall \/ Abort \/ SendTrailers \/ Collect
      BY <2>2, Zenon DEF ReadMessage, EndCall, Abort, SendTrailers, Collect, chanVars
  <2>3. CASE ServiceStep \/ Disconnect \/ ShutdownAnnounced \/ RuntimeStops
      BY <2>3, Zenon DEF ServiceStep, RecvFirst, BuildResponse, PollData, PollTrailers, Disconnect,
         ShutdownAnnounced, RuntimeStops, chanVars
  <2> QED
      BY <2>1, <2>2, <2>3, Zenon DEF Next, HandlerStep
<1> QED
    BY <1>1, <1>2, <1>3, <1>4, <1>5, Zenon

\* Every step keeps Built.
LEMMA BuiltStep == RespTypes /\ Built /\ [Next]_vars => Built'
<1> SUFFICES ASSUME RespTypes, Built, [Next]_vars PROVE Built'
    BY Zenon
<1> USE DEF Built
<1>1. CASE SendEnds
    BY <1>1, Zenon DEF SendEnds, respVars
<1>2. CASE RecvFirst
  <2>1. Head(chan) \in Item
      BY <1>2, Behead, Zenon DEF RecvFirst, RespTypes
  <2>2. Head(chan) # NoFrame
      BY <2>1 DEF Frame, Empty, NoFrame, Item
  <2> QED
      BY <1>2, <2>2, Zenon DEF RecvFirst
<1>3. CASE BuildResponse
    BY <1>3, Zenon DEF BuildResponse
<1>4. CASE PollData
    BY <1>4, Zenon DEF PollData
<1>5. CASE PollTrailers
    BY <1>5, Zenon DEF PollTrailers
<1>6. CASE Disconnect
    BY <1>6, Zenon DEF Disconnect
<1>7. CASE ShutdownAnnounced \/ RuntimeStops
    BY <1>7, Zenon DEF ShutdownAnnounced, RuntimeStops, respVars
<1>8. CASE UNCHANGED <<chan, accepted, closed, svc, first, body, wire, phase>>
    BY <1>8, Zenon
<1> QED
    BY <1>1, <1>2, <1>3, <1>4, <1>5, <1>6, <1>7, <1>8, RespMoves, Zenon

\* A receiver that is gone does not come back.
LEMMA ReceiverGoes == Built /\ [Next]_vars /\ ~ReceiverAlive => ~ReceiverAlive'
<1> SUFFICES ASSUME Built, [Next]_vars, ~ReceiverAlive PROVE ~ReceiverAlive'
    BY Zenon
<1>1. svc \in {"built", "dropped"} /\ body # "data"
    BY Zenon DEF Built, ReceiverAlive
<1>2. svc' \in {"built", "dropped"} /\ body' # "data"
    BY <1>1, RespMoves, Zenon DEF SendEnds, RecvFirst, BuildResponse, PollData, PollTrailers,
       Disconnect, ShutdownAnnounced, RuntimeStops, respVars
<1> QED
    BY <1>2, Zenon DEF ReceiverAlive

\* Every step keeps Writers.
LEMMA WritersStep == RInv /\ [Next]_vars => Writers'
<1> SUFFICES ASSUME RInv, [Next]_vars PROVE Writers'
    BY Zenon
<1>0. RespTypes /\ Built /\ Writers
    BY Zenon DEF RInv
<1>a. Empty # NoFrame /\ Empty \notin Frame /\ NoFrame \notin Frame /\ 1 # Empty
    BY DEF Empty, NoFrame, Frame
<1>b. ReceiverAlive' => ReceiverAlive
    BY <1>0, ReceiverGoes, Zenon
<1>1. CASE SendEnds
  <2>1. sending' = NoFrame /\ sending \in Item
      BY <1>0, <1>1, Zenon DEF SendEnds, Idle, RespTypes, Item
  <2>2. ASSUME closed', ReceiverAlive' PROVE handler' \in {"close", "over", "lost", "freed", "dropped"}
      BY <1>0, <1>1, <1>b, <2>1, <2>2, Zenon DEF SendEnds, Writers
  <2> QED
      BY <1>a, <2>1, <2>2, Zenon DEF Writers
<1>2. CASE sending' = sending /\ handler' = handler /\ closed' = closed
    BY <1>0, <1>2, <1>b, Zenon DEF Writers
<1>3. CASE Refuse \/ StartCall
  <2>1. handler = "start" /\ sending = NoFrame /\ closed' = closed
      BY <1>0, <1>3, Zenon DEF Refuse, StartCall, BeginSend, Writers, chanVars
  <2>2. \/ handler' = "refused" /\ sending' = Empty
        \/ handler' = "unknown" /\ sending' = 1
        \/ handler' = "call" /\ sending' = sending
      BY <1>3, Zenon DEF Refuse, StartCall, BeginSend, chanVars
  <2>3. ~(closed' /\ ReceiverAlive')
      BY <1>0, <1>b, <2>1, Zenon DEF Writers
  <2> QED
      BY <1>a, <2>1, <2>2, <2>3, Zenon DEF Writers
<1>4. CASE ReadMessage \/ EndCall \/ Abort \/ SendTrailers \/ Collect
  <2>1. sending' = NoFrame /\ closed' = closed
      BY <1>4, Zenon DEF ReadMessage, EndCall, Abort, SendTrailers, Collect, Idle, chanVars
  <2>2. handler \notin {"start", "close", "freed", "dropped"}
      BY <1>4, Zenon DEF ReadMessage, EndCall, Abort, SendTrailers, Collect
  <2>3. handler' # "start" /\ (handler \in {"over", "lost"} => handler' = "freed")
      BY <1>4, <2>2, Zenon DEF ReadMessage, EndCall, Abort, SendTrailers, Collect
  <2> QED
      BY <1>0, <1>a, <1>b, <2>1, <2>2, <2>3, Zenon DEF Writers
<1>5. CASE WriteMessage
  <2>1. sending' # Empty
    <3>1. Len(accepted) \in Nat /\ sending' = Len(accepted) + 1
        BY <1>0, <1>5 DEF RespTypes, WriteMessage, BeginSend
    <3> QED
        BY <3>1 DEF Empty
  <2> QED
      BY <1>0, <1>5, <1>b, <2>1, Zenon DEF WriteMessage, BeginSend, Writers, callVars
<1>6. CASE SendEmpty
  <2>1. 1 # Empty
      BY DEF Empty
  <2> QED
      BY <1>0, <1>6, <1>a, <1>b, <2>1, Zenon DEF SendEmpty, BeginSend, Idle, Writers, chanVars
<1>7. CASE CloseStream
    BY <1>0, <1>7, <1>a, <1>b, Zenon DEF CloseStream, BeginSend, Idle, Writers
<1>8. \/ SendEnds \/ Refuse \/ StartCall \/ ReadMessage \/ EndCall \/ Abort \/ SendTrailers \/ Collect
      \/ WriteMessage \/ SendEmpty \/ CloseStream
      \/ sending' = sending /\ handler' = handler /\ closed' = closed
  <2>1. CASE PumpChunk \/ PumpEnds \/ PumpDropped \/ UNCHANGED vars
      BY <2>1, Zenon DEF PumpChunk, PumpEnds, PumpDropped, vars, chanVars, callVars
  <2>2. CASE ServiceStep \/ Disconnect \/ ShutdownAnnounced \/ RuntimeStops
      BY <2>2, Zenon DEF ServiceStep, RecvFirst, BuildResponse, PollData, PollTrailers, Disconnect,
         ShutdownAnnounced, RuntimeStops, chanVars, callVars
  <2> QED
      BY <2>1, <2>2, Zenon DEF Next, HandlerStep
<1> QED
    BY <1>1, <1>2, <1>3, <1>4, <1>5, <1>6, <1>7, <1>8, Zenon

\* The queue with and without a first frame.
LEMMA QueueIs ==
  ASSUME RespTypes
  PROVE  /\ Queue \in Seq(Item)
         /\ first = NoFrame => Queue = chan
         /\ first # NoFrame => Queue # << >> /\ Head(Queue) = first /\ Tail(Queue) = chan
<1> DEFINE S == Item
<1>1. chan \in Seq(S) /\ first \in S \cup {NoFrame}
    BY Zenon DEF RespTypes, Item
<1> HIDE DEF S
<1>2. CASE first = NoFrame
  <2>1. << >> \o chan = chan
      BY <1>1
  <2> QED
      BY <1>1, <1>2, <2>1, Zenon DEF Queue, S
<1>3. CASE first # NoFrame
  <2>1. first \in S
      BY <1>1, <1>3, Zenon
  <2>2. Queue = <<first>> \o chan
      BY <1>3, Zenon DEF Queue
  <2> QED
      BY <1>1, <1>3, <2>1, <2>2, Front DEF S
<1> QED
    BY <1>2, <1>3, Zenon

\* The frame at the head of the queue is the next one to deliver; an end mark
\* there means that the handler has closed and everything was delivered.
LEMMA NextFrame ==
  ASSUME RInv, ReceiverAlive, Queue # << >>
  PROVE  /\ Head(Queue) = Empty => closed /\ accepted = wire
         /\ Head(Queue) # Empty =>
              /\ Head(Queue) \in Frame /\ Append(wire, Head(Queue)) \in Seq(Frame)
              /\ \E s \in Seq(Frame), e \in Seq({Empty}) :
                   /\ Tail(Queue) = s \o e /\ accepted = Append(wire, Head(Queue)) \o s
                   /\ closed \/ e = << >>
<1>1. PICK s \in Seq(Frame), e \in Seq({Empty}) :
        Queue = s \o e /\ accepted = wire \o s /\ (closed \/ e = << >>)
    BY Zenon DEF RInv, Ordered
<1>2. wire \in Seq(Frame)
    BY Zenon DEF RInv, RespTypes
<1>3. CASE Head(Queue) = Empty
  <2>1. s = << >> /\ e # << >>
      BY <1>1, <1>3, HeadOf, Zenon
  <2>2. wire \o << >> = wire
      BY <1>2
  <2> QED
      BY <1>1, <1>3, <2>1, <2>2, Zenon
<1>4. CASE Head(Queue) # Empty
  <2>1. s # << >> /\ Head(Queue) = Head(s) /\ Tail(Queue) = Tail(s) \o e
      BY <1>1, <1>4, HeadOf, Zenon
  <2>2. /\ Append(wire, Head(s)) \in Seq(Frame) /\ Tail(s) \in Seq(Frame) /\ Head(s) \in Frame
        /\ Append(wire, Head(s)) \o Tail(s) = wire \o s
      BY <1>2, <2>1, Advance, Zenon
  <2> QED
      BY <1>1, <1>4, <2>1, <2>2, Zenon
<1> QED
    BY <1>3, <1>4, Zenon

\* What SendEnds makes of the queue.
LEMMA SendMoves ==
  ASSUME RInv, SendEnds, ReceiverAlive
  PROVE  /\ chan' \in Seq(Item) /\ Queue' = Append(Queue, sending)
         /\ \/ sending = Empty /\ closed' /\ accepted' = accepted
            \/ /\ sending \in Frame /\ ~closed /\ ~closed'
               /\ accepted' = Append(accepted, sending) /\ accepted' \in Seq(Frame)
<1> DEFINE S == Item
<1>1. chan \in Seq(S) /\ sending \in S /\ first \in S \cup {NoFrame} /\ chan' = Append(chan, sending)
    BY Zenon DEF RInv, RespTypes, SendEnds, Idle, Item
<1>2. first' = first
    BY Zenon DEF SendEnds, respVars
<1>3. sending = Empty => closed' /\ accepted' = accepted
    BY Zenon DEF SendEnds
<1>4. ASSUME sending \in Frame
      PROVE  /\ ~closed /\ ~closed'
             /\ accepted' = Append(accepted, sending) /\ accepted' \in Seq(Frame)
  <2>1. ~closed
      BY <1>4, Zenon DEF RInv, Writers
  <2>2. sending # Empty
      BY <1>4 DEF Frame, Empty
  <2>3. accepted' = Append(accepted, sending) /\ closed' = closed
      BY <2>2, Zenon DEF SendEnds
  <2>4. Append(accepted, sending) \in Seq(Frame)
      BY <1>4 DEF RInv, RespTypes
  <2> QED
      BY <2>1, <2>3, <2>4, Zenon
<1> DEFINE p == IF first = NoFrame THEN << >> ELSE <<first>>
<1>5. p \in Seq(S)
  <2>1. << >> \in Seq(S)
      OBVIOUS
  <2>2. first \in S => <<first>> \in Seq(S)
      OBVIOUS
  <2> QED
      BY <1>1, <2>1, <2>2, Zenon
<1>6. Queue = p \o chan /\ Queue' = p \o chan'
    BY <1>2, Zenon DEF Queue
<1> HIDE DEF p
<1>7. Append(chan, sending) \in Seq(S) /\ Append(p \o chan, sending) = p \o Append(chan, sending)
    BY <1>1, <1>5, AppendBehind, Zenon
<1>8. chan' \in Seq(S) /\ Queue' = Append(Queue, sending)
    BY <1>1, <1>6, <1>7, Zenon
<1> QED
    BY <1>1, <1>3, <1>4, <1>8, Zenon DEF Item

\* The next frame is handed on, or the end is seen and the body is over.
LEMMA TakeMoves ==
  ASSUME RInv, [Next]_vars, ReceiverAlive, Queue # << >>,
         chan' = Tail(Queue), first' = NoFrame, accepted' = accepted, closed' = closed,
         Head(Queue) = Empty => wire' = wire /\ ~ReceiverAlive',
         Head(Queue) # Empty => wire' = Append(wire, Head(Queue))
  PROVE  RespTypes' /\ Ordered'
<1>1. RespTypes /\ Ordered /\ Queue \in Seq(Item)
    BY QueueIs, Zenon DEF RInv
<1>2. Tail(Queue) \in Seq(Item)
    BY <1>1, Behead, Zenon
<1>3. sending' \in Frame \cup {Empty, NoFrame}
    BY <1>1, SendingType, Zenon
<1>4. Queue' = Tail(Queue)
  <2>1. << >> \o Tail(Queue) = Tail(Queue)
      BY <1>2
  <2> QED
      BY <2>1, Zenon DEF Queue
<1>5. CASE Head(Queue) = Empty
    BY <1>1, <1>2, <1>3, <1>5, Zenon DEF RespTypes, Ordered
<1>6. CASE Head(Queue) # Empty
  <2>1. wire' \in Seq(Frame)
      BY <1>6, NextFrame, Zenon
  <2>2. PICK s \in Seq(Frame), e \in Seq({Empty}) :
          Queue' = s \o e /\ accepted' = wire' \o s /\ (closed' \/ e = << >>)
      BY <1>4, <1>6, NextFrame, Zenon
  <2>3. Ordered'
      BY <2>2, Zenon DEF Ordered
  <2> QED
      BY <1>1, <1>2, <1>3, <2>1, <2>3, Zenon DEF RespTypes
<1> QED
    BY <1>5, <1>6, Zenon

\* Every step keeps the types and the order.
LEMMA OrderedStep == RInv /\ [Next]_vars => RespTypes' /\ Ordered'
<1> SUFFICES ASSUME RInv, [Next]_vars PROVE RespTypes' /\ Ordered'
    BY Zenon
<1>0. RespTypes /\ Built /\ Writers /\ Ordered
    BY Zenon DEF RInv
<1>a. sending' \in Frame \cup {Empty, NoFrame}
    BY <1>0, SendingType, Zenon
<1>b. ReceiverAlive' => ReceiverAlive
    BY <1>0, ReceiverGoes, Zenon
<1>c. ASSUME UNCHANGED <<accepted, closed, wire>>, chan' \in Seq(Item),
             first' \in Frame \cup {Empty, NoFrame}, ReceiverAlive' => Queue' = Queue
      PROVE  RespTypes' /\ Ordered'
  <2>1. RespTypes'
      BY <1>0, <1>a, <1>c, Zenon DEF RespTypes
  <2>2. Ordered'
      BY <1>0, <1>b, <1>c, Zenon DEF Ordered
  <2> QED
      BY <2>1, <2>2, Zenon
<1>1. CASE SendEnds /\ ReceiverAlive
  <2>1. PICK s \in Seq(Frame), e \in Seq({Empty}) :
          Queue = s \o e /\ accepted = wire \o s /\ (closed \/ e = << >>)
      BY <1>0, <1>1, Zenon DEF Ordered
  <2>2. wire' = wire /\ first' = first /\ wire \in Seq(Frame)
      BY <1>0, <1>1, Zenon DEF SendEnds, respVars, RespTypes
  <2>3. /\ chan' \in Seq(Item) /\ Queue' = Append(Queue, sending)
        /\ \/ sending = Empty /\ closed' /\ accepted' = accepted
           \/ /\ sending \in Frame /\ ~closed /\ ~closed'
              /\ accepted' = Append(accepted, sending) /\ accepted' \in Seq(Frame)
      BY <1>1, SendMoves, Zenon
  <2>4. RespTypes'
    <3>1. closed' \in BOOLEAN
        BY <1>0, <1>1, Zenon DEF SendEnds, RespTypes
    <3> QED
        BY <1>0, <1>a, <2>2, <2>3, <3>1, Zenon DEF RespTypes
  <2>5. CASE sending = Empty /\ closed' /\ accepted' = accepted
    <3> DEFINE S == Item
    <3>1. s \in Seq(S) /\ e \in Seq(S) /\ sending \in S /\ Append(e, sending) \in Seq({Empty})
        BY <2>5 DEF Item
    <3>2. Append(s \o e, sending) = s \o Append(e, sending)
        BY <3>1, AppendBehind, Zenon
    <3>3. Queue' = s \o Append(e, sending)
        BY <2>1, <2>3, <3>2, Zenon
    <3> QED
        BY <2>1, <2>2, <2>4, <2>5, <3>1, <3>3, Zenon DEF Ordered
  <2>6. CASE /\ sending \in Frame /\ ~closed /\ ~closed'
             /\ accepted' = Append(accepted, sending)
    <3>0. /\ wire \in Seq(Frame) /\ sending \in Frame
          /\ accepted = wire \o s /\ accepted' = Append(accepted, sending)
        BY <2>1, <2>2, <2>6, Zenon
    <3>1. Append(s, sending) \in Seq(Frame) /\ accepted' = wire' \o Append(s, sending)
      <4>1. Append(s, sending) \in Seq(Frame)
          BY <3>0
      <4>2. accepted' = wire \o Append(s, sending)
        <5>1. wire \in Seq(Item) /\ s \in Seq(Item)
            BY <3>0 DEF Item
        <5>2. Append(wire \o s, sending) = wire \o Append(s, sending)
            BY <3>0, <5>1, AppendBehind, Zenon DEF Item
        <5> QED
            BY <3>0, <5>2, Zenon
      <4> QED
          BY <2>2, <4>1, <4>2, Zenon
    <3>2. e = << >> /\ e \in Seq({Empty}) /\ s \o << >> = s
        BY <2>1, <2>6
    <3>3. Queue' = Append(s, sending)
        BY <2>1, <2>3, <3>2, Zenon
    <3>4. Queue' = Append(s, sending) \o e
        BY <3>1, <3>2, <3>3
    <3> QED
        BY <2>4, <3>1, <3>2, <3>4, Zenon DEF Ordered
  <2> QED
      BY <2>3, <2>5, <2>6, Zenon
<1>2. CASE SendEnds /\ ~ReceiverAlive
  <2>1. UNCHANGED <<accepted, wire, chan, first>> /\ closed'
      BY <1>2, Zenon DEF SendEnds, respVars
  <2>2. ~ReceiverAlive'
      BY <1>2, <1>b, Zenon
  <2> QED
      BY <1>0, <1>a, <2>1, <2>2, Zenon DEF RespTypes, Ordered
<1>3. CASE RecvFirst
  <2>1. /\ first = NoFrame /\ chan # << >> /\ first' = Head(chan) /\ chan' = Tail(chan)
        /\ UNCHANGED <<accepted, closed, wire>>
      BY <1>0, <1>3, Zenon DEF RecvFirst, Built
  <2>2. /\ Head(chan) \in Item /\ Tail(chan) \in Seq(Item)
        /\ <<Head(chan)>> \o Tail(chan) = chan
      BY <1>0, <2>1, Behead, Zenon DEF RespTypes
  <2>3. Head(chan) # NoFrame
      BY <2>2 DEF Frame, Empty, NoFrame, Item
  <2>4. Queue' = chan /\ Queue = chan
    <3>1. Queue' = <<Head(chan)>> \o Tail(chan)
        BY <2>1, <2>3, Zenon DEF Queue
    <3> QED
        BY <1>0, <2>1, <2>2, <3>1, QueueIs, Zenon
  <2> QED
      BY <1>c, <2>1, <2>2, <2>4, Zenon DEF Item
<1>4. CASE BuildResponse
  <2>1. /\ svc = "lock" /\ first # NoFrame /\ first' = NoFrame /\ svc' = "built" /\ wire = << >>
        /\ UNCHANGED <<accepted, closed, chan>>
        /\ first = Empty => wire' = wire /\ body' = "trailers"
        /\ first # Empty => wire' = <<first>>
      BY <1>0, <1>4, Zenon DEF BuildResponse, Built, chanVars
  <2>2. Queue # << >> /\ Head(Queue) = first /\ Tail(Queue) = chan
      BY <1>0, <2>1, QueueIs, Zenon
  <2>3. Append(<< >>, first) = <<first>>
      OBVIOUS
  <2>4. ReceiverAlive /\ (first = Empty => ~ReceiverAlive')
      BY <2>1, Zenon DEF ReceiverAlive
  <2> QED
      BY <2>1, <2>2, <2>3, <2>4, TakeMoves, Zenon
<1>5. CASE PollData
  <2>1. /\ body = "data" /\ first = NoFrame /\ svc = "built" /\ svc' = "built"
        /\ UNCHANGED <<accepted, closed, first>>
      BY <1>0, <1>5, Zenon DEF PollData, Built
  <2>2. Queue = chan /\ ReceiverAlive
      BY <1>0, <2>1, QueueIs, Zenon DEF ReceiverAlive
  <2>3. CASE /\ chan # << >> /\ chan' = Tail(chan)
             /\ Head(chan) = Empty => wire' = wire /\ body' = "trailers"
             /\ Head(chan) # Empty => wire' = Append(wire, Head(chan))
    <3>1. Head(chan) = Empty => ~ReceiverAlive'
        BY <2>1, <2>3, Zenon DEF ReceiverAlive
    <3> QED
        BY <2>1, <2>2, <2>3, <3>1, TakeMoves, Zenon
  <2>4. CASE chan' = chan /\ wire' = wire
    <3>1. Queue' = Queue
        BY <2>1, <2>4, Zenon DEF Queue
    <3> QED
        BY <1>0, <1>c, <2>1, <2>4, <3>1, Zenon DEF RespTypes
  <2> QED
      BY <1>5, <2>3, <2>4, Zenon DEF PollData
<1>6. CASE PollTrailers \/ Disconnect \/ ShutdownAnnounced \/ RuntimeStops
           \/ UNCHANGED <<chan, accepted, closed, svc, first, body, wire, phase>>
  <2>1. UNCHANGED <<chan, accepted, closed, first, wire>>
      BY <1>6, Zenon DEF PollTrailers, Disconnect, ShutdownAnnounced, RuntimeStops, chanVars, respVars
  <2>2. Queue' = Queue
      BY <2>1, Zenon DEF Queue
  <2> QED
      BY <1>0, <1>c, <2>1, <2>2, Zenon DEF RespTypes
<1> QED
    BY <1>1, <1>2, <1>3, <1>4, <1>5, <1>6, RespMoves, Zenon

\* RInv is inductive.
LEMMA RespInductive == RInv /\ [Next]_vars => RInv'
    BY OrderedStep, BuiltStep, WritersStep, Zenon DEF RInv

\* It holds initially.
LEMMA RespInit == Init => RInv
<1> SUFFICES ASSUME Init PROVE RInv
    BY Zenon
<1>1. << >> \o << >> = << >> /\ << >> \in Seq(Frame) /\ << >> \in Seq({Empty})
      /\ << >> \in Seq(Item)
    OBVIOUS
<1>2. NoFrame \notin Frame /\ NoFrame # Empty
    BY DEF Frame, NoFrame, Empty
<1>3. RespTypes /\ Built
    BY <1>1, Zenon DEF Init, RespTypes, Built
<1>4. Writers
    BY <1>2, Zenon DEF Init, Writers
<1>5. Queue = << >>
    BY <1>1, Zenon DEF Init, Queue
<1>6. Ordered
    BY <1>1, <1>5, Zenon DEF Init, Ordered
<1> QED
    BY <1>3, <1>4, <1>6, Zenon DEF RInv

(* The steps of ByteStream in terms of the call *)

Over == body \in {"trailers", "ended", "gone"}
AbstractStep == [Stream!Next]_(Stream!vars)

\* A step that changes nothing the stream shows is a stutter.
LEMMA AbsStutter ==
  ASSUME accepted' = accepted, wire' = wire, closed' = closed, Cut' <=> Cut, Over' <=> Over
  PROVE  AbstractStep
    BY DEF AbstractStep, Stream!vars, Over, Cut

\* A message that the channel takes is a Write.
LEMMA AbsWrite ==
  ASSUME NEW f \in Frame, ~closed, closed' \in BOOLEAN, accepted' = Append(accepted, f),
         wire' = wire, Cut' <=> Cut, Over' <=> Over
  PROVE  AbstractStep
    BY DEF AbstractStep, Stream!Next, Stream!Write, Over, Cut

\* The end mark, or a write that finds no receiver, is a Close.
LEMMA AbsClose ==
  ASSUME closed' = TRUE, accepted' = accepted, wire' = wire, Cut' <=> Cut, Over' <=> Over
  PROVE  AbstractStep
    BY DEF AbstractStep, Stream!Next, Stream!Close, Over, Cut

\* Frames handed to hyper, and the end of the data, are a Deliver.
LEMMA AbsDeliver ==
  ASSUME ~Over, NEW n \in Len(wire)..Len(accepted), wire' = SubSeq(accepted, 1, n),
         Over' => Cut \/ (closed /\ wire' = accepted),
         accepted' = accepted, closed' = closed, Cut' <=> Cut
  PROVE  AbstractStep
    BY DEF AbstractStep, Stream!Next, Stream!Deliver, Over, Cut

\* The loss of the client and the announcement of shutdown are a Cut.
LEMMA AbsCut ==
  ASSUME ~Cut, Cut', Over => Over', closed \in BOOLEAN, closed' = closed, accepted' = accepted,
         NEW n \in Len(wire)..Len(accepted), wire' = SubSeq(accepted, 1, n)
  PROVE  AbstractStep
    BY DEF AbstractStep, Stream!Next, Stream!Cut, Over, Cut

\* What was delivered is a prefix of what was accepted.
LEMMA WirePrefix ==
  ASSUME RInv
  PROVE  Len(wire) \in Len(wire)..Len(accepted) /\ wire = SubSeq(accepted, 1, Len(wire))
<1>1. PICK s \in Seq(Frame) : accepted = wire \o s
    BY Zenon DEF RInv, Ordered
<1>2. wire \in Seq(Frame)
    BY Zenon DEF RInv, RespTypes
<1>3. /\ Len(wire) \in Nat /\ Len(accepted) \in Nat /\ Len(wire) <= Len(accepted)
      /\ SubSeq(accepted, 1, Len(wire)) = wire
    BY <1>1, <1>2, FirstPart, Zenon
<1> QED
    BY <1>3

\* So is what was delivered together with the next frame.
LEMMA NextPrefix ==
  ASSUME RInv, ReceiverAlive, Queue # << >>, Head(Queue) # Empty,
         wire' = Append(wire, Head(Queue))
  PROVE  Len(wire') \in Len(wire)..Len(accepted) /\ wire' = SubSeq(accepted, 1, Len(wire'))
<1>1. PICK s \in Seq(Frame) : accepted = wire' \o s
    BY NextFrame, Zenon
<1>2. wire' \in Seq(Frame) /\ wire \in Seq(Frame)
    BY NextFrame, Zenon DEF RInv, RespTypes
<1>3. /\ Len(wire') \in Nat /\ Len(accepted) \in Nat /\ Len(wire') <= Len(accepted)
      /\ SubSeq(accepted, 1, Len(wire')) = wire'
    BY <1>1, <1>2, FirstPart, Zenon
<1>4. Len(wire) \in Nat /\ Len(wire') = Len(wire) + 1
    BY <1>2
<1> QED
    BY <1>3, <1>4

\* Every step of the call is a step of ByteStream or leaves it alone.
LEMMA StepRefines == RInv /\ [Next]_vars => AbstractStep
<1> SUFFICES ASSUME RInv, [Next]_vars PROVE AbstractStep
    BY Zenon
<1>0. RespTypes /\ Built /\ Writers
    BY Zenon DEF RInv
<1>a. Len(wire) \in Len(wire)..Len(accepted) /\ wire = SubSeq(accepted, 1, Len(wire))
    BY WirePrefix, Zenon
<1>1. CASE SendEnds
  <2>1. wire' = wire /\ (Cut' <=> Cut) /\ (Over' <=> Over)
      BY <1>1, Zenon DEF SendEnds, respVars, Cut, Over
  <2>2. CASE ReceiverAlive
    <3>1. closed' \in BOOLEAN
        BY <1>0, <1>1, Zenon DEF SendEnds, RespTypes
    <3>2. CASE sending = Empty /\ closed' /\ accepted' = accepted
        BY <2>1, <3>1, <3>2, AbsClose, Zenon
    <3>3. CASE sending \in Frame /\ ~closed /\ accepted' = Append(accepted, sending)
        BY <2>1, <3>1, <3>3, AbsWrite, Zenon
    <3> QED
        BY <1>1, <2>2, <3>2, <3>3, SendMoves, Zenon
  <2>3. CASE ~ReceiverAlive
    <3>1. closed' = TRUE /\ accepted' = accepted
        BY <1>1, <2>3, Zenon DEF SendEnds
    <3> QED
        BY <2>1, <3>1, AbsClose, Zenon
  <2> QED
      BY <2>2, <2>3, Zenon
<1>2. CASE RecvFirst
    BY <1>2, AbsStutter, Zenon DEF RecvFirst, Cut, Over
<1>3. CASE BuildResponse
  <2>1. /\ svc = "lock" /\ first # NoFrame /\ body = "none" /\ wire = << >>
        /\ UNCHANGED <<accepted, closed, phase>> /\ body' \in {"data", "trailers"}
        /\ first = Empty => wire' = wire
        /\ first # Empty => wire' = <<first>> /\ body' = "data"
      BY <1>0, <1>3, Zenon DEF BuildResponse, Built, chanVars
  <2>2. Queue # << >> /\ Head(Queue) = first /\ ReceiverAlive
      BY <1>0, <2>1, QueueIs, Zenon DEF ReceiverAlive
  <2>3. ~Over /\ (Cut' <=> Cut)
      BY <2>1, Zenon DEF Over, Cut
  <2>4. CASE first = Empty
    <3>1. closed /\ accepted = wire
        BY <2>2, <2>4, NextFrame, Zenon
    <3> QED
        BY <1>a, <2>1, <2>3, <2>4, <3>1, AbsDeliver, Zenon
  <2>5. CASE first # Empty
    <3>1. Append(<< >>, first) = <<first>>
        OBVIOUS
    <3>2. ~Over'
        BY <2>1, <2>5, Zenon DEF Over
    <3>3. Len(wire') \in Len(wire)..Len(accepted) /\ wire' = SubSeq(accepted, 1, Len(wire'))
        BY <2>1, <2>2, <2>5, <3>1, NextPrefix, Zenon
    <3> QED
        BY <2>1, <2>3, <3>2, <3>3, AbsDeliver, Zenon
  <2> QED
      BY <2>4, <2>5, Zenon
<1>4. CASE PollData
  <2>1. /\ body = "data" /\ first = NoFrame /\ UNCHANGED <<accepted, closed, phase>>
        /\ body' \in {"data", "trailers"}
      BY <1>0, <1>4, Zenon DEF PollData, Built
  <2>2. Queue = chan /\ ReceiverAlive /\ ~Over /\ (Cut' <=> Cut)
      BY <1>0, <2>1, QueueIs, Zenon DEF ReceiverAlive, Over, Cut
  <2>3. CASE chan # << >> /\ Head(chan) = Empty /\ wire' = wire
    <3>1. closed /\ accepted = wire
        BY <2>2, <2>3, NextFrame, Zenon
    <3> QED
        BY <1>a, <2>1, <2>2, <2>3, <3>1, AbsDeliver, Zenon
  <2>4. CASE chan # << >> /\ Head(chan) # Empty /\ wire' = Append(wire, Head(chan)) /\ body' = body
    <3>1. ~Over'
        BY <2>1, <2>4, Zenon DEF Over
    <3>2. Len(wire') \in Len(wire)..Len(accepted) /\ wire' = SubSeq(accepted, 1, Len(wire'))
        BY <2>2, <2>4, NextPrefix, Zenon
    <3> QED
        BY <2>1, <2>2, <3>1, <3>2, AbsDeliver, Zenon
  <2>5. CASE wire' = wire /\ body' = body
      BY <2>1, <2>2, <2>5, AbsStutter, Zenon DEF Over
  <2>6. CASE wire' = wire /\ phase = "ShutdownPending"
    <3>1. Cut
        BY <2>6, Zenon DEF Cut
    <3> QED
        BY <1>a, <2>1, <2>2, <2>6, <3>1, AbsDeliver, Zenon
  <2> QED
      BY <1>4, <2>3, <2>4, <2>5, <2>6, Zenon DEF PollData
<1>5. CASE PollTrailers
    BY <1>5, AbsStutter, Zenon DEF PollTrailers, chanVars, Cut, Over
<1>6. CASE Disconnect
  <2>1. UNCHANGED <<accepted, closed, wire, phase>> /\ body' = "gone" /\ body # "gone"
      BY <1>6, Zenon DEF Disconnect, chanVars
  <2>2. Cut' /\ Over' /\ closed \in BOOLEAN
      BY <1>0, <2>1, Zenon DEF Cut, Over, RespTypes
  <2>3. CASE ~Cut
      BY <1>a, <2>1, <2>2, <2>3, AbsCut, Zenon
  <2>4. CASE Cut /\ ~Over
      BY <1>a, <2>1, <2>2, <2>4, AbsDeliver, Zenon
  <2>5. CASE Cut /\ Over
      BY <2>1, <2>2, <2>5, AbsStutter, Zenon
  <2> QED
      BY <2>3, <2>4, <2>5, Zenon
<1>7. CASE ShutdownAnnounced \/ RuntimeStops
  <2>1. UNCHANGED <<accepted, closed, wire, body>> /\ phase' \in {"ShutdownPending", "Shutdown"}
      BY <1>7, Zenon DEF ShutdownAnnounced, RuntimeStops, chanVars, respVars
  <2>2. Cut' /\ (Over' <=> Over) /\ closed \in BOOLEAN
      BY <1>0, <2>1, Zenon DEF Cut, Over, RespTypes
  <2>3. CASE ~Cut
      BY <1>a, <2>1, <2>2, <2>3, AbsCut, Zenon
  <2>4. CASE Cut
      BY <2>1, <2>2, <2>4, AbsStutter, Zenon
  <2> QED
      BY <2>3, <2>4, Zenon
<1>8. CASE UNCHANGED <<chan, accepted, closed, svc, first, body, wire, phase>>
    BY <1>8, AbsStutter, Zenon DEF Cut, Over
<1> QED
    BY <1>1, <1>2, <1>3, <1>4, <1>5, <1>6, <1>7, <1>8, RespMoves, Zenon

\* The initial state of the call is ByteStream's.
LEMMA InitRefines == Init => Stream!Init
    BY DEF Init, Stream!Init, Cut

\* The response of a gRPC call is a ByteStream, for every capacity of the
\* channel and of the pipe and every number of messages: the first frame that
\* build_response chains to the rest and the frames the unfold passes on are
\* those the handler wrote, in order, and the data ends only at the handler's
\* end mark, unless shutdown or the loss of the client cut it.
THEOREM GrpcResponseIsStream == Spec => StreamPromise
<1>1. RInv /\ [Next]_vars => [Stream!Next]_(Stream!vars)
    BY StepRefines, Zenon DEF AbstractStep
<1> QED
    BY <1>1, RespInit, RespInductive, InitRefines, PTL DEF Spec, StreamPromise, Stream!Spec
=============================================================================
