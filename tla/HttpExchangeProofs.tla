------------------------- MODULE HttpExchangeProofs -------------------------
(***************************************************************************)
(* The inductive invariant of HttpExchange: the queues between the         *)
(* application and the wire hold, in order, what was accepted and not yet  *)
(* written, for every depth of the middleware stack, every capacity of the *)
(* frame channel and every number of frames; with it, the exchange         *)
(* implements ByteStream.  The last part is about the middleware stack:    *)
(* the after methods mirror the before methods.                            *)
(***************************************************************************)
EXTENDS HttpExchange, SequenceTheorems, TLAPS

\* The first part of a concatenation is its prefix of that length.
LEMMA PrefixOfConcat ==
  ASSUME NEW S, NEW s \in Seq(S), NEW t \in Seq(S)
  PROVE  /\ Len(s) \in 0..Len(s \o t)
         /\ SubSeq(s \o t, 1, Len(s)) = s
<1>1. /\ Len(s) \in Nat /\ Len(t) \in Nat
      /\ Len(s \o t) = Len(s) + Len(t)
      /\ s \o t \in Seq(S)
    BY LenProperties, ConcatProperties, Zenon
<1>2. CASE s = << >>
    BY <1>1, <1>2, SubSeqEmpty, EmptySeq
<1>3. CASE s # << >>
  <2>1. 1 \in 1..Len(s) /\ Len(s) \in 1..Len(s)
      BY <1>3, EmptySeq
  <2>2. SubSeq(s \o t, 1, Len(s)) = SubSeq(s, 1, Len(s))
      BY <2>1, SubSeqOfConcat1, Zenon
  <2> QED
      BY <1>1, <2>2, SubSeqFull
<1> QED
    BY <1>2, <1>3, Zenon

\* Frames go from the front of one queue to the back of the queue before it.
LEMMA MoveHead ==
  ASSUME NEW S, NEW s \in Seq(S), NEW t \in Seq(S), t # << >>
  PROVE  /\ Append(s, Head(t)) \in Seq(S)
         /\ Tail(t) \in Seq(S)
         /\ Append(s, Head(t)) \o Tail(t) = s \o t
<1>1. Head(t) \in S /\ Tail(t) \in Seq(S) /\ t = <<Head(t)>> \o Tail(t)
    BY HeadTailProperties
<1>2. Append(s, Head(t)) = s \o <<Head(t)>> /\ <<Head(t)>> \in Seq(S)
    BY <1>1
<1> QED
    BY <1>1, <1>2, ConcatAssociative

StreamTypes ==
  /\ accepted \in Seq(Frame) /\ wire \in Seq(Frame)
  /\ buffer \in Seq(Frame) /\ receiver \in Seq(Frame)
  /\ sending \in Frame \cup {NoFrame}
  /\ body \in {"none", "full", "stream", "served", "ended", "gone"}
  /\ drained \in {"no", "closed", "shutdown"}
  /\ response \in BOOLEAN /\ frame_writer \in BOOLEAN

\* Who owns the response: the Ruby object until it is sent, then its writer.
Ownership ==
  /\ svc \in {"before", "read"} => job = "none"
  /\ job = "none" => body = "none" /\ ~response /\ ~frame_writer /\ sending = NoFrame
  /\ response => body = "none" /\ ~frame_writer
  /\ body = "full" => ~frame_writer
  /\ sending # NoFrame => frame_writer /\ job = "running"

\* What the application sent is on the wire, in the buffer or in the channel,
\* in this order, as long as the body is not cut.
Pipeline ==
  /\ body = "none" => accepted = << >>
  /\ body \in {"none", "full", "stream"} => wire = << >> /\ buffer = << >> /\ drained = "no"
  /\ body \in {"none", "stream", "served"} => accepted = wire \o (buffer \o receiver)
  /\ drained = "closed" => receiver = << >>
  /\ drained = "closed" => ~response /\ ~frame_writer /\ job # "none"

IInv == StreamTypes /\ Ownership /\ Pipeline


\* The frames the application may send next.
LEMMA NextFrameType ==
  ASSUME accepted \in Seq(Frame), Len(accepted) < MaxFrames
  PROVE  NextFrame \subseteq Frame
<1>1. Len(accepted) \in Nat
    BY LenProperties, Zenon
<1> QED
    BY <1>1, HttpAssumption DEF NextFrame, Frame, Empty

\* A flush moves the buffered frames to the wire.
LEMMA FlushTypes ==
  ASSUME StreamTypes, NEW frames \in Seq(Frame), Flush(frames)
  PROVE  wire' \in Seq(Frame) /\ buffer' \in Seq(Frame)
<1>1. wire \o frames \in Seq(Frame)
    BY ConcatProperties, Zenon DEF StreamTypes
<1> QED
    BY <1>1 DEF Flush

\* Every step keeps the queues of the stream in their types.
LEMMA TypesStep ==
  StreamTypes /\ [Next]_vars => StreamTypes'
<1> SUFFICES ASSUME StreamTypes, [Next]_vars
             PROVE  StreamTypes'
    BY Zenon
<1> USE DEF StreamTypes
<1>1. CASE LayerBefore
    BY <1>1, Zenon DEF LayerBefore, Respond, rubyVars, streamVars
<1>2. CASE RubyBefore
    BY <1>2, Zenon DEF RubyBefore, rubyVars, streamVars
<1>3. CASE ReadBody
    BY <1>3, Zenon DEF ReadBody, Respond, rubyVars, streamVars
<1>4. CASE Receive
    BY <1>4, Zenon DEF Receive, Respond, rubyVars, streamVars
<1>5. CASE HijackHead
    BY <1>5, Zenon DEF HijackHead, Respond, rubyVars, streamVars
<1>6. CASE LayerAfter
    BY <1>6, ZenonT(30) DEF LayerAfter, Serve, Dropped, rubyVars, streamVars
<1>7. CASE Timeout
    BY <1>7, Zenon DEF Timeout, DropFuture, Dropped, rubyVars, streamVars
<1>8. CASE Disconnect
    BY <1>8, Zenon DEF Disconnect, DropFuture, Dropped, rubyVars, streamVars
<1>9. CASE TakeJob
    BY <1>9, Zenon DEF TakeJob, svcVars, streamVars
<1>10. CASE Refuse
    BY <1>10, Zenon DEF Refuse, Fail, SendResponse, svcVars, streamVars
<1>11. CASE SendEnds
  <2>1. sending \in Frame
      BY <1>11, Zenon DEF SendEnds
  <2>2. Append(receiver, sending) \in Seq(Frame) /\ Append(accepted, sending) \in Seq(Frame)
      BY <2>1, AppendProperties, Zenon
  <2>3. frame_writer' \in BOOLEAN
      BY <1>11, Zenon DEF SendEnds
  <2>4. receiver' \in Seq(Frame) /\ accepted' \in Seq(Frame)
      BY <1>11, <2>2, Zenon DEF SendEnds
  <2> QED
      BY <1>11, <2>3, <2>4, Zenon DEF SendEnds
<1>12. ASSUME NEW f \in NextFrame, SendFrame(f) PROVE StreamTypes'
  <2>1. f \in Frame
      BY <1>12, NextFrameType, Zenon DEF SendFrame
  <2>2. /\ body' \in {"none", "full", "stream", "served", "ended", "gone"}
        /\ response' \in BOOLEAN /\ frame_writer' \in BOOLEAN
      BY <1>12, Zenon DEF SendFrame, SendResponse
  <2>3. sending' \in Frame \cup {NoFrame}
      BY <1>12, <2>1, Zenon DEF SendFrame
  <2> QED
      BY <1>12, <2>2, <2>3, Zenon DEF SendFrame, streamVars
<1>13. ASSUME NEW f \in NextFrame, SendAndClose(f) PROVE StreamTypes'
  <2>1. f \in Frame /\ <<f>> \in Seq(Frame)
      BY <1>13, NextFrameType DEF SendAndClose
  <2>2. /\ body' \in {"none", "full", "stream", "served", "ended", "gone"}
        /\ response' \in BOOLEAN
      BY <1>13, Zenon DEF SendAndClose, SendResponse
  <2>3. sending' \in Frame \cup {NoFrame} /\ accepted' \in Seq(Frame)
      BY <1>13, <2>1, Zenon DEF SendAndClose
  <2> QED
      BY <1>13, <2>2, <2>3, Zenon DEF SendAndClose, streamVars
<1>14. CASE Close
    BY <1>14, Zenon DEF Close, Idle, svcVars, streamVars
<1>15. CASE Hijack
    BY <1>15, Zenon DEF Hijack, Idle, svcVars, streamVars
<1>16. CASE Raise
    BY <1>16, Zenon DEF Raise, Fail, SendResponse, Idle, svcVars, streamVars
<1>17. CASE Return
    BY <1>17, Zenon DEF Return, Idle, svcVars, streamVars
<1>18. CASE Collect
    BY <1>18, Zenon DEF Collect, svcVars, streamVars
<1>19. CASE PollFlush
    BY <1>19, FlushTypes, Zenon DEF PollFlush, rubyVars
<1>20. CASE PollRecv
  <2>1. Append(buffer, Head(receiver)) \in Seq(Frame) /\ receiver' \in Seq(Frame)
      BY <1>20, MoveHead, Zenon DEF PollRecv
  <2>2. wire' \in Seq(Frame) /\ buffer' \in Seq(Frame)
      BY <1>20, <2>1, FlushTypes, Zenon DEF PollRecv
  <2> QED
      BY <1>20, <2>1, <2>2, Zenon DEF PollRecv, rubyVars
<1>21. CASE PollIdle
  <2>1. wire' \in Seq(Frame) /\ buffer' \in Seq(Frame)
      BY <1>21, FlushTypes, Zenon DEF PollIdle, Finish
  <2>2. /\ body' \in {"none", "full", "stream", "served", "ended", "gone"}
        /\ drained' \in {"no", "closed", "shutdown"}
      BY <1>21, Zenon DEF PollIdle, Finish
  <2> QED
      BY <1>21, <2>1, <2>2, Zenon DEF PollIdle, rubyVars
<1>22. CASE DeadlineElapses
    BY <1>22, Zenon DEF DeadlineElapses, svcVars, rubyVars
<1>23. CASE ShutdownRequested
    BY <1>23, Zenon DEF ShutdownRequested, svcVars, rubyVars, streamVars
<1>24. CASE ShutdownAnnounced
    BY <1>24, Zenon DEF ShutdownAnnounced, svcVars, rubyVars, streamVars
<1>25. CASE UNCHANGED vars
    BY <1>25, Zenon DEF vars, svcVars, rubyVars, streamVars
<1>26. CASE ClientReads
    BY <1>26, Zenon DEF ClientReads, svcVars, rubyVars
<1>27. CASE ServiceStep
    BY <1>27, <1>1, <1>2, <1>3, <1>4, <1>5, <1>6, ZenonT(30) DEF ServiceStep
<1>28. CASE RubyStep
    BY <1>28, <1>9, <1>10, <1>11, <1>12, <1>13, <1>14, <1>15, <1>16, <1>17, <1>18, ZenonT(30)
       DEF RubyStep
<1>29. CASE PollStep
    BY <1>29, <1>19, <1>20, <1>21, ZenonT(30) DEF PollStep
<1> QED
    BY <1>7, <1>8, <1>22, <1>23, <1>24, <1>25, <1>26, <1>27, <1>28, <1>29, ZenonT(30) DEF Next

\* Every step keeps the ownership of the response.
LEMMA OwnershipStep ==
  StreamTypes /\ Ownership /\ [Next]_vars => Ownership'
<1> SUFFICES ASSUME StreamTypes, Ownership, [Next]_vars
             PROVE  Ownership'
    BY Zenon
<1> USE DEF StreamTypes, Ownership
<1>1. CASE LayerBefore
    BY <1>1, Zenon DEF LayerBefore, Respond, rubyVars, streamVars
<1>2. CASE RubyBefore
    BY <1>2, Zenon DEF RubyBefore, rubyVars, streamVars
<1>3. CASE ReadBody
    BY <1>3 DEF ReadBody, Respond, rubyVars, streamVars
<1>4. CASE Receive
    BY <1>4, Zenon DEF Receive, Respond, rubyVars, streamVars
<1>5. CASE HijackHead
    BY <1>5, Zenon DEF HijackHead, Respond, rubyVars, streamVars
<1>6. CASE LayerAfter
    BY <1>6, Zenon DEF LayerAfter, Serve, Dropped, rubyVars, streamVars
<1>7. CASE Timeout
    BY <1>7, Zenon DEF Timeout, DropFuture, Dropped, rubyVars, streamVars
<1>8. CASE Disconnect
    BY <1>8, Zenon DEF Disconnect, DropFuture, Dropped, rubyVars, streamVars
<1>9. CASE TakeJob
    BY <1>9, Zenon DEF TakeJob, svcVars, streamVars
<1>10. CASE Refuse
    BY <1>10, Zenon DEF Refuse, Fail, SendResponse, svcVars, streamVars
<1>11. CASE SendEnds
    BY <1>11, Zenon DEF SendEnds, ReceiverAlive, svcVars
<1>12. ASSUME NEW f \in NextFrame, SendFrame(f) PROVE Ownership'
    BY <1>12, Zenon DEF SendFrame, SendResponse, Idle, svcVars, streamVars
<1>13. ASSUME NEW f \in NextFrame, SendAndClose(f) PROVE Ownership'
    BY <1>13, Zenon DEF SendAndClose, SendResponse, Idle, svcVars, streamVars
<1>14. CASE Close
    BY <1>14, Zenon DEF Close, Idle, svcVars, streamVars
<1>15. CASE Hijack
    BY <1>15, Zenon DEF Hijack, Idle, svcVars, streamVars
<1>16. CASE Raise
    BY <1>16, Zenon DEF Raise, Fail, SendResponse, Idle, svcVars, streamVars
<1>17. CASE Return
    BY <1>17, Zenon DEF Return, Idle, svcVars, streamVars
<1>18. CASE Collect
    BY <1>18, Zenon DEF Collect, svcVars, streamVars
<1>19. CASE PollFlush
    BY <1>19, Zenon DEF PollFlush, Polling, Flush, svcVars, rubyVars
<1>20. CASE PollRecv
    BY <1>20, Zenon DEF PollRecv, Polling, Flush, svcVars, rubyVars
<1>21. CASE PollIdle
    BY <1>21, Zenon DEF PollIdle, Polling, Finish, Flush, svcVars, rubyVars
<1>22. CASE DeadlineElapses
    BY <1>22, Zenon DEF DeadlineElapses, svcVars, rubyVars
<1>23. CASE ShutdownRequested
    BY <1>23, Zenon DEF ShutdownRequested, svcVars, rubyVars, streamVars
<1>24. CASE ShutdownAnnounced
    BY <1>24, Zenon DEF ShutdownAnnounced, svcVars, rubyVars, streamVars
<1>25. CASE UNCHANGED vars
    BY <1>25, Zenon DEF vars, svcVars, rubyVars, streamVars
<1>26. CASE ClientReads
    BY <1>26, Zenon DEF ClientReads, svcVars, rubyVars
<1>27. CASE ServiceStep
    BY <1>27, <1>1, <1>2, <1>3, <1>4, <1>5, <1>6, ZenonT(30) DEF ServiceStep
<1>28. CASE RubyStep
    BY <1>28, <1>9, <1>10, <1>11, <1>12, <1>13, <1>14, <1>15, <1>16, <1>17, <1>18, ZenonT(30)
       DEF RubyStep
<1>29. CASE PollStep
    BY <1>29, <1>19, <1>20, <1>21, Zenon DEF PollStep
<1> QED
    BY <1>7, <1>8, <1>22, <1>23, <1>24, <1>25, <1>26, <1>27, <1>28, <1>29, ZenonT(30) DEF Next

\* A flush of the buffer moves nothing out of order.
LEMMA FlushMoves ==
  ASSUME StreamTypes, Flush(buffer)
  PROVE  wire' \o (buffer' \o receiver) = wire \o (buffer \o receiver)
<1>1. /\ << >> \o receiver = receiver
      /\ (wire \o buffer) \o receiver = wire \o (buffer \o receiver)
    BY ConcatAssociative, ConcatEmptySeq DEF StreamTypes
<1> QED
    BY <1>1, Zenon DEF Flush

\* FrameStream's frame goes to the buffer, or with it to the wire.
LEMMA RecvMoves ==
  ASSUME StreamTypes, PollRecv
  PROVE  wire' \o (buffer' \o receiver') = wire \o (buffer \o receiver)
<1> DEFINE frames == Append(buffer, Head(receiver))
           rest == Tail(receiver)
<1>1. frames \o rest = buffer \o receiver
    BY MoveHead, ZenonT(30) DEF StreamTypes, PollRecv
<1>2. frames \in Seq(Frame) /\ rest \in Seq(Frame) /\ wire \in Seq(Frame)
    BY MoveHead, Zenon DEF StreamTypes, PollRecv
<1>3. receiver' = rest /\ (Flush(frames) \/ (buffer' = frames /\ wire' = wire))
    BY Zenon DEF PollRecv
<1> HIDE DEF frames, rest
<1>4. CASE Flush(frames)
  <2>1. << >> \o rest = rest
      BY <1>2, ConcatEmptySeq, Zenon
  <2>2. (wire \o frames) \o rest = wire \o (frames \o rest)
      BY <1>2, ConcatAssociative
  <2> QED
      BY <1>1, <1>3, <1>4, <2>1, <2>2, Zenon DEF Flush
<1>5. CASE buffer' = frames /\ wire' = wire
    BY <1>1, <1>3, <1>5, Zenon
<1> QED
    BY <1>3, <1>4, <1>5, Zenon

\* A frame the channel takes is the last one of the pipeline.
LEMMA SendMoves ==
  ASSUME StreamTypes, SendEnds, ReceiverAlive, accepted = wire \o (buffer \o receiver)
  PROVE  accepted' = wire' \o (buffer' \o receiver')
<1>1. sending \in Frame
    BY Zenon DEF SendEnds, StreamTypes
<1>2. wire \in Seq(Frame) /\ buffer \in Seq(Frame) /\ receiver \in Seq(Frame)
    BY Zenon DEF StreamTypes
<1>3. <<sending>> \in Seq(Frame) /\ buffer \o receiver \in Seq(Frame)
    BY <1>1, <1>2, ConcatProperties
<1>4. (buffer \o receiver) \o <<sending>> = buffer \o (receiver \o <<sending>>)
    BY <1>2, <1>3, ConcatAssociative
<1>5. (wire \o (buffer \o receiver)) \o <<sending>> = wire \o ((buffer \o receiver) \o <<sending>>)
    BY <1>2, <1>3, ConcatAssociative
<1>6. /\ Append(receiver, sending) = receiver \o <<sending>>
      /\ Append(accepted, sending) = accepted \o <<sending>>
    BY <1>1 DEF StreamTypes
<1>7. /\ accepted' = Append(accepted, sending) /\ receiver' = Append(receiver, sending)
      /\ wire' = wire /\ buffer' = buffer
    BY Zenon DEF SendEnds
<1> QED
    BY <1>4, <1>5, <1>6, <1>7, Zenon

\* No step loses, repeats or reorders a frame.
LEMMA PipelineStep ==
  StreamTypes /\ Ownership /\ Pipeline /\ [Next]_vars => Pipeline'
<1> SUFFICES ASSUME StreamTypes, Ownership, Pipeline, [Next]_vars
             PROVE  Pipeline'
    BY Zenon
<1> USE DEF StreamTypes, Ownership, Pipeline
<1>1. CASE LayerBefore
    BY <1>1, Zenon DEF LayerBefore, Respond, rubyVars, streamVars
<1>2. CASE RubyBefore
    BY <1>2, Zenon DEF RubyBefore, rubyVars, streamVars
<1>3. CASE ReadBody
    BY <1>3, Zenon DEF ReadBody, Respond, rubyVars, streamVars
<1>4. CASE Receive
    BY <1>4, Zenon DEF Receive, Respond, rubyVars, streamVars
<1>5. CASE HijackHead
    BY <1>5, Zenon DEF HijackHead, Respond, rubyVars, streamVars
<1>6. CASE LayerAfter
    BY <1>6, Zenon DEF LayerAfter, Serve, Dropped, rubyVars, streamVars
<1>7. CASE Timeout
    BY <1>7, Zenon DEF Timeout, DropFuture, Dropped, rubyVars, streamVars
<1>8. CASE Disconnect
    BY <1>8, Zenon DEF Disconnect, DropFuture, Dropped, rubyVars, streamVars
<1>9. CASE TakeJob
    BY <1>9, Zenon DEF TakeJob, svcVars, streamVars
<1>10. CASE Refuse
    BY <1>10, Zenon DEF Refuse, Fail, SendResponse, svcVars, streamVars
<1>11. CASE SendEnds
  <2>1. CASE ReceiverAlive
    <3>1. accepted' = wire' \o (buffer' \o receiver')
        BY <1>11, <2>1, SendMoves, Zenon DEF ReceiverAlive
    <3> QED
        BY <1>11, <2>1, <3>1, Zenon DEF SendEnds, ReceiverAlive, svcVars
  <2>2. CASE ~ReceiverAlive
      BY <1>11, <2>2, Zenon DEF SendEnds, ReceiverAlive, svcVars
  <2> QED
      BY <2>1, <2>2, Zenon
<1>12. ASSUME NEW f \in NextFrame, SendFrame(f) PROVE Pipeline'
    BY <1>12, Zenon DEF SendFrame, SendResponse, Idle, svcVars, streamVars
<1>13. ASSUME NEW f \in NextFrame, SendAndClose(f) PROVE Pipeline'
    BY <1>13, Zenon DEF SendAndClose, SendResponse, Idle, svcVars, streamVars
<1>14. CASE Close
    BY <1>14, Zenon DEF Close, Idle, svcVars, streamVars
<1>15. CASE Hijack
    BY <1>15, Zenon DEF Hijack, Idle, svcVars, streamVars
<1>16. CASE Raise
    BY <1>16, Zenon DEF Raise, Fail, SendResponse, Idle, svcVars, streamVars
<1>17. CASE Return
    BY <1>17, Zenon DEF Return, Idle, svcVars, streamVars
<1>18. CASE Collect
    BY <1>18, Zenon DEF Collect, svcVars, streamVars
<1>19. CASE PollFlush
  <2>1. wire' \o (buffer' \o receiver') = wire \o (buffer \o receiver)
      BY <1>19, FlushMoves, Zenon DEF PollFlush
  <2> QED
      BY <1>19, <2>1, Zenon DEF PollFlush, Polling, rubyVars
<1>20. CASE PollRecv
  <2>1. wire' \o (buffer' \o receiver') = wire \o (buffer \o receiver)
      BY <1>20, RecvMoves, Zenon
  <2> QED
      BY <1>20, <2>1, Zenon DEF PollRecv, Polling, rubyVars
<1>21. CASE PollIdle
  <2>1. wire' \o (buffer' \o receiver') = wire \o (buffer \o receiver) \/ body' = "ended"
      BY <1>21, FlushMoves, Zenon DEF PollIdle, Finish
  <2>2. body' \in {"served", "ended"}
      BY <1>21, Zenon DEF PollIdle, Polling, Finish
  <2>3. drained' = "closed" => receiver' = << >> /\ ~response' /\ ~frame_writer' /\ job' # "none"
      BY <1>21, Zenon DEF PollIdle, Polling, rubyVars
  <2> QED
      BY <1>21, <2>1, <2>2, <2>3, ZenonT(30) DEF PollIdle, Polling
<1>22. CASE DeadlineElapses
    BY <1>22, Zenon DEF DeadlineElapses, svcVars, rubyVars
<1>23. CASE ShutdownRequested
    BY <1>23, Zenon DEF ShutdownRequested, svcVars, rubyVars, streamVars
<1>24. CASE ShutdownAnnounced
    BY <1>24, Zenon DEF ShutdownAnnounced, svcVars, rubyVars, streamVars
<1>25. CASE UNCHANGED vars
    BY <1>25, Zenon DEF vars, svcVars, rubyVars, streamVars
<1>26. CASE ClientReads
    BY <1>26, Zenon DEF ClientReads, svcVars, rubyVars
<1>27. CASE ServiceStep
    BY <1>27, <1>1, <1>2, <1>3, <1>4, <1>5, <1>6, ZenonT(30) DEF ServiceStep
<1>28. CASE RubyStep
    BY <1>28, <1>9, <1>10, <1>11, <1>12, <1>13, <1>14, <1>15, <1>16, <1>17, <1>18, ZenonT(30)
       DEF RubyStep
<1>29. CASE PollStep
    BY <1>29, <1>19, <1>20, <1>21, Zenon DEF PollStep
<1> QED
    BY <1>7, <1>8, <1>22, <1>23, <1>24, <1>25, <1>26, <1>27, <1>28, <1>29, Zenon DEF Next

\* The invariant holds initially.
LEMMA InitInv == Init => IInv
<1> SUFFICES ASSUME Init PROVE IInv
    BY Zenon
<1>1. << >> \o (<< >> \o << >>) = << >>
    OBVIOUS
<1>2. StreamTypes
  <2>1. << >> \in Seq(Frame)
      OBVIOUS
  <2>2. /\ response \in BOOLEAN /\ frame_writer \in BOOLEAN
        /\ sending \in Frame \cup {NoFrame}
      BY Zenon DEF Init
  <2> QED
      BY <2>1, <2>2, Zenon DEF Init, StreamTypes
<1>3. Ownership /\ Pipeline
    BY <1>1, Zenon DEF Init, Ownership, Pipeline
<1> QED
    BY <1>2, <1>3, Zenon DEF IInv

\* IInv is inductive.
LEMMA Inductive == IInv /\ [Next]_vars => IInv'
    BY TypesStep, OwnershipStep, PipelineStep, Zenon DEF IInv

\* The abstract state.
Closed == job # "none" /\ ~response /\ ~frame_writer
Over == body \in {"ended", "gone"}
AbstractStep == [Stream!Next]_(Stream!vars)

(* The steps of ByteStream in terms of the exchange. *)

\* A step that changes nothing the stream shows is a stutter.
LEMMA AbsStutter ==
  ASSUME accepted' = accepted, wire' = wire, Closed' <=> Closed, Cut' <=> Cut, Over' <=> Over
  PROVE  AbstractStep
    BY DEF AbstractStep, Stream!vars, Closed, Over, Cut

\* A frame that the channel takes is a Write.
LEMMA AbsWrite ==
  ASSUME NEW f \in Frame, ~Closed, accepted' = Append(accepted, f), wire' = wire,
         Cut' <=> Cut, Over' <=> Over
  PROVE  AbstractStep
    BY DEF AbstractStep, Stream!Next, Stream!Write, Closed, Over, Cut

\* The writer or the response going away is a Close.
LEMMA AbsClose ==
  ASSUME Closed', accepted' = accepted, wire' = wire, Cut' <=> Cut, Over' <=> Over
  PROVE  AbstractStep
    BY DEF AbstractStep, Stream!Next, Stream!Close, Closed, Over, Cut

\* Frames handed to hyper, and the end of the body, are a Deliver.
LEMMA AbsDeliver ==
  ASSUME ~Over, NEW n \in Len(wire)..Len(accepted), wire' = SubSeq(accepted, 1, n),
         Over' => Cut \/ (Closed /\ wire' = accepted),
         accepted' = accepted, Closed' <=> Closed, Cut' <=> Cut
  PROVE  AbstractStep
    BY DEF AbstractStep, Stream!Next, Stream!Deliver, Closed, Over, Cut

\* A body dropped, or drained because of shutdown, is a Cut.
LEMMA AbsCut ==
  ASSUME ~Cut, Cut', Over => Over', Closed => Closed', accepted' = accepted,
         NEW n \in Len(wire)..Len(accepted), wire' = SubSeq(accepted, 1, n)
  PROVE  AbstractStep
    BY DEF AbstractStep, Stream!Next, Stream!Cut, Closed, Over, Cut

\* Until the body is over, the wire holds a prefix of what was accepted.
LEMMA WirePrefix ==
  ASSUME IInv, ~Over
  PROVE  /\ Len(wire) \in Len(wire)..Len(accepted)
         /\ wire = SubSeq(accepted, 1, Len(wire))
<1>1. wire \in Seq(Frame) /\ buffer \o receiver \in Seq(Frame) /\ accepted \in Seq(Frame)
    BY ConcatProperties, Zenon DEF IInv, StreamTypes
<1>2. CASE accepted = wire \o (buffer \o receiver)
    BY <1>1, <1>2, PrefixOfConcat, LenProperties
<1>3. CASE wire = << >>
    BY <1>1, <1>3, LenProperties, SubSeqEmpty
<1>4. body \in {"none", "full", "stream", "served"}
    BY Zenon DEF IInv, StreamTypes, Over
<1> QED
    BY <1>2, <1>3, <1>4, Zenon DEF IInv, Pipeline

\* What is appended to the wire comes next in what was accepted.
LEMMA Delivered ==
  ASSUME wire \in Seq(Frame), NEW s \in Seq(Frame), NEW t \in Seq(Frame),
         wire' = wire \o s, accepted = wire \o (s \o t)
  PROVE  Len(wire') \in Len(wire)..Len(accepted) /\ wire' = SubSeq(accepted, 1, Len(wire'))
<1>1. wire' \in Seq(Frame) /\ Len(wire') = Len(wire) + Len(s)
    BY ConcatProperties, Zenon
<1>2. accepted = wire' \o t
    BY ConcatAssociative
<1>3. Len(wire') \in 0..Len(accepted) /\ SubSeq(accepted, 1, Len(wire')) = wire'
    BY <1>1, <1>2, PrefixOfConcat, Zenon
<1>4. Len(wire) \in Nat /\ Len(s) \in Nat /\ accepted \in Seq(Frame)
    BY <1>1, <1>2, LenProperties, ConcatProperties, ZenonT(30)
<1>5. Len(accepted) \in Nat
    BY <1>4, LenProperties, Zenon
<1> QED
    BY <1>1, <1>3, <1>4, <1>5

\* A flush of the buffer delivers.
LEMMA FlushDelivers ==
  ASSUME IInv, body = "served", Flush(buffer)
  PROVE  Len(wire') \in Len(wire)..Len(accepted) /\ wire' = SubSeq(accepted, 1, Len(wire'))
<1>1. wire \in Seq(Frame) /\ buffer \in Seq(Frame) /\ receiver \in Seq(Frame)
    BY Zenon DEF IInv, StreamTypes
<1>2. wire' = wire \o buffer /\ accepted = wire \o (buffer \o receiver)
    BY Zenon DEF Flush, IInv, Pipeline
<1> QED
    BY <1>1, <1>2, Delivered, Zenon

\* So does FrameStream's frame that fills the buffer.
LEMMA RecvDelivers ==
  ASSUME IInv, PollRecv, wire' # wire
  PROVE  Len(wire') \in Len(wire)..Len(accepted) /\ wire' = SubSeq(accepted, 1, Len(wire'))
<1> DEFINE frames == Append(buffer, Head(receiver))
<1>1. wire \in Seq(Frame) /\ buffer \in Seq(Frame) /\ receiver \in Seq(Frame)
    BY Zenon DEF IInv, StreamTypes
<1>2. /\ frames \in Seq(Frame) /\ Tail(receiver) \in Seq(Frame)
      /\ frames \o Tail(receiver) = buffer \o receiver
    BY <1>1, MoveHead, Zenon DEF PollRecv
<1>3. wire' = wire \o frames
    BY Zenon DEF PollRecv, Flush
<1>4. accepted = wire \o (buffer \o receiver)
    BY Zenon DEF PollRecv, Polling, IInv, Pipeline
<1> HIDE DEF frames
<1> QED
    BY <1>1, <1>2, <1>3, <1>4, Delivered, ZenonT(30)

\* Every step of the exchange is a step of ByteStream or leaves it alone.
LEMMA StepRefines ==
  IInv /\ [Next]_vars => AbstractStep
<1> SUFFICES ASSUME IInv, [Next]_vars
             PROVE  AbstractStep
    BY Zenon
<1>0. StreamTypes /\ Ownership /\ Pipeline
    BY Zenon DEF IInv
<1>1. CASE LayerBefore
    BY <1>1, AbsStutter, Zenon DEF LayerBefore, Respond, rubyVars, streamVars, Closed, Cut, Over
<1>2. CASE RubyBefore
    BY <1>2, AbsStutter, Zenon DEF RubyBefore, rubyVars, streamVars, Closed, Cut, Over
<1>3. CASE ReadBody
  <2>1. ~Closed /\ ~Closed'
      BY <1>0, <1>3, Zenon DEF ReadBody, Closed, Ownership, rubyVars
  <2> QED
      BY <1>3, <2>1, AbsStutter, Zenon DEF ReadBody, Respond, streamVars, Cut, Over
<1>4. CASE Receive
    BY <1>4, AbsStutter, Zenon DEF Receive, Respond, rubyVars, streamVars, Closed, Cut, Over
<1>5. CASE HijackHead
    BY <1>5, AbsStutter, Zenon DEF HijackHead, Respond, rubyVars, streamVars, Closed, Cut, Over
<1>6. CASE LayerAfter
  <2>1. accepted' = accepted /\ (Closed' <=> Closed) /\ drained' = drained
      BY <1>6, Zenon DEF LayerAfter, Serve, Closed, rubyVars, streamVars
  <2>2. CASE body = "full" /\ body' = "ended" /\ wire' = accepted
    <3>1. ~Over /\ ~Cut /\ ~Cut' /\ Closed
        BY <1>0, <2>1, <2>2, ZenonT(30) DEF Over, Cut, Closed, Ownership, Pipeline
    <3>2. /\ Len(accepted) \in Len(wire)..Len(accepted)
          /\ accepted = SubSeq(accepted, 1, Len(accepted))
        BY <1>0, <3>1, WirePrefix, SubSeqFull, LenProperties DEF StreamTypes
    <3> QED
        BY <2>1, <2>2, <3>1, <3>2, AbsDeliver, ZenonT(30)
  <2>3. CASE wire' = wire /\ body' = "gone" /\ body \in {"full", "stream"}
    <3>1. ~Over /\ ~Cut /\ Cut'
        BY <1>0, <2>3, Zenon DEF Over, Cut, Pipeline
    <3> QED
        BY <2>1, <2>3, <3>1, WirePrefix, AbsCut, Zenon
  <2>4. CASE wire' = wire /\ (Over' <=> Over) /\ (body' = "gone" <=> body = "gone")
      BY <2>1, <2>4, AbsStutter, Zenon DEF Cut
  <2> QED
      BY <1>6, <2>2, <2>3, <2>4, ZenonT(30) DEF LayerAfter, Serve, Dropped, Over, streamVars
<1>7. CASE Timeout
  <2>1. accepted' = accepted /\ wire' = wire /\ (Closed' <=> Closed)
      BY <1>7, Zenon DEF Timeout, DropFuture, Dropped, rubyVars, streamVars, Closed
  <2>2. body' = body \/ (body' = "gone" /\ ~Over)
      BY <1>7, Zenon DEF Timeout, DropFuture, Dropped, rubyVars, streamVars, Over
  <2>3. drained' = drained
      BY <1>7, Zenon DEF Timeout, DropFuture, Dropped, rubyVars, streamVars
  <2>4. CASE body' = body
      BY <2>1, <2>3, <2>4, AbsStutter, ZenonT(30) DEF Cut, Over
  <2>5. CASE body' = "gone" /\ ~Over /\ ~Cut
      BY <2>1, <2>3, <2>5, WirePrefix, AbsCut, ZenonT(30) DEF Cut, Over
  <2>6. CASE body' = "gone" /\ ~Over /\ Cut
      BY <2>1, <2>3, <2>6, WirePrefix, AbsDeliver, ZenonT(30) DEF Cut
  <2> QED
      BY <2>2, <2>4, <2>5, <2>6, Zenon
<1>8. CASE Disconnect
  <2>1. accepted' = accepted /\ wire' = wire /\ (Closed' <=> Closed)
      BY <1>8, Zenon DEF Disconnect, DropFuture, Dropped, rubyVars, streamVars, Closed
  <2>2. body' = body \/ (body' = "gone" /\ ~Over)
      BY <1>8, Zenon DEF Disconnect, DropFuture, Dropped, rubyVars, streamVars, Over
  <2>3. drained' = drained
      BY <1>8, ZenonT(30) DEF Disconnect, DropFuture, Dropped, rubyVars, streamVars
  <2>4. CASE body' = body
      BY <2>1, <2>3, <2>4, AbsStutter, Zenon DEF Cut, Over
  <2>5. CASE body' = "gone" /\ ~Over /\ ~Cut
      BY <2>1, <2>3, <2>5, WirePrefix, AbsCut, Zenon DEF Cut, Over
  <2>6. CASE body' = "gone" /\ ~Over /\ Cut
      BY <2>1, <2>3, <2>6, WirePrefix, AbsDeliver, Zenon DEF Cut
  <2> QED
      BY <2>2, <2>4, <2>5, <2>6, Zenon
<1>9. CASE TakeJob
    BY <1>9, AbsStutter, Zenon DEF TakeJob, svcVars, streamVars, Closed, Cut, Over
<1>10. CASE Refuse
  <2>1. body' = body
      BY <1>0, <1>10, Zenon DEF Refuse, Fail, SendResponse, svcVars, streamVars, Ownership
  <2>2. /\ accepted' = accepted /\ wire' = wire
        /\ (Cut' <=> Cut) /\ (Over' <=> Over)
      BY <1>10, <2>1, Zenon DEF Refuse, Fail, SendResponse, svcVars, streamVars, Cut, Over
  <2>3. Closed' \/ (~Closed' /\ ~Closed)
      BY <1>10, Zenon DEF Refuse, Fail, SendResponse, svcVars, streamVars, Closed
  <2> QED
      BY <2>2, <2>3, AbsClose, AbsStutter, ZenonT(30)
<1>11. CASE SendEnds
  <2>1. CASE ReceiverAlive
    <3>1. sending \in Frame /\ ~Closed
        BY <1>0, <1>11, Zenon DEF SendEnds, StreamTypes, Ownership, Closed
    <3>2. accepted' = Append(accepted, sending) /\ wire' = wire /\ (Cut' <=> Cut) /\ (Over' <=> Over)
        BY <1>11, <2>1, Zenon DEF SendEnds, Cut, Over
    <3> QED
        BY <3>1, <3>2, AbsWrite, Zenon
  <2>2. CASE ~ReceiverAlive
    <3>1. accepted' = accepted /\ wire' = wire /\ (Cut' <=> Cut) /\ (Over' <=> Over)
        BY <1>11, <2>2, Zenon DEF SendEnds, Cut, Over
    <3>2. Closed'
        BY <1>0, <1>11, <2>2, ZenonT(30) DEF SendEnds, Closed, Ownership
    <3> QED
        BY <3>1, <3>2, AbsClose, ZenonT(30)
  <2> QED
      BY <2>1, <2>2, Zenon
<1>12. ASSUME NEW f \in NextFrame, SendFrame(f) PROVE AbstractStep
  <2>1. accepted' = accepted /\ wire' = wire /\ drained' = drained
      BY <1>12, Zenon DEF SendFrame, streamVars
  <2>2. CASE ~frame_writer /\ response
    <3>1. ~Closed /\ ~Closed' /\ ~Over /\ ~Cut
        BY <1>0, <1>12, <2>2, ZenonT(30) DEF SendFrame, Closed, Over, Cut, Ownership, Pipeline
    <3>2. body' \in {"stream", "gone"}
        BY <1>12, <2>2, Zenon DEF SendFrame, SendResponse
    <3>3. CASE body' = "stream"
        BY <2>1, <3>1, <3>3, AbsStutter, ZenonT(30) DEF Cut, Over
    <3>4. CASE body' = "gone"
        BY <2>1, <3>1, <3>4, WirePrefix, AbsCut, ZenonT(30) DEF Cut, Over
    <3> QED
        BY <3>2, <3>3, <3>4, ZenonT(30)
  <2>3. CASE ~(~frame_writer /\ response)
      BY <1>12, <2>1, <2>3, AbsStutter, ZenonT(30) DEF SendFrame, Closed, Cut, Over
  <2> QED
      BY <2>2, <2>3, Zenon
<1>13. ASSUME NEW f \in NextFrame, SendAndClose(f) PROVE AbstractStep
  <2>1. wire' = wire /\ drained' = drained /\ f \in Frame
      BY <1>0, <1>13, NextFrameType, Zenon DEF SendAndClose, streamVars, StreamTypes
  <2>2. CASE ~frame_writer /\ response
    <3>1. ~Closed /\ Closed' /\ ~Over /\ ~Cut /\ accepted = << >>
        BY <1>0, <1>13, <2>2, Zenon DEF SendAndClose, SendResponse, Idle, Closed, Over, Cut,
           Ownership, Pipeline
    <3>2. \/ body' = "full" /\ accepted' = <<f>>
          \/ body' = "gone" /\ accepted' = accepted
        BY <1>13, <2>2, Zenon DEF SendAndClose, SendResponse
    <3>3. CASE body' = "full" /\ accepted' = <<f>>
      <4>1. accepted' = Append(accepted, f)
          BY <3>1, <3>3
      <4> QED
          BY <2>1, <3>1, <3>3, <4>1, AbsWrite, ZenonT(30) DEF Cut, Over
    <3>4. CASE body' = "gone" /\ accepted' = accepted
        BY <2>1, <3>1, <3>4, WirePrefix, AbsCut, ZenonT(30) DEF Cut, Over
    <3> QED
        BY <3>2, <3>3, <3>4, Zenon
  <2>3. CASE ~(~frame_writer /\ response)
      BY <1>13, <2>1, <2>3, AbsStutter, ZenonT(30) DEF SendAndClose, Closed, Cut, Over
  <2> QED
      BY <2>2, <2>3, Zenon
<1>14. CASE Close
  <2>1. Cut' <=> Cut
      BY <1>14, Zenon DEF Close, Idle, svcVars, streamVars, Cut
  <2>2. accepted' = accepted /\ wire' = wire /\ (Over' <=> Over)
      BY <1>14, Zenon DEF Close, Idle, svcVars, streamVars, Over
  <2>3. Closed' \/ (~Closed' /\ ~Closed)
      BY <1>14, ZenonT(30) DEF Close, Idle, svcVars, streamVars, Closed
  <2> QED
      BY <2>1, <2>2, <2>3, AbsClose, AbsStutter, ZenonT(30)
<1>15. CASE Hijack
  <2>1. Cut' <=> Cut
      BY <1>15, Zenon DEF Hijack, Idle, svcVars, streamVars, Cut
  <2>2. accepted' = accepted /\ wire' = wire /\ (Over' <=> Over)
      BY <1>15, Zenon DEF Hijack, Idle, svcVars, streamVars, Over
  <2>3. Closed' \/ (~Closed' /\ ~Closed)
      BY <1>15, ZenonT(30) DEF Hijack, Idle, svcVars, streamVars, Closed
  <2> QED
      BY <2>1, <2>2, <2>3, AbsClose, AbsStutter, Zenon
<1>16. CASE Raise
  <2>1. body' = body
      BY <1>0, <1>16, Zenon DEF Raise, Fail, SendResponse, Idle, svcVars, streamVars, Ownership
  <2>2. /\ accepted' = accepted /\ wire' = wire
        /\ (Cut' <=> Cut) /\ (Over' <=> Over)
      BY <1>16, <2>1, Zenon DEF Raise, Fail, SendResponse, Idle, svcVars, streamVars, Cut, Over
  <2>3. Closed' \/ (~Closed' /\ ~Closed)
      BY <1>16, Zenon DEF Raise, Fail, SendResponse, Idle, svcVars, streamVars, Closed
  <2> QED
      BY <2>2, <2>3, AbsClose, AbsStutter, Zenon
<1>17. CASE Return
    BY <1>17, AbsStutter, ZenonT(30) DEF Return, Idle, svcVars, streamVars, Closed, Cut, Over
<1>18. CASE Collect
  <2>1. Cut' <=> Cut
      BY <1>18, Zenon DEF Collect, svcVars, streamVars, Cut
  <2>2. accepted' = accepted /\ wire' = wire /\ (Over' <=> Over)
      BY <1>18, Zenon DEF Collect, svcVars, streamVars, Over
  <2>3. Closed' \/ (~Closed' /\ ~Closed)
      BY <1>18, Zenon DEF Collect, svcVars, streamVars, Closed
  <2> QED
      BY <2>1, <2>2, <2>3, AbsClose, AbsStutter, Zenon
<1>19. CASE PollFlush
  <2>1. ~Over /\ accepted' = accepted /\ (Closed' <=> Closed) /\ (Cut' <=> Cut) /\ ~Over'
      BY <1>19, Zenon DEF PollFlush, Polling, Closed, Cut, Over, rubyVars
  <2>2. Len(wire') \in Len(wire)..Len(accepted) /\ wire' = SubSeq(accepted, 1, Len(wire'))
      BY <1>19, FlushDelivers, Zenon DEF PollFlush, Polling
  <2> QED
      BY <2>1, <2>2, AbsDeliver, Zenon
<1>20. CASE PollRecv
  <2>1. ~Over /\ accepted' = accepted /\ (Closed' <=> Closed) /\ (Cut' <=> Cut) /\ ~Over'
      BY <1>20, Zenon DEF PollRecv, Polling, Closed, Cut, Over, rubyVars
  <2>2. CASE wire' = wire
      BY <2>1, <2>2, AbsStutter, Zenon
  <2>3. CASE wire' # wire
      BY <1>20, <2>1, <2>3, RecvDelivers, AbsDeliver, ZenonT(30)
  <2> QED
      BY <2>2, <2>3, Zenon
<1>21. CASE PollIdle
  <2>1. /\ body = "served" /\ ~Over /\ accepted' = accepted /\ (Closed' <=> Closed)
        /\ drained = "shutdown" => drained' = "shutdown"
      BY <1>21, Zenon DEF PollIdle, Polling, Closed, Over, rubyVars
  <2>2. CASE Flush(buffer) /\ body' = body
    <3>1. Len(wire') \in Len(wire)..Len(accepted) /\ wire' = SubSeq(accepted, 1, Len(wire'))
        BY <2>1, <2>2, FlushDelivers, Zenon
    <3>2. ~Over' /\ (Cut => Cut')
        BY <2>1, <2>2, Zenon DEF Over, Cut
    <3> QED
        BY <2>1, <3>1, <3>2, AbsDeliver, AbsCut, ZenonT(30)
  <2>3. CASE body' = "ended" /\ wire' = wire /\ buffer = << >> /\ drained' = "closed"
    <3>1. receiver = << >> /\ ~Cut /\ ~Cut'
        BY <1>0, <1>21, <2>1, <2>3, ZenonT(30) DEF PollIdle, Cut, Pipeline
    <3>2. Closed
        BY <1>0, <1>21, <2>1, <2>3, Zenon DEF PollIdle, Closed, Ownership, Pipeline
    <3>3. wire = accepted
      <4>1. accepted = wire \o (<< >> \o << >>)
          BY <1>0, <2>1, <2>3, <3>1, Zenon DEF Pipeline
      <4> QED
          BY <1>0, <4>1, ConcatEmptySeq DEF StreamTypes
    <3> QED
        BY <2>1, <2>3, <3>1, <3>2, <3>3, WirePrefix, AbsDeliver, ZenonT(30)
  <2>4. CASE body' = "ended" /\ wire' = wire /\ drained' = "shutdown"
    <3>1. Cut'
        BY <2>4, Zenon DEF Cut
    <3>2. Over'
        BY <2>4, Zenon DEF Over
    <3> QED
        BY <2>1, <2>4, <3>1, <3>2, WirePrefix, AbsDeliver, AbsCut, Zenon
  <2>5. CASE wire' = wire /\ body' = body /\ drained' = drained
      BY <2>1, <2>5, AbsStutter, Zenon DEF Cut, Over
  <2>6. drained' \in {"no", "closed", "shutdown"}
      BY <1>0, <1>21, Zenon DEF PollIdle, StreamTypes
  <2> QED
      BY <1>21, <2>2, <2>3, <2>4, <2>5, <2>6, ZenonT(30) DEF PollIdle, Finish
<1>22. CASE DeadlineElapses
    BY <1>22, AbsStutter, Zenon DEF DeadlineElapses, svcVars, rubyVars, Closed, Cut, Over
<1>23. CASE ShutdownRequested
    BY <1>23, AbsStutter, Zenon DEF ShutdownRequested, svcVars, rubyVars, streamVars, Closed,
       Cut, Over
<1>24. CASE ShutdownAnnounced
    BY <1>24, AbsStutter, Zenon DEF ShutdownAnnounced, svcVars, rubyVars, streamVars, Closed,
       Cut, Over
<1>25. CASE UNCHANGED vars
    BY <1>25, AbsStutter, Zenon DEF vars, svcVars, rubyVars, streamVars, Closed, Cut, Over
<1>26. CASE ClientReads
    BY <1>26, AbsStutter, Zenon DEF ClientReads, svcVars, rubyVars, Closed, Cut, Over
<1>27. CASE ServiceStep
    BY <1>27, <1>1, <1>2, <1>3, <1>4, <1>5, <1>6, ZenonT(30) DEF ServiceStep
<1>28. CASE RubyStep
    BY <1>28, <1>9, <1>10, <1>11, <1>12, <1>13, <1>14, <1>15, <1>16, <1>17, <1>18, ZenonT(30)
       DEF RubyStep
<1>29. CASE PollStep
    BY <1>29, <1>19, <1>20, <1>21, Zenon DEF PollStep
<1> QED
    BY <1>7, <1>8, <1>22, <1>23, <1>24, <1>25, <1>26, <1>27, <1>28, <1>29, ZenonT(30) DEF Next

\* The initial state of the exchange is ByteStream's.
LEMMA InitRefines == Init => Stream!Init
    BY DEF Init, Stream!Init, Cut

\* The response body is a ByteStream, whatever the depth of the stack, the
\* capacity of the channel, the size of the buffer and the number of frames:
\* every frame that FrameStream and BufferedStream pass on is the next one the
\* application sent, and only a finished and drained stream ends uncut.
THEOREM ResponseIsStream == Spec => StreamPromise
<1>1. IInv /\ [Next]_vars => [Stream!Next]_(Stream!vars)
    BY StepRefines, Zenon DEF AbstractStep
<1> QED
    BY <1>1, InitInv, Inductive, InitRefines, PTL DEF Spec, StreamPromise, Stream!Spec

(* The after methods mirror the before methods. *)

\* The befores ran from the first layer on; the afters run back from the last
\* of those, and pos is the layer that is next.
Mirror ==
  /\ pos \in Nat /\ ran \in Seq(Nat) /\ left \in Seq(Nat)
  /\ \A i \in 1..Len(ran) : ran[i] = i
  /\ \A i \in 1..Len(left) : left[i] = (Len(ran) - i) + 1
  /\ Len(left) <= Len(ran)
  /\ svc = "before" => pos = Len(ran) + 1 /\ Len(left) = 0
  /\ svc \in {"read", "wait", "hijack"} => pos >= 1 /\ pos = Len(ran) /\ Len(left) = 0
  /\ svc = "after" => pos >= 1 /\ pos = Len(ran) - Len(left)
  /\ svc = "done" /\ answer \notin {"404", "timeout", "gone"} => Len(left) = Len(ran)

\* A before is noted.
LEMMA RanGrows ==
  ASSUME Mirror, svc = "before", ran' = Append(ran, pos)
  PROVE  /\ ran' \in Seq(Nat) /\ Len(ran') = pos
         /\ \A i \in 1..Len(ran') : ran'[i] = i
    BY DEF Mirror

\* An after is noted.
LEMMA LeftGrows ==
  ASSUME Mirror, svc = "after", left' = Append(left, pos), ran' = ran
  PROVE  /\ left' \in Seq(Nat) /\ Len(left') = Len(left) + 1
         /\ \A i \in 1..Len(left') : left'[i] = (Len(ran') - i) + 1
<1>1. pos = (Len(ran) - (Len(left) + 1)) + 1
    BY DEF Mirror
<1> QED
    BY <1>1 DEF Mirror

\* The steps that move the service task.
LEMMA ServiceMoves ==
  ASSUME [Next]_vars
  PROVE  \/ ServiceStep
         \/ Timeout \/ Disconnect
         \/ svc' = svc /\ pos' = pos /\ ran' = ran /\ left' = left /\ answer' = answer
<1>1. CASE TakeJob \/ Refuse \/ SendEnds
    BY <1>1, Zenon DEF TakeJob, Refuse, Fail, SendEnds, svcVars
<1>2. CASE \E f \in NextFrame : SendFrame(f) \/ SendAndClose(f)
    BY <1>2, Zenon DEF SendFrame, SendAndClose, svcVars
<1>3. CASE Close \/ Hijack \/ Raise \/ Return \/ Collect
    BY <1>3, Zenon DEF Close, Hijack, Raise, Fail, Return, Collect, svcVars
<1>4. CASE PollStep \/ DeadlineElapses \/ ClientReads
    BY <1>4, Zenon DEF PollStep, PollFlush, PollRecv, PollIdle, DeadlineElapses, ClientReads, svcVars
<1>5. CASE ShutdownRequested \/ ShutdownAnnounced \/ UNCHANGED vars
    BY <1>5, Zenon DEF ShutdownRequested, ShutdownAnnounced, vars, svcVars
<1> QED
    BY <1>1, <1>2, <1>3, <1>4, <1>5, Zenon DEF Next, RubyStep

\* Mirror is inductive.
LEMMA MirrorStep == Mirror /\ [Next]_vars => Mirror'
<1> SUFFICES ASSUME Mirror, [Next]_vars PROVE Mirror'
    BY Zenon
<1>1. CASE LayerBefore
  <2>1. svc = "before" /\ left' = left /\ (ran' = Append(ran, pos) \/ ran' = ran)
      BY <1>1, Zenon DEF LayerBefore, Respond
  <2>2. \/ ran' = Append(ran, pos) /\ svc' = "before" /\ pos' = pos + 1
        \/ ran' = Append(ran, pos) /\ svc' = "after" /\ pos' = pos
        \/ svc' = "done" /\ answer' = "404" /\ pos' = pos
      BY <1>1, Zenon DEF LayerBefore, Respond
  <2>3. CASE ran' = Append(ran, pos)
      BY <2>1, <2>2, <2>3, RanGrows DEF Mirror
  <2>4. CASE ran' = ran /\ svc' = "done" /\ answer' = "404" /\ pos' = pos
      BY <2>1, <2>4 DEF Mirror
  <2> QED
      BY <2>1, <2>2, <2>3, <2>4
<1>2. CASE RubyBefore
  <2>1. svc = "before" /\ svc' = "read" /\ left' = left /\ ran' = Append(ran, pos) /\ pos' = pos
      BY <1>2, Zenon DEF RubyBefore
  <2> QED
      BY <2>1, RanGrows DEF Mirror
<1>3. CASE ReadBody \/ Receive \/ HijackHead
  <2>1. /\ svc \in {"read", "wait", "hijack"} /\ svc' \in {"wait", "hijack", "after"}
        /\ left' = left /\ ran' = ran /\ pos' = pos
      BY <1>3, Zenon DEF ReadBody, Receive, HijackHead, Respond
  <2> QED
      BY <2>1 DEF Mirror
<1>4. CASE LayerAfter
  <2>1. svc = "after" /\ left' = Append(left, pos) /\ ran' = ran /\ pos' = pos - 1
      BY <1>4, Zenon DEF LayerAfter
  <2>2. (pos > 1 /\ svc' = "after") \/ (pos = 1 /\ svc' = "done")
      BY <1>4, <2>1, Zenon DEF LayerAfter
  <2>3. /\ left' \in Seq(Nat) /\ Len(left') = Len(left) + 1
        /\ \A i \in 1..Len(left') : left'[i] = (Len(ran') - i) + 1
      BY <2>1, LeftGrows, Zenon
  <2>4. /\ pos \in Nat /\ pos >= 1 /\ pos = Len(ran) - Len(left)
        /\ Len(ran) \in Nat /\ Len(left) \in Nat /\ Len(left') \in Nat
        /\ ran' \in Seq(Nat) /\ \A i \in 1..Len(ran') : ran'[i] = i
      BY <2>1, <2>3 DEF Mirror
  <2>5. /\ pos' \in Nat /\ Len(left') <= Len(ran')
        /\ svc' = "after" => pos' >= 1 /\ pos' = Len(ran') - Len(left')
        /\ svc' = "done" => Len(left') = Len(ran')
      BY <2>1, <2>2, <2>3, <2>4
  <2> QED
      BY <2>2, <2>3, <2>4, <2>5, Zenon DEF Mirror
<1>5. CASE Timeout \/ Disconnect
  <2>1. /\ left' = left /\ ran' = ran /\ pos' = pos
        /\ (svc' = "done" /\ answer' \in {"timeout", "gone"}) \/ (svc' = svc /\ answer' = answer)
      BY <1>5, Zenon DEF Timeout, Disconnect, DropFuture
  <2> QED
      BY <2>1 DEF Mirror
<1>6. CASE svc' = svc /\ pos' = pos /\ ran' = ran /\ left' = left /\ answer' = answer
    BY <1>6 DEF Mirror
<1> QED
    BY <1>1, <1>2, <1>3, <1>4, <1>5, <1>6, ServiceMoves, Zenon DEF ServiceStep

\* What Mirror says of the two histories.
LEMMA Mirrored == Mirror => AfterMirrorsBefore
<1> SUFFICES ASSUME Mirror PROVE AfterMirrorsBefore
    BY Zenon
<1> DEFINE r == Reverse(ran)
<1>1. r \in Seq(Nat) /\ Len(r) = Len(ran) /\ \A i \in 1..Len(ran) : r[i] = (Len(ran) - i) + 1
    BY DEF Mirror, Reverse
<1>2. left \in Seq(Nat) /\ Len(left) <= Len(r) /\ \A i \in 1..Len(left) : left[i] = r[i]
    BY <1>1 DEF Mirror
<1> HIDE DEF r
<1>3. SubSeq(left, 1, Len(left)) = SubSeq(r, 1, Len(left))
    BY <1>1, <1>2
<1>4. Len(left) = Len(ran) => left = r
    BY <1>1, <1>2
<1> QED
    BY <1>2, <1>3, <1>4 DEF AfterMirrorsBefore, IsPrefix, Mirror, r

\* However a request goes through the stack, is answered, times out or loses
\* its connection, the after methods run in the opposite order of the before
\* methods, each at most once, and all of them when the response is served.
THEOREM AftersMirrorBefores == Spec => []AfterMirrorsBefore
<1>1. Init => Mirror
    BY DEF Init, Mirror
<1> QED
    BY <1>1, MirrorStep, Mirrored, PTL DEF Spec
=============================================================================
