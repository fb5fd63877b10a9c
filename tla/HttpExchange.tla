---------------------------- MODULE HttpExchange ----------------------------
(***************************************************************************)
(* One HTTP request from ItsiHttpService::handle_request to the last byte  *)
(* of its response: the middleware stack, the hand-over to a Ruby worker,  *)
(* the response object the application writes to, the two streams that     *)
(* carry a streamed body to hyper, the request timeout, the shutdown phase *)
(* and the loss of the connection.                                         *)
(*                                                                         *)
(* The actors are the service task, the Ruby thread that runs the          *)
(* application, the task in which hyper polls the body, the timers and     *)
(* the supervisor that announces shutdown.  Which worker takes the job is  *)
(* the subject of WorkerPool.                                              *)
(***************************************************************************)
EXTENDS Integers, SequencesExt

CONSTANTS
  Layers,      \* length of the middleware stack
  MaxFrames,   \* bound: frames the application sends
  Capacity,    \* room in the frame channel (256 in the code)
  FlushAt,     \* frames that fill BufferedStream's buffer (32 KiB)
  Timeouts,    \* request_timeout is configured
  SingleMode,  \* server_params.workers == 1
  Http1        \* the connection's own task polls the body (not so in HTTP/2)

ASSUME HttpAssumption ==
  /\ Layers \in Nat \ {0}
  /\ MaxFrames \in Nat
  /\ Capacity \in Nat \ {0}
  /\ FlushAt \in Nat \ {0}
  /\ Timeouts \in BOOLEAN
  /\ SingleMode \in BOOLEAN
  /\ Http1 \in BOOLEAN

\* Frames are numbered in the order they are sent; an empty frame is Empty.
Empty == 0
Frame == 0..MaxFrames
NoFrame == -1

VARIABLES
  svc,              \* where the service future is
  pos,              \* index in the stack: the layer that runs, then `depth`
  ran, left,        \* layers whose before, whose after ran, in order
  is_ruby_request,
  lifecycle,        \* lifecycle events sent in this process
  answer,           \* what hyper was given
  job,              \* the request on the Ruby side
  response,         \* ResponseInner.response is Some
  response_sender,  \* ResponseInner.response_sender is Some
  frame_writer,     \* ResponseInner.frame_writer is Some
  oneshot,          \* the ResponseFrame under way to the service task
  sending,          \* the frame a blocking_send is waiting with
  closing,          \* that send is the one of send_and_close
  body,             \* the body built by the application
  receiver,         \* FrameStream.receiver: the frames in the channel
  drained,          \* FrameStream.drained, with the reason
  buffer,           \* BufferedStream.buffer
  flush_deadline,
  awake,            \* the task that polls the body has been woken
  wire,             \* frames handed to hyper
  room,             \* hyper has room for more: what it holds goes out to the client
  phase,            \* RunningPhase
  SHUTDOWN_REQUESTED,
  accepted          \* history: frames the channel or a full body took

svcVars == <<svc, pos, ran, left, is_ruby_request, lifecycle, answer>>
rubyVars == <<job, response, response_sender, frame_writer, sending, closing>>
streamVars == <<receiver, drained, buffer, flush_deadline, wire, room>>
phaseVars == <<phase, SHUTDOWN_REQUESTED>>
vars == <<svcVars, rubyVars, streamVars, oneshot, body, awake, phaseVars, accepted>>

TypeOK ==
  /\ svc \in {"before", "read", "wait", "hijack", "after", "done"}
  /\ pos \in 0..Layers + 1
  /\ ran \in Seq(1..Layers) /\ left \in Seq(1..Layers)
  /\ is_ruby_request \in BOOLEAN
  /\ lifecycle \in SUBSET {"Restart", "Shutdown"}
  /\ answer \in {"none", "layer", "app", "hijacked", "empty", "404", "413",
                 "500", "503", "timeout", "gone"}
  /\ job \in {"none", "queued", "running", "over", "freed"}
  /\ {response, response_sender, frame_writer, closing, awake, room} \subseteq BOOLEAN
  /\ oneshot \in {"none", "response", "hijacked"}
  /\ sending \in Frame \cup {NoFrame}
  /\ body \in {"none", "full", "stream", "served", "ended", "gone"}
  /\ receiver \in Seq(Frame) /\ buffer \in Seq(Frame) /\ wire \in Seq(Frame)
  /\ accepted \in Seq(Frame)
  /\ drained \in {"no", "closed", "shutdown"}
  /\ flush_deadline \in {"none", "armed", "due"}
  /\ phase \in {"Running", "ShutdownPending"}
  /\ SHUTDOWN_REQUESTED \in BOOLEAN

Init ==
  /\ svc = "before" /\ pos = 1 /\ ran = << >> /\ left = << >>
  /\ is_ruby_request = FALSE /\ lifecycle = {} /\ answer = "none"
  /\ job = "none"
  /\ response = FALSE /\ response_sender = FALSE /\ frame_writer = FALSE
  /\ oneshot = "none" /\ sending = NoFrame /\ closing = FALSE
  /\ body = "none" /\ receiver = << >> /\ drained = "no"
  /\ buffer = << >> /\ flush_deadline = "none" /\ wire = << >> /\ room = TRUE
  /\ awake = FALSE /\ accepted = << >>
  /\ phase = "Running" /\ SHUTDOWN_REQUESTED = FALSE
-----------------------------------------------------------------------------
(* The service task *)

\* Mutant: skip(stack.len() - depth), the answering layer's after is skipped.
RespondSkips(a) ==
  /\ svc' = "after"
  /\ answer' = a
  /\ pos' = IF pos > 1 THEN pos - 1 ELSE pos
  /\ UNCHANGED <<left, is_ruby_request, lifecycle>>

\* The answer is known: the after methods run from layer pos down.
Respond(a) ==
  /\ svc' = "after"
  /\ answer' = a
  /\ UNCHANGED <<pos, left, is_ruby_request, lifecycle>>

\* before of layer pos passes the request on, answers it, or fails: then the
\* loop breaks without a response, no after runs and the answer is a 404.
\* A stack that ends without an answer gives the same 404.
LayerBefore ==
  /\ svc = "before"
  /\ \/ /\ pos <= Layers
        /\ ran' = Append(ran, pos)
        /\ pos' = pos + 1
        /\ UNCHANGED <<svc, left, is_ruby_request, lifecycle, answer>>
     \/ /\ pos <= Layers
        /\ ran' = Append(ran, pos)
        /\ Respond("layer")
     \/ /\ ran' = IF pos <= Layers THEN Append(ran, pos) ELSE ran
        /\ svc' = "done"
        /\ answer' = "404"
        /\ UNCHANGED <<pos, left, is_ruby_request, lifecycle>>
  /\ UNCHANGED <<rubyVars, streamVars, oneshot, body, awake, phaseVars, accepted>>

\* RubyApp::before: from here on the request counts as a Ruby request.
RubyBefore ==
  /\ svc = "before" /\ pos <= Layers
  /\ svc' = "read"
  /\ is_ruby_request' = TRUE
  /\ ran' = Append(ran, pos)
  /\ UNCHANGED <<pos, left, lifecycle, answer>>
  /\ UNCHANGED <<rubyVars, streamVars, oneshot, body, awake, phaseVars, accepted>>

\* ItsiHttpRequest::new and the hand-over in process_request: the body may
\* exceed its limit or fail, the job channel may be full or closed.
ReadBody ==
  /\ svc = "read"
  /\ UNCHANGED ran
  /\ \/ /\ \E a \in {"413", "empty", "503", "500"} : Respond(a)
        /\ UNCHANGED rubyVars
     \/ /\ svc' = "wait"
        /\ job' = "queued"
        /\ response' = TRUE /\ response_sender' = TRUE
        /\ UNCHANGED <<pos, left, is_ruby_request, lifecycle, answer>>
        /\ UNCHANGED <<frame_writer, sending, closing>>
  /\ UNCHANGED <<streamVars, oneshot, body, awake, phaseVars, accepted>>

\* The oneshot's answer, or its sender dropped without one.
Receive ==
  /\ svc = "wait"
  /\ UNCHANGED ran
  /\ \/ oneshot = "response" /\ Respond("app")
     \/ /\ oneshot = "hijacked"
        /\ svc' = "hijack"
        /\ UNCHANGED <<pos, left, is_ruby_request, lifecycle, answer>>
     \/ oneshot = "none" /\ ~response_sender /\ Respond("500")
  /\ oneshot' = "none"
  /\ UNCHANGED <<rubyVars, streamVars, body, awake, phaseVars, accepted>>

\* process_hijacked_response: the response head is read from the socket.
HijackHead ==
  /\ svc = "hijack"
  /\ UNCHANGED ran
  /\ \E a \in {"hijacked", "empty"} : Respond(a)
  /\ UNCHANGED <<rubyVars, streamVars, oneshot, body, awake, phaseVars, accepted>>

\* Hyper takes the response: a full body is written out, a stream is polled, at
\* once if the client has read enough of what was sent on the connection before.
Serve ==
  /\ body' = CASE body = "full" -> "ended" [] body = "stream" -> "served"
               [] OTHER -> body
  /\ wire' = IF body = "full" THEN accepted ELSE wire
  /\ awake' = (body = "stream")
  /\ room' \in {TRUE, body # "stream"}
  /\ UNCHANGED <<receiver, drained, buffer, flush_deadline>>

\* Mutant: the body of a dropped response keeps its receiver.
DroppedLeaks == body

\* A response that nobody will serve takes its body with it.
Dropped == IF body \in {"full", "stream"} THEN "gone" ELSE body

\* The after methods of layers depth, ..., 1; the last one yields the response.
\* Any layer, the last one too, may put another response in the place of the
\* one it is given.
LayerAfter ==
  /\ svc = "after"
  /\ left' = Append(left, pos)
  /\ pos' = pos - 1
  /\ \/ /\ pos > 1
        /\ body' \in {body, Dropped}
        /\ UNCHANGED <<svc, streamVars, awake>>
     \/ /\ pos = 1 /\ svc' = "done"
        /\ Serve \/ (body' = Dropped /\ UNCHANGED <<streamVars, awake>>)
  /\ UNCHANGED <<ran, is_ruby_request, lifecycle, answer>>
  /\ UNCHANGED <<rubyVars, oneshot, phaseVars, accepted>>

\* The service future is dropped with all it owns: the oneshot's receiving
\* end, a response under way, the body stream in it.
DropFuture(a) ==
  /\ svc' = "done"
  /\ answer' = a
  /\ oneshot' = "none"
  /\ body' = Dropped
  /\ UNCHANGED <<pos, ran, left, is_ruby_request>>

\* timeout(...) elapses: a worker that may be busy with Ruby code is replaced.
Timeout ==
  /\ Timeouts /\ svc # "done"
  /\ DropFuture("timeout")
  /\ lifecycle' =
       IF is_ruby_request /\ ~SHUTDOWN_REQUESTED
         THEN lifecycle \cup {IF SingleMode THEN "Restart" ELSE "Shutdown"}
         ELSE lifecycle
  /\ UNCHANGED <<rubyVars, streamVars, awake, phaseVars, accepted>>

\* The connection is lost, or given up by Acceptor::join at its deadline: the
\* service future and the body go with it.
Disconnect ==
  /\ \/ svc # "done" /\ DropFuture("gone")
     \/ /\ body = "served"
        /\ body' = "gone"
        /\ UNCHANGED <<svc, pos, ran, left, is_ruby_request, answer, oneshot>>
  /\ UNCHANGED <<lifecycle, rubyVars, streamVars, awake, phaseVars, accepted>>
-----------------------------------------------------------------------------
(* The Ruby thread *)

Idle == job = "running" /\ sending = NoFrame

\* A worker takes the job; one that is shutting down refuses it.
TakeJob ==
  /\ job = "queued"
  /\ job' = "running"
  /\ UNCHANGED <<response, response_sender, frame_writer, sending, closing>>
  /\ UNCHANGED <<svcVars, streamVars, oneshot, body, awake, phaseVars, accepted>>

\* The response goes out with body b through the oneshot, if its sender is
\* still there and somebody waits for it; otherwise it is dropped.
SendResponse(b) ==
  /\ response' = FALSE
  /\ response_sender' = FALSE
  /\ IF response_sender /\ svc = "wait"
       THEN oneshot' = "response" /\ body' = b
       ELSE /\ UNCHANGED oneshot
            /\ body' = IF b = "none" THEN body ELSE "gone"

\* send_frame: the first frame turns the response into a stream.  Without a
\* writer the frame is ignored.
SendFrame(f) ==
  /\ Idle /\ Len(accepted) < MaxFrames
  /\ IF ~frame_writer /\ response
       THEN SendResponse("stream") /\ frame_writer' = TRUE
       ELSE UNCHANGED <<response, response_sender, oneshot, body, frame_writer>>
  /\ sending' = IF frame_writer' THEN f ELSE NoFrame
  /\ UNCHANGED <<job, closing>>
  /\ UNCHANGED <<svcVars, streamVars, awake, phaseVars, accepted>>

ReceiverAlive == body \in {"stream", "served"}

\* blocking_send ends: the channel takes the frame, or the receiver is gone
\* and the application gets an EOFError, which the Rack handler answers with
\* close and ItsiHttpRequest::internal_error likewise.
SendEnds ==
  /\ sending # NoFrame
  /\ sending' = NoFrame
  /\ \/ /\ ReceiverAlive
        /\ Len(receiver) < Capacity
        /\ receiver' = Append(receiver, sending)
        /\ accepted' = Append(accepted, sending)
        /\ frame_writer' = (frame_writer /\ ~closing)
        /\ awake' = TRUE
        /\ UNCHANGED job
     \/ /\ ~ReceiverAlive
        /\ frame_writer' = FALSE
        /\ job' = "over"
        /\ UNCHANGED <<receiver, accepted, awake>>
  /\ closing' = FALSE
  /\ UNCHANGED <<response, response_sender>>
  /\ UNCHANGED <<svcVars, oneshot, body, drained, buffer, flush_deadline, wire, room, phaseVars>>

\* send_and_close: the last frame of a stream, or the whole body at once.
SendAndClose(f) ==
  /\ Idle /\ Len(accepted) < MaxFrames
  /\ IF frame_writer
       THEN /\ sending' = f /\ closing' = TRUE
            /\ UNCHANGED <<response, response_sender, oneshot, body, accepted>>
       ELSE /\ UNCHANGED <<sending, closing>>
            /\ IF response
                 THEN /\ SendResponse("full")
                      /\ accepted' = IF body' = "full" THEN <<f>> ELSE accepted
                 ELSE UNCHANGED <<response, response_sender, oneshot, body, accepted>>
  /\ UNCHANGED <<job, frame_writer>>
  /\ UNCHANGED <<svcVars, streamVars, awake, phaseVars>>

\* close, close_write: the writer is dropped, which wakes the stream.  A
\* response that was not sent yet stays where it is.
Close ==
  /\ Idle
  /\ frame_writer' = FALSE
  /\ awake' = TRUE
  /\ UNCHANGED <<job, response, response_sender, sending, closing>>
  /\ UNCHANGED <<svcVars, streamVars, oneshot, body, phaseVars, accepted>>

\* hijack: the service task is told to read the response from the socket.
Hijack ==
  /\ Idle
  /\ oneshot' = IF response_sender /\ svc = "wait" THEN "hijacked" ELSE oneshot
  /\ response_sender' = FALSE
  /\ frame_writer' = FALSE
  /\ awake' = TRUE
  /\ UNCHANGED <<job, response, sending, closing>>
  /\ UNCHANGED <<svcVars, streamVars, body, phaseVars, accepted>>

\* internal_server_error and service_unavailable: the writer is dropped; a
\* response that is still there goes out without a body.
Fail ==
  /\ frame_writer' = FALSE
  /\ awake' = TRUE
  /\ job' = "over"
  /\ IF response
       THEN SendResponse("none")
       ELSE UNCHANGED <<response, response_sender, oneshot, body>>
  /\ UNCHANGED <<sending, closing>>
  /\ UNCHANGED <<svcVars, streamVars, phaseVars, accepted>>

Raise == Idle /\ Fail
Refuse == job = "queued" /\ phase # "Running" /\ Fail

Return ==
  /\ Idle
  /\ job' = "over"
  /\ UNCHANGED <<response, response_sender, frame_writer, sending, closing>>
  /\ UNCHANGED <<svcVars, streamVars, oneshot, body, awake, phaseVars, accepted>>

\* Ruby collects the request and its response object.
Collect ==
  /\ job = "over"
  /\ job' = "freed"
  /\ response' = FALSE /\ response_sender' = FALSE /\ frame_writer' = FALSE
  /\ awake' = TRUE
  /\ UNCHANGED <<sending, closing>>
  /\ UNCHANGED <<svcVars, streamVars, oneshot, body, phaseVars, accepted>>
-----------------------------------------------------------------------------
(* Hyper polls the body: BufferedStream over FrameStream.  Every turn of the *)
(* loop in BufferedStream::poll_next is one step.                            *)

\* Hyper polls the body when it is woken and has room for what it will get.
Polling == body = "served" /\ awake /\ room

Flush(frames) ==
  /\ wire' = wire \o frames
  /\ room' \in BOOLEAN
  /\ buffer' = << >>
  /\ flush_deadline' = "none"

\* The flush interval has elapsed while frames are buffered.
PollFlush ==
  /\ Polling
  /\ flush_deadline = "due" /\ buffer # << >>
  /\ Flush(buffer)
  /\ UNCHANGED <<svcVars, rubyVars, oneshot, body, receiver, drained, awake, phaseVars, accepted>>

\* Mutant: the flush deadline is only set by a buffer that is not empty.
PollRecvUnarmed ==
  /\ Polling
  /\ flush_deadline # "due"
  /\ drained = "no" /\ receiver # << >>
  /\ receiver' = Tail(receiver)
  /\ LET frames == Append(buffer, Head(receiver))
     IN IF Head(receiver) = Empty \/ Len(frames) >= FlushAt
          THEN Flush(frames)
          ELSE /\ buffer' = frames
               /\ flush_deadline' = IF buffer = << >> THEN "none" ELSE "armed"
               /\ UNCHANGED <<wire, room>>
  /\ UNCHANGED <<svcVars, rubyVars, oneshot, body, drained, awake, phaseVars, accepted>>

\* FrameStream yields a frame; an empty one or a full buffer is flushed.
PollRecv ==
  /\ Polling
  /\ flush_deadline # "due"
  /\ drained = "no" /\ receiver # << >>
  /\ receiver' = Tail(receiver)
  /\ LET frames == Append(buffer, Head(receiver))
     IN IF Head(receiver) = Empty \/ Len(frames) >= FlushAt
          THEN Flush(frames)
          ELSE /\ buffer' = frames
               /\ flush_deadline' = IF flush_deadline = "none" THEN "armed"
                                                               ELSE flush_deadline
               /\ UNCHANGED <<wire, room>>
  /\ UNCHANGED <<svcVars, rubyVars, oneshot, body, drained, awake, phaseVars, accepted>>

\* Mutant: the body ends although frames are buffered.
FinishEarly == body' = "ended" /\ UNCHANGED <<wire, room, buffer, flush_deadline>>

\* FrameStream has ended: what is buffered goes out, then the body ends.
Finish ==
  IF buffer # << >>
    THEN Flush(buffer) /\ UNCHANGED body
    ELSE body' = "ended" /\ UNCHANGED <<wire, room, buffer, flush_deadline>>

\* FrameStream: every writer is gone and the channel is empty, or it is empty
\* and shutdown is pending.  Nothing to do otherwise: the task sleeps.
PollIdle ==
  /\ Polling
  /\ flush_deadline # "due"
  /\ \/ drained # "no" /\ UNCHANGED <<drained, awake>> /\ Finish
     \/ /\ drained = "no" /\ receiver = << >> /\ ~frame_writer
        /\ drained' = "closed"
        /\ UNCHANGED awake
        /\ Finish
     \/ /\ drained = "no" /\ receiver = << >> /\ frame_writer
        /\ phase = "ShutdownPending"
        /\ drained' = "shutdown"
        /\ UNCHANGED awake
        /\ Finish
     \/ /\ drained = "no" /\ receiver = << >> /\ frame_writer
        /\ phase # "ShutdownPending"
        /\ awake' = FALSE
        /\ UNCHANGED <<drained, body, wire, room, buffer, flush_deadline>>
  /\ UNCHANGED <<svcVars, rubyVars, oneshot, receiver, phaseVars, accepted>>

\* The sleep of max_flush_interval elapses.
DeadlineElapses ==
  /\ flush_deadline = "armed"
  /\ flush_deadline' = "due"
  /\ awake' = TRUE
  /\ UNCHANGED <<svcVars, rubyVars, oneshot, body, receiver, drained, buffer, wire, room>>
  /\ UNCHANGED <<phaseVars, accepted>>

\* The client reads on, and the connection can be written to again.
ClientReads ==
  /\ body = "served" /\ ~room
  /\ room' = TRUE
  /\ UNCHANGED <<receiver, drained, buffer, flush_deadline, wire>>
  /\ UNCHANGED <<svcVars, rubyVars, oneshot, body, awake, phaseVars, accepted>>
-----------------------------------------------------------------------------
(* The supervisor *)

\* A Shutdown event is sent: by the signal handler, which sets the flag too, or
\* by another request of this process that timed out in Ruby code.
ShutdownRequested ==
  /\ lifecycle' = lifecycle \cup {"Shutdown"}
  /\ \/ SHUTDOWN_REQUESTED' = TRUE
     \/ /\ Timeouts /\ ~SingleMode /\ ~SHUTDOWN_REQUESTED
        /\ UNCHANGED SHUTDOWN_REQUESTED
  /\ UNCHANGED <<svc, pos, ran, left, is_ruby_request, answer, phase>>
  /\ UNCHANGED <<rubyVars, streamVars, oneshot, body, awake, accepted>>

\* Mutant: the connection does not watch the phase.
ShutdownUnheard ==
  /\ "Shutdown" \in lifecycle
  /\ phase' = "ShutdownPending"
  /\ UNCHANGED <<svcVars, SHUTDOWN_REQUESTED, rubyVars, streamVars, oneshot, body, awake, accepted>>

\* The accept loop takes the event and announces ShutdownPending: the
\* connection's task wakes, starts hyper's graceful shutdown and polls the
\* connection again.  In HTTP/2 a body is polled by a task of its own, which
\* this does not wake.
ShutdownAnnounced ==
  /\ "Shutdown" \in lifecycle /\ phase = "Running"
  /\ phase' = "ShutdownPending"
  /\ awake' = (awake \/ Http1)
  /\ UNCHANGED <<svcVars, SHUTDOWN_REQUESTED, rubyVars, streamVars, oneshot, body, accepted>>
-----------------------------------------------------------------------------
ServiceStep == LayerBefore \/ RubyBefore \/ ReadBody \/ Receive \/ HijackHead \/ LayerAfter
PollStep == PollFlush \/ PollRecv \/ PollIdle

NextFrame == {Empty, Len(accepted) + 1}

RubyStep ==
  \/ TakeJob \/ Refuse \/ SendEnds
  \/ \E f \in NextFrame : SendFrame(f) \/ SendAndClose(f)
  \/ Close \/ Hijack \/ Raise \/ Return \/ Collect

Next ==
  \/ ServiceStep \/ Timeout \/ Disconnect
  \/ RubyStep
  \/ PollStep \/ DeadlineElapses \/ ClientReads
  \/ ShutdownRequested \/ ShutdownAnnounced

Spec == Init /\ [][Next]_vars

\* The service task runs on when its await is ready, hyper polls a woken body,
\* timers fire, a blocked send returns when it can, and a requested shutdown
\* is announced.  Nothing is assumed of the application, of the client, which
\* may stay connected and stop reading, of the layers before the application,
\* or of Ruby's garbage collector.
Fairness ==
  /\ WF_vars(Receive) /\ WF_vars(LayerAfter)
  /\ WF_vars(PollStep) /\ WF_vars(DeadlineElapses)
  /\ WF_vars(SendEnds) /\ WF_vars(ShutdownAnnounced)

FairSpec == Spec /\ Fairness
-----------------------------------------------------------------------------
Cut == body = "gone" \/ drained = "shutdown"

Stream == INSTANCE ByteStream WITH
  Frame <- Frame,
  sent <- accepted,
  got <- wire,
  closed <- job # "none" /\ ~response /\ ~frame_writer,
  cut <- Cut,
  over <- body \in {"ended", "gone"}

\* The response body is a ByteStream: hyper is given the frames the
\* application sent, in order and without a gap, and a body that was not cut
\* ends only when the writer is gone and nothing is left in the channel or in
\* BufferedStream's buffer.
StreamPromise == Stream!Spec

\* Every layer whose before ran on an answered request runs its after exactly
\* once, in the opposite order; a failed before, a stack without an answer, a
\* timeout or a lost connection end the request without the remaining afters.
AfterMirrorsBefore ==
  /\ IsPrefix(left, Reverse(ran))
  /\ svc = "done" /\ answer \notin {"404", "timeout", "gone"}
       => left = Reverse(ran)

\* The client keeps reading for as long as it is served.  Nothing in the code
\* sees to it: a response has no write timeout.
Drains == []<>(room \/ body # "served")

\* A frame the channel took is handed to hyper even if the application sends
\* nothing more and never closes: the flush deadline sees to it, as long as the
\* client reads what went before.
FrameDelivered ==
  Drains => \A n \in 1..MaxFrames : Len(accepted) >= n ~> (Len(wire) >= n \/ Cut)

\* A Ruby thread blocked in send_frame on a full channel gets away unless the
\* client stays connected and reads no more: the frames are taken, or the
\* receiver is dropped (by a timeout, a lost connection or an after method that
\* replaced the response) and the send fails.
SenderReleased == Drains => (sending # NoFrame ~> sending = NoFrame)

\* Once shutdown is announced a streamed response whose client reads ends
\* although its application keeps the writer open and idle.
StreamEndsAtShutdown ==
  Drains => (phase = "ShutdownPending" /\ body = "served" ~> body # "served")
=============================================================================
