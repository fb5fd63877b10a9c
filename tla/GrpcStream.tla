----------------------------- MODULE GrpcStream -----------------------------
(***************************************************************************)
(* One gRPC call with protobuf framing: the task that copies the request   *)
(* body into a pipe, the handler (GrpcInterface#handle_request) that reads *)
(* it and writes messages, trailers and the end of the stream, and the     *)
(* service task that builds the response and forwards the frames.          *)
(*                                                                         *)
(* The stream object is one mutex.  The handler keeps it while             *)
(* blocking_send waits for room in the channel (sending # NoFrame), and    *)
(* build_response needs it.  Nothing else holds it across a step, so the   *)
(* mutex is free exactly when sending = NoFrame.                           *)
(***************************************************************************)
EXTENDS Integers, Sequences

CONSTANTS
  MaxFrames,     \* bound: messages the handler gets into the channel
  Capacity,      \* room in the response channel (100 in the code)
  MaxChunks,     \* bound: messages in the request body
  PipeCapacity   \* messages the pipe of the request body holds

ASSUME GrpcAssumption ==
  /\ MaxChunks \in Nat
  /\ {MaxFrames, Capacity, PipeCapacity} \subseteq Nat \ {0}

Frame == 1..MaxFrames
Empty == 0              \* ByteFrame::Empty, the end of the stream
NoFrame == -1

VARIABLES
  svc,           \* process_request: waiting, needing the mutex, done or dropped
  chan,          \* the response channel
  first,         \* first_frame of build_response
  sending,       \* the frame blocking_send waits with, the mutex held
  handler,       \* where handle_request is
  body_written,
  reader,        \* the handler's end of the pipe
  trailer_tx,    \* "held", "sent", or "lost" to a body that was gone
  trailer_rx,    \* the receiving end of the trailers exists
  wire,          \* data frames handed to hyper
  body,          \* the response body
  entered,       \* the unfold passed its phase check and waits in select!
  phase,         \* RunningPhase
  pump,          \* the detached task that copies the request body into the pipe
  pipe,          \* messages in the pipe
  chunks,        \* messages received from the client
  cancelled,
  nils,          \* history: each_remote_read yielded nil
  accepted,      \* history: data frames the channel took
  closed         \* history: the end of the stream was sent, or could not be

pipeVars == <<pump, pipe, chunks, cancelled>>
callVars == <<handler, body_written, reader, nils>>
chanVars == <<chan, sending, accepted, closed>>
respVars == <<svc, first, trailer_rx, body, entered, wire>>
vars == <<pipeVars, callVars, chanVars, respVars, trailer_tx, phase>>

TypeOK ==
  /\ svc \in {"recv", "lock", "built", "dropped"}
  /\ chan \in Seq(Frame \cup {Empty})
  /\ {first, sending} \subseteq Frame \cup {Empty, NoFrame}
  /\ handler \in {"start", "unknown", "call", "status", "failed", "restatus",
                  "reclose", "close", "over", "abort", "lost", "freed", "refused", "dropped"}
  /\ {body_written, trailer_rx, entered, cancelled, nils, closed} \subseteq BOOLEAN
  /\ reader \in {"unopened", "open", "closed"}
  /\ trailer_tx \in {"held", "sent", "lost"}
  /\ wire \in Seq(Frame) /\ accepted \in Seq(Frame)
  /\ body \in {"none", "data", "trailers", "ended", "gone"}
  /\ phase \in {"Running", "ShutdownPending", "Shutdown"}
  /\ pump \in {"on", "eof", "closed", "panicked", "dropped"}
  /\ pipe \in 0..PipeCapacity /\ chunks \in 0..MaxChunks

Init ==
  /\ svc = "recv" /\ first = NoFrame /\ body = "none" /\ entered = FALSE
  /\ chan = << >> /\ sending = NoFrame
  /\ handler = "start" /\ body_written = FALSE /\ reader = "unopened"
  /\ trailer_tx = "held" /\ trailer_rx = TRUE
  /\ wire = << >> /\ phase = "Running"
  /\ pump = "on" /\ pipe = 0 /\ chunks = 0 /\ cancelled = FALSE
  /\ nils = FALSE /\ accepted = << >> /\ closed = FALSE
-----------------------------------------------------------------------------
(* The request body *)

\* A message is written to the non-blocking pipe.  When the pipe is full or
\* nobody can read it the write fails, and its unwrap ends the task together
\* with its end of the pipe, cancelled not set.
PumpChunk ==
  /\ pump = "on" /\ chunks < MaxChunks
  /\ chunks' = chunks + 1
  /\ IF pipe < PipeCapacity /\ reader # "closed" /\ handler \notin {"freed", "dropped"}
       THEN pipe' = pipe + 1 /\ UNCHANGED pump
       ELSE pump' = "panicked" /\ UNCHANGED pipe
  /\ UNCHANGED <<cancelled, callVars, chanVars, respVars, trailer_tx, phase>>

\* Mutant: the write end goes first and the flag is stored afterwards.
PumpClosesFirst ==
  /\ \/ pump = "on" /\ pump' = "closed" /\ UNCHANGED cancelled
     \/ pump = "closed" /\ cancelled' = TRUE /\ UNCHANGED pump
  /\ UNCHANGED <<pipe, chunks, callVars, chanVars, respVars, trailer_tx, phase>>

\* The body ends or fails: the flag is stored, then the write end is dropped.
PumpEnds ==
  /\ \/ pump = "on" /\ pump' = "eof" /\ cancelled' = TRUE
     \/ pump = "eof" /\ pump' = "closed" /\ UNCHANGED cancelled
  /\ UNCHANGED <<pipe, chunks, callVars, chanVars, respVars, trailer_tx, phase>>

\* The runtime is shut down while the pump awaits more of the body: the task is
\* dropped with its end of the pipe, cancelled not set.
PumpDropped ==
  /\ phase = "Shutdown" /\ pump = "on"
  /\ pump' = "dropped"
  /\ UNCHANGED <<pipe, chunks, cancelled, callVars, chanVars, respVars, trailer_tx, phase>>
-----------------------------------------------------------------------------
(* The handler *)

Idle == sending = NoFrame

\* The mutex is taken and kept until the frame is in the channel.
BeginSend(f) ==
  /\ Idle
  /\ sending' = f
  /\ UNCHANGED <<chan, accepted, closed>>

CloseReader == reader' = IF reader = "open" THEN "closed" ELSE reader

\* process_one after termination: the stream is closed, the call is dropped.
Refuse ==
  /\ handler = "start" /\ phase # "Running"
  /\ handler' = "refused"
  /\ BeginSend(Empty)
  /\ UNCHANGED <<body_written, reader, nils, pipeVars, respVars, trailer_tx, phase>>

\* An unknown method is answered with a line; a known one is called.
StartCall ==
  /\ handler = "start"
  /\ \/ handler' = "unknown" /\ BeginSend(1)
     \/ handler' = "call" /\ UNCHANGED chanVars
  /\ UNCHANGED <<body_written, reader, nils, pipeVars, respVars, trailer_tx, phase>>

\* each_remote_read: a message, or the end of the pipe, where the loop stops
\* when the call is cancelled and yields nil when it is not.  A reader that an
\* earlier close took away raises.
ReadMessage ==
  /\ handler = "call" /\ Idle
  /\ \/ /\ reader # "closed" /\ pipe > 0
        /\ pipe' = pipe - 1 /\ reader' = "open"
        /\ UNCHANGED <<handler, nils>>
     \/ /\ reader # "closed" /\ pipe = 0 /\ pump \in {"closed", "panicked", "dropped"}
        /\ nils' = (nils \/ ~cancelled) /\ reader' = "open"
        /\ UNCHANGED <<handler, pipe>>
     \/ /\ reader = "closed"
        /\ handler' = "failed"
        /\ UNCHANGED <<reader, nils, pipe>>
  /\ UNCHANGED <<body_written, pump, chunks, cancelled>>
  /\ UNCHANGED <<chanVars, respVars, trailer_tx, phase>>

\* remote_send by the service method.
WriteMessage ==
  /\ handler = "call" /\ Len(accepted) < MaxFrames
  /\ BeginSend(Len(accepted) + 1)
  /\ UNCHANGED <<callVars, pipeVars, respVars, trailer_tx, phase>>

\* The service method returns or raises a StandardError.
EndCall ==
  /\ handler = "call" /\ Idle
  /\ handler' \in {"status", "failed"}
  /\ UNCHANGED <<body_written, reader, nils, pipeVars, chanVars, respVars, trailer_tx, phase>>

\* An exception that is not a StandardError, or the kill of its thread, passes
\* the rescue clauses by and leaves only the ensure.
Abort ==
  /\ handler \in {"unknown", "call", "status", "failed", "restatus", "reclose"} /\ Idle
  /\ handler' = "abort"
  /\ UNCHANGED <<body_written, reader, nils, pipeVars, chanVars, respVars, trailer_tx, phase>>

\* The rescue clauses: send_empty, then a status.
SendEmpty ==
  /\ handler = "failed" /\ Idle
  /\ handler' = "restatus"
  /\ IF body_written THEN UNCHANGED chanVars ELSE BeginSend(1)
  /\ UNCHANGED <<body_written, reader, nils, pipeVars, respVars, trailer_tx, phase>>

\* Mutant: the receiver outlives the body that reads it.
ReceiverKept == TRUE

\* The receiver is dropped with the future or with the stream that owns it.
ReceiverAlive == svc \in {"recv", "lock"} \/ body = "data"

\* blocking_send comes back: there is room, or the receiver is gone.  A failed
\* write raises IOError; send_framed_message answers by closing the reader and
\* the stream, handle_request (unknown method) by going on to its ensure.
SendEnds ==
  /\ ~Idle
  /\ sending' = NoFrame
  /\ \/ /\ ReceiverAlive /\ Len(chan) < Capacity
        /\ chan' = Append(chan, sending)
        /\ IF sending = Empty
             THEN closed' = TRUE /\ UNCHANGED <<accepted, body_written>>
             ELSE /\ accepted' = Append(accepted, sending)
                  /\ body_written' = TRUE
                  /\ UNCHANGED closed
        /\ handler' = IF handler = "refused" THEN "dropped" ELSE handler
        /\ UNCHANGED reader
     \/ /\ ~ReceiverAlive
        /\ closed' = TRUE
        /\ handler' = CASE handler = "refused" -> "dropped"
                        [] handler = "unknown" -> "close"
                        [] OTHER -> handler
        /\ IF handler \in {"call", "restatus"} THEN CloseReader ELSE UNCHANGED reader
        /\ UNCHANGED <<chan, accepted, body_written>>
  /\ UNCHANGED <<nils, pipeVars, respVars, trailer_tx, phase>>

\* send_status: the oneshot works once.  A failure inside the begin block is
\* rescued and reported with a second status; any other goes to the ensure.
SendTrailers ==
  /\ handler \in {"unknown", "status", "restatus"} /\ Idle
  /\ IF trailer_tx = "held" /\ trailer_rx
       THEN /\ trailer_tx' = "sent"
            /\ handler' = IF handler = "unknown" THEN "reclose" ELSE "close"
       ELSE /\ trailer_tx' = IF trailer_tx = "held" THEN "lost" ELSE trailer_tx
            /\ handler' = IF handler = "status" THEN "failed" ELSE "close"
  /\ UNCHANGED <<body_written, reader, nils, pipeVars, chanVars, respVars, phase>>

\* Mutant: nothing marks the end of the stream.
CloseSilently ==
  /\ handler \in {"reclose", "close", "abort"} /\ Idle
  /\ handler' = CASE handler = "reclose" -> "close"
                  [] handler = "close" -> "over"
                  [] OTHER -> "lost"
  /\ CloseReader
  /\ UNCHANGED <<body_written, nils, pipeVars, chanVars, respVars, trailer_tx, phase>>

\* GrpcCall#close, twice for an unknown method; the only step of a call that
\* was aborted.
CloseStream ==
  /\ handler \in {"reclose", "close", "abort"}
  /\ handler' = CASE handler = "reclose" -> "close"
                  [] handler = "close" -> "over"
                  [] OTHER -> "lost"
  /\ CloseReader
  /\ BeginSend(Empty)
  /\ UNCHANGED <<body_written, nils, pipeVars, respVars, trailer_tx, phase>>

\* Ruby collects the call.
Collect ==
  /\ handler \in {"over", "lost"} /\ Idle
  /\ handler' = "freed"
  /\ UNCHANGED <<body_written, reader, nils, pipeVars, chanVars, respVars, trailer_tx, phase>>
-----------------------------------------------------------------------------
(* The service task and the response body *)

\* receiver.recv() yields the first frame.
RecvFirst ==
  /\ svc = "recv" /\ chan # << >>
  /\ svc' = "lock"
  /\ first' = Head(chan)
  /\ chan' = Tail(chan)
  /\ UNCHANGED <<sending, accepted, closed, trailer_rx, body, entered, wire>>
  /\ UNCHANGED <<pipeVars, callVars, trailer_tx, phase>>

\* Mutant: the first frame is not chained to the rest.
BuildWithoutFirst ==
  /\ svc = "lock" /\ Idle
  /\ svc' = "built"
  /\ first' = NoFrame
  /\ body' = IF first = Empty THEN "trailers" ELSE "data"
  /\ UNCHANGED <<wire, trailer_rx, entered, pipeVars, callVars, chanVars, trailer_tx, phase>>

\* build_response needs the mutex.  The first frame opens the body; an Empty
\* one makes it a body of trailers only, and the receiver is dropped.
BuildResponse ==
  /\ svc = "lock" /\ Idle
  /\ svc' = "built"
  /\ first' = NoFrame
  /\ IF first = Empty
       THEN body' = "trailers" /\ UNCHANGED wire
       ELSE body' = "data" /\ wire' = <<first>>
  /\ UNCHANGED <<trailer_rx, entered, pipeVars, callVars, chanVars, trailer_tx, phase>>

\* The unfold of frame_stream: nothing while shutdown is pending; otherwise a
\* frame or the end, or a wait that either of them or shutdown interrupts.
PollData ==
  /\ body = "data"
  /\ \/ /\ chan # << >> /\ (entered \/ phase # "ShutdownPending")
        /\ chan' = Tail(chan)
        /\ entered' = FALSE
        /\ IF Head(chan) = Empty
             THEN body' = "trailers" /\ UNCHANGED wire
             ELSE wire' = Append(wire, Head(chan)) /\ UNCHANGED body
     \/ /\ chan = << >> /\ phase # "ShutdownPending" /\ ~entered
        /\ entered' = TRUE
        /\ UNCHANGED <<chan, body, wire>>
     \/ /\ phase = "ShutdownPending"
        /\ body' = "trailers"
        /\ UNCHANGED <<chan, wire, entered>>
  /\ UNCHANGED <<sending, accepted, closed, svc, first, trailer_rx>>
  /\ UNCHANGED <<pipeVars, callVars, trailer_tx, phase>>

\* The sender is dropped with the last clone of the stream: the handler's or
\* the one process_request keeps until the response is built.
SenderDropped == handler \in {"freed", "dropped"} /\ svc \notin {"recv", "lock"}

\* with_trailers: the body ends with the trailers, or without any when their
\* sender was dropped.
PollTrailers ==
  /\ body = "trailers"
  /\ trailer_tx = "sent" \/ SenderDropped
  /\ body' = "ended"
  /\ trailer_rx' = FALSE
  /\ UNCHANGED <<svc, first, entered, wire, pipeVars, callVars, chanVars, trailer_tx, phase>>

\* The connection is lost, the client resets the stream, or a timeout or the
\* end of the runtime drops the future; a thread that waits for the mutex cannot
\* be interrupted.
Disconnect ==
  /\ svc # "lock" /\ body \notin {"ended", "gone"}
  /\ svc' = IF svc = "built" THEN svc ELSE "dropped"
  /\ body' = "gone"
  /\ trailer_rx' = (svc # "built")
  /\ UNCHANGED <<first, entered, wire, pipeVars, callVars, chanVars, trailer_tx, phase>>

ShutdownAnnounced ==
  /\ phase = "Running"
  /\ phase' = "ShutdownPending"
  /\ UNCHANGED <<pipeVars, callVars, chanVars, respVars, trailer_tx>>

\* The listeners are done, or were waited for long enough: the runtime is shut
\* down, while handlers may still run.
RuntimeStops ==
  /\ phase = "ShutdownPending"
  /\ phase' = "Shutdown"
  /\ UNCHANGED <<pipeVars, callVars, chanVars, respVars, trailer_tx>>
-----------------------------------------------------------------------------
HandlerStep ==
  \/ Refuse \/ StartCall \/ ReadMessage \/ WriteMessage \/ EndCall \/ Abort \/ SendEmpty
  \/ SendEnds \/ SendTrailers \/ CloseStream \/ Collect

ServiceStep == RecvFirst \/ BuildResponse \/ PollData \/ PollTrailers

Next ==
  \/ PumpChunk \/ PumpEnds \/ PumpDropped
  \/ HandlerStep \/ ServiceStep
  \/ Disconnect \/ ShutdownAnnounced \/ RuntimeStops

Spec == Init /\ [][Next]_vars

\* A client that stays connected reads, so that hyper polls what is ready, until
\* the runtime is shut down and drops what is left.  The library's part of the
\* handler runs on.  The service method need not end, Ruby need not collect the
\* call and nobody need shut the server down.
Fairness ==
  /\ WF_vars(ServiceStep \/ (phase = "Shutdown" /\ Disconnect))
  /\ WF_vars(SendEnds)
  /\ WF_vars(SendEmpty \/ SendTrailers \/ CloseStream)

FairSpec == Spec /\ Fairness
-----------------------------------------------------------------------------
Cut == phase # "Running" \/ body = "gone"

Stream == INSTANCE ByteStream WITH
  sent <- accepted, got <- wire, cut <- Cut,
  over <- body \in {"trailers", "ended", "gone"}

\* The body of a gRPC response keeps the promise of a stream: frames in the
\* order of the writes, none lost or repeated, and an end only after the close
\* unless shutdown or the loss of the client cut it.
StreamPromise == Stream!Spec

\* each_remote_read never yields nil to a service method while the request can
\* still be read to its end: the flag that ends its loop is set before the end
\* of the pipe can be seen.  The exceptions are a pump that panicked on a full
\* pipe and one that the end of the runtime dropped.
NilOnlyAfterLoss == nils => pump \in {"panicked", "dropped"}

\* Every write comes back, if the client reads or goes away, except when the
\* handler is more than a channel ahead of a response that is not built yet:
\* then the write keeps the mutex that build_response waits for.
WriterReleased ==
  ~Idle ~> (Idle \/ (svc = "lock" /\ Len(accepted) > Capacity))

\* A call whose handler has ended, by itself or through a rescue clause, is
\* answered with its status, unless the client has gone or the server stopped.
StatusDelivered ==
  (handler = "over" /\ Idle) ~>
    (body = "gone" \/ (body = "ended" /\ trailer_tx = "sent"))
=============================================================================
