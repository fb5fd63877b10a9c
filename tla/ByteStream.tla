----------------------------- MODULE ByteStream -----------------------------
(***************************************************************************)
(* What a streamed response body promises, whatever carries it: the        *)
(* client receives a prefix of what the application wrote, in order, and a *)
(* stream that was not cut ends only once the application has finished and *)
(* everything it wrote has been received.  A stream is cut by shutdown, by *)
(* a request timeout or by the loss of the connection.                     *)
(*                                                                         *)
(* HttpExchange and GrpcStream implement this specification.               *)
(***************************************************************************)
EXTENDS Naturals, Sequences

CONSTANT Frame

VARIABLES
  sent,     \* frames the application wrote, in order
  got,      \* frames handed to the connection, in order
  closed,   \* the application will write no more
  cut,      \* the stream was given up before its end
  over      \* the connection has let go of the body

vars == <<sent, got, closed, cut, over>>

Init ==
  /\ sent = << >>
  /\ got = << >>
  /\ closed = FALSE
  /\ cut = FALSE
  /\ over = FALSE

\* A cut stream still takes writes: the writer learns of the cut later.
Write ==
  /\ ~closed
  /\ \E f \in Frame : sent' = Append(sent, f)
  /\ closed' \in BOOLEAN
  /\ UNCHANGED <<got, cut, over>>

Close ==
  /\ closed' = TRUE
  /\ UNCHANGED <<sent, got, cut, over>>

\* Frames reach the connection in one or several pieces.
Deliver ==
  /\ ~over
  /\ \E n \in Len(got)..Len(sent) : got' = SubSeq(sent, 1, n)
  /\ over' \in BOOLEAN
  /\ over' => cut \/ (closed /\ got' = sent)
  /\ UNCHANGED <<sent, closed, cut>>

Cut ==
  /\ ~cut
  /\ cut' = TRUE
  /\ over' \in BOOLEAN
  /\ over => over'
  /\ closed' \in BOOLEAN
  /\ closed => closed'
  /\ \E n \in Len(got)..Len(sent) : got' = SubSeq(sent, 1, n)
  /\ UNCHANGED sent

Next == Write \/ Close \/ Deliver \/ Cut

Spec == Init /\ [][Next]_vars
=============================================================================
