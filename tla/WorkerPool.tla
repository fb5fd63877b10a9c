----------------------------- MODULE WorkerPool ------------------------------
(***************************************************************************)
(* The Ruby worker threads of one process (server/thread_worker.rs), the   *)
(* bounded channels that feed them, and the part of SingleMode::run that   *)
(* stops them (server/serve_strategy/single_mode.rs).  A thread worker     *)
(* runs accept_loop.  A fiber worker runs the scheduler proc on a          *)
(* scheduler fiber and has a waker thread, which takes the next message    *)
(* for it while it is blocked.  Of the scheduler only block and unblock    *)
(* are used here: a blocked fiber goes on once it has been unblocked.      *)
(***************************************************************************)
EXTENDS Integers, Sequences, FiniteSets, Functions

CONSTANTS
    ThreadWorkers, FiberWorkers,
    Jobs,              \* requests that reach a Ruby app
    GrpcJobs,          \* those of them that wait for room in the channel
    BlockingSize,      \* ruby_thread_request_backlog_size
    NonblockingSize,   \* scheduler_threads * 30
    MaxBatch,          \* MAX_BATCH_SIZE
    Shutdown, NoJob

Workers == ThreadWorkers \cup FiberWorkers

ASSUME PoolAssumption ==
    /\ ThreadWorkers \cap FiberWorkers = {}
    /\ IsFiniteSet(Workers) /\ Workers # {}
    /\ GrpcJobs \subseteq Jobs
    /\ BlockingSize \in Nat \ {0} /\ NonblockingSize \in Nat \ {0}
    /\ MaxBatch \in Nat \ {0}
    /\ Shutdown \notin Jobs /\ NoJob \notin Jobs /\ Shutdown # NoJob

\* build_thread_workers: with both pools the fiber workers have a channel of
\* their own; otherwise nonblocking_sender is the blocking sender.
Channels == IF ThreadWorkers # {} /\ FiberWorkers # {}
            THEN {"blocking", "nonblocking"} ELSE {"blocking"}

Size == [blocking |-> BlockingSize, nonblocking |-> NonblockingSize]

Chan(w) == IF w \in FiberWorkers /\ "nonblocking" \in Channels
           THEN "nonblocking" ELSE "blocking"

NonblockingSender == IF "nonblocking" \in Channels THEN "nonblocking" ELSE "blocking"

VARIABLES
    queue,       \* the messages in each channel
    job,         \* what has become of each request
    wpc,         \* where each worker is in its loop
    batch,       \* a fiber worker's batch; a thread worker's current request
    got,         \* how many messages a fiber worker has received for its batch
    fibers,      \* the requests that run on fibers of a worker
    leader, permits, terminated,
    changed, stop,    \* the watch channel of TerminateWakerSignal: unseen?, value
    waker,       \* the waker thread
    main, sent,  \* SingleMode::run: phase, and Shutdowns sent
    aborted,     \* Acceptor::join timed out and aborted the connections
    late         \* the shutdown deadline has passed

work == <<queue, job, batch, got, fibers>>
wakers == <<leader, permits, changed, stop, waker>>
control == <<main, sent, aborted, late>>
vars == <<work, wpc, terminated, wakers, control>>

Init ==
    /\ queue = [c \in Channels |-> <<>>]
    /\ job = [j \in Jobs |-> "new"]
    /\ wpc = [w \in Workers |-> IF w \in ThreadWorkers THEN "recv" ELSE "take"]
    /\ batch = [w \in Workers |-> <<>>]
    /\ got = [w \in FiberWorkers |-> 0]
    /\ fibers = [w \in FiberWorkers |-> {}]
    /\ leader = [w \in FiberWorkers |-> NoJob]
    /\ permits = [w \in FiberWorkers |-> 0]
    /\ terminated = [w \in Workers |-> FALSE]
    /\ changed = [w \in FiberWorkers |-> FALSE]
    /\ stop = [w \in FiberWorkers |-> FALSE]
    /\ waker = [w \in FiberWorkers |-> "idle"]
    /\ main = "serving" /\ sent = 0 /\ aborted = FALSE /\ late = FALSE

Full(c) == Len(queue[c]) >= Size[c]
Send(c, m) == queue' = [queue EXCEPT ![c] = Append(@, m)]
\* Mutant: the message stays in the queue.
ReceivePeek(c) == queue' = queue
Receive(c) == queue' = [queue EXCEPT ![c] = Tail(@)]
Set(js, state) == job' = [j \in Jobs |-> IF j \in js THEN state ELSE job[j]]
Goto(w, label) == wpc' = [wpc EXCEPT ![w] = label]

-----------------------------------------------------------------------------
(* Requests: process_request *)

\* Connections are served; an aborted one may still finish its current poll.
Serving == main \in {"serving", "joining"} \/ (main = "sending" /\ aborted)

\* try_send, or for gRPC send().await.
Submit(j) ==
    /\ Serving /\ job[j] = "new"
    /\ \E c \in Channels : ~Full(c) /\ Send(c, j)
    /\ Set({j}, "queued")
    /\ UNCHANGED <<batch, got, fibers, wpc, terminated, wakers, control>>

\* try_send on a full channel: 503.
Reject(j) ==
    /\ Serving /\ job[j] = "new" /\ j \notin GrpcJobs
    /\ \E c \in Channels : Full(c)
    /\ Set({j}, "unavailable")
    /\ UNCHANGED <<queue, batch, got, fibers, wpc, terminated, wakers, control>>

-----------------------------------------------------------------------------
(* accept_loop *)

\* recv_blocking: a request, or the Shutdown that ends the loop.
RecvBlocking(w) ==
    /\ wpc[w] = "recv" /\ queue[Chan(w)] # <<>>
    /\ Receive(Chan(w))
    /\ LET m == Head(queue[Chan(w)]) IN
       \/ m = Shutdown /\ Goto(w, "dead") /\ UNCHANGED batch
       \/ m # Shutdown /\ Goto(w, "process") /\ batch' = [batch EXCEPT ![w] = <<m>>]
    /\ UNCHANGED <<job, got, fibers, terminated, wakers, control>>

\* process_one starts: refused with 503 once the worker is terminated.
ProcessOne(w) ==
    /\ wpc[w] = "process"
    /\ Set({Head(batch[w])}, IF terminated[w] THEN "unavailable" ELSE "running")
    /\ Goto(w, IF terminated[w] THEN "drain" ELSE "app")
    /\ batch' = IF terminated[w] THEN [batch EXCEPT ![w] = <<>>] ELSE batch
    /\ UNCHANGED <<queue, got, fibers, terminated, wakers, control>>

\* The app answers.
AppReturns(w) ==
    /\ wpc[w] = "app"
    /\ Set({Head(batch[w])}, "answered")
    /\ batch' = [batch EXCEPT ![w] = <<>>]
    /\ Goto(w, "drain")
    /\ UNCHANGED <<queue, got, fibers, terminated, wakers, control>>

\* while let Ok(..) = try_recv()
DrainNext(w) ==
    /\ wpc[w] = "drain" /\ queue[Chan(w)] # <<>>
    /\ Receive(Chan(w))
    /\ LET m == Head(queue[Chan(w)]) IN
       \/ /\ m = Shutdown
          /\ terminated' = [terminated EXCEPT ![w] = TRUE]
          /\ Goto(w, "check") /\ UNCHANGED batch
       \/ /\ m # Shutdown
          /\ batch' = [batch EXCEPT ![w] = <<m>>]
          /\ Goto(w, "process") /\ UNCHANGED terminated
    /\ UNCHANGED <<job, got, fibers, wakers, control>>

DrainEmpty(w) ==
    /\ wpc[w] = "drain" /\ queue[Chan(w)] = <<>>
    /\ Goto(w, "check")
    /\ UNCHANGED <<work, terminated, wakers, control>>

CheckTerminated(w) ==
    /\ wpc[w] = "check"
    /\ Goto(w, IF terminated[w] THEN "dead" ELSE "recv")
    /\ UNCHANGED <<work, terminated, wakers, control>>

ThreadStep(w) ==
    \/ RecvBlocking(w) \/ ProcessOne(w) \/ AppReturns(w)
    \/ DrainNext(w) \/ DrainEmpty(w) \/ CheckTerminated(w)

-----------------------------------------------------------------------------
(* The scheduler proc of a fiber worker *)

\* Mutant: the signal is lost.
SignalLost(w, value) == UNCHANGED <<changed, stop>>

\* waker_sender.send
Signal(w, value) ==
    /\ changed' = [changed EXCEPT ![w] = TRUE]
    /\ stop' = [stop EXCEPT ![w] = value]

\* leader.take(): a Shutdown there ends the loop at once.
TakeLeader(w) ==
    /\ wpc[w] = "take"
    /\ leader' = [leader EXCEPT ![w] = NoJob]
    /\ \/ /\ leader[w] = Shutdown
          /\ Signal(w, TRUE) /\ Goto(w, "draining") /\ UNCHANGED batch
       \/ /\ leader[w] # Shutdown
          /\ batch' = [batch EXCEPT ![w] = IF leader[w] = NoJob THEN <<>> ELSE <<leader[w]>>]
          /\ Goto(w, "fill") /\ UNCHANGED <<changed, stop>>
    /\ got' = [got EXCEPT ![w] = 0]
    /\ UNCHANGED <<queue, job, fibers, terminated, permits, waker, control>>

\* try_recv, up to MAX_BATCH_SIZE times and until a Shutdown.
FillBatch(w) ==
    /\ wpc[w] = "fill"
    /\ queue[Chan(w)] # <<>> /\ got[w] < MaxBatch
    /\ got' = [got EXCEPT ![w] = @ + 1]
    /\ Receive(Chan(w))
    /\ batch' = [batch EXCEPT ![w] = Append(@, Head(queue[Chan(w)]))]
    /\ Goto(w, IF Head(queue[Chan(w)]) = Shutdown THEN "schedule" ELSE "fill")
    /\ UNCHANGED <<job, fibers, terminated, wakers, control>>

BatchFilled(w) ==
    /\ wpc[w] = "fill"
    /\ queue[Chan(w)] = <<>> \/ got[w] >= MaxBatch
    /\ Goto(w, "schedule")
    /\ UNCHANGED <<work, terminated, wakers, control>>

\* Each request of the batch gets a fiber; then Shutdown or terminated end
\* the loop, with the signal to the waker.
ScheduleBatch(w) ==
    /\ wpc[w] = "schedule"
    /\ Set(Range(batch[w]), "running")
    /\ fibers' = [fibers EXCEPT ![w] = @ \cup (Range(batch[w]) \ {Shutdown})]
    /\ batch' = [batch EXCEPT ![w] = <<>>]
    /\ IF Shutdown \in Range(batch[w]) \/ terminated[w]
       THEN Signal(w, TRUE) /\ Goto(w, "draining")
       ELSE Goto(w, "check") /\ UNCHANGED <<changed, stop>>
    /\ UNCHANGED <<queue, got, terminated, leader, permits, waker, control>>

\* receiver.is_empty(): block after telling the waker, or yield.
CheckEmpty(w) ==
    /\ wpc[w] = "check"
    /\ Goto(w, IF queue[Chan(w)] = <<>> THEN "signal" ELSE "yielded")
    /\ UNCHANGED <<work, terminated, wakers, control>>

SignalWaker(w) ==
    /\ wpc[w] = "signal"
    /\ Signal(w, FALSE)
    /\ Goto(w, "blocked")
    /\ UNCHANGED <<work, terminated, leader, permits, waker, control>>

\* Mutant: block may return by itself.
UnblockedAnyway(w) == TRUE
Unblocked(w) == permits[w] > 0

\* The scheduler resumes the fiber: after an unblock, or out of yield.
Resume(w) ==
    /\ \/ wpc[w] = "blocked" /\ Unblocked(w) /\ permits' = [permits EXCEPT ![w] = @ - 1]
       \/ wpc[w] = "yielded" /\ UNCHANGED permits
    /\ Goto(w, "take")
    /\ UNCHANGED <<work, terminated, leader, changed, stop, waker, control>>

\* A request's fiber answers on being scheduled or while the scheduler
\* fiber is suspended.
FiberAnswers(w) ==
    /\ wpc[w] \in {"check", "blocked", "yielded", "draining"}
    /\ \E j \in fibers[w] : /\ Set({j}, "answered")
                            /\ fibers' = [fibers EXCEPT ![w] = @ \ {j}]
    /\ UNCHANGED <<queue, batch, got, wpc, terminated, wakers, control>>

\* Mutant: the scheduler is closed over its fibers.
SchedulerIdleAnyway(w) == TRUE
SchedulerIdle(w) == fibers[w] = {}

\* The proc has returned; the thread ends when its scheduler has no work.
SchedulerExits(w) ==
    /\ wpc[w] = "draining" /\ SchedulerIdle(w)
    /\ Goto(w, "dead")
    /\ UNCHANGED <<work, terminated, wakers, control>>

FiberStep(w) ==
    \/ TakeLeader(w) \/ FillBatch(w) \/ BatchFilled(w) \/ ScheduleBatch(w)
    \/ CheckEmpty(w) \/ SignalWaker(w) \/ Resume(w) \/ SchedulerExits(w)

-----------------------------------------------------------------------------
(* start_waker_thread *)

\* changed().await at the top of the loop, and in select!.
WakerSeesChange(w) ==
    /\ waker[w] \in {"idle", "armed"} /\ changed[w]
    /\ changed' = [changed EXCEPT ![w] = FALSE]
    /\ waker' = [waker EXCEPT ![w] =
         IF stop[w] THEN "ended" ELSE IF @ = "idle" THEN "armed" ELSE "idle"]
    /\ UNCHANGED <<work, wpc, terminated, leader, permits, stop, control>>

\* receiver.recv() in select!: the message becomes the leader.
WakerReceives(w) ==
    /\ waker[w] = "armed" /\ queue[Chan(w)] # <<>>
    /\ Receive(Chan(w))
    /\ leader' = [leader EXCEPT ![w] = Head(queue[Chan(w)])]
    /\ waker' = [waker EXCEPT ![w] = "unblock"]
    /\ UNCHANGED <<job, batch, got, fibers, wpc, terminated, permits, changed, stop, control>>

WakerUnblocks(w) ==
    /\ waker[w] = "unblock"
    /\ permits' = [permits EXCEPT ![w] = @ + 1]
    /\ waker' = [waker EXCEPT ![w] = "idle"]
    /\ UNCHANGED <<work, wpc, terminated, leader, changed, stop, control>>

WakerStep(w) == WakerSeesChange(w) \/ WakerReceives(w) \/ WakerUnblocks(w)

-----------------------------------------------------------------------------
(* SingleMode::run, from the Shutdown event on *)

\* The accept loops end.
StopAccepting ==
    /\ main = "serving" /\ main' = "joining"
    /\ UNCHANGED <<work, wpc, terminated, wakers, sent, aborted, late>>

\* Acceptor::join: the connections are done, or the timeout aborts them.
Join ==
    /\ main = "joining" /\ main' = "sending"
    /\ aborted' \in BOOLEAN
    /\ UNCHANGED <<work, wpc, terminated, wakers, sent, late>>

\* Mutants: a Shutdown too few; one per sender for each worker of each pool.
ShutdownsFew == Cardinality(Workers) - 1
ShutdownsMany == 4 * Cardinality(Workers)
Shutdowns == 2 * Cardinality(Workers)

\* One Shutdown per worker through each sender; send_blocking waits for room.
SendShutdown ==
    /\ main = "sending" /\ sent < Shutdowns
    /\ LET c == IF sent % 2 = 0 THEN "blocking" ELSE NonblockingSender IN
       ~Full(c) /\ Send(c, Shutdown)
    /\ sent' = sent + 1
    /\ UNCHANGED <<job, batch, got, fibers, wpc, terminated, wakers, main, aborted, late>>

AllSent ==
    /\ main = "sending" /\ sent = Shutdowns
    /\ main' = "polling"
    /\ UNCHANGED <<work, wpc, terminated, wakers, sent, aborted, late>>

DeadlinePasses ==
    /\ main = "polling" /\ ~late /\ late' = TRUE
    /\ UNCHANGED <<work, wpc, terminated, wakers, main, sent, aborted>>

\* Mutant: the deadline is not looked at.
PastDeadlineIgnored == main = "polling"
PastDeadline == main = "polling" /\ late

\* poll_shutdown past the deadline: mark the worker, kill its thread.
PollShutdown(w) ==
    /\ PastDeadline /\ wpc[w] # "dead" /\ ~terminated[w]
    /\ terminated' = [terminated EXCEPT ![w] = TRUE]
    /\ UNCHANGED <<work, wpc, wakers, control>>

Held(w) == Range(batch[w]) \cup (IF w \in FiberWorkers THEN fibers[w] ELSE {})

\* The kill takes effect: what the thread holds is dropped.
ThreadKilled(w) ==
    /\ PastDeadline /\ terminated[w] /\ wpc[w] # "dead"
    /\ Goto(w, "dead")
    /\ Set(Held(w), "dropped")
    /\ batch' = [batch EXCEPT ![w] = <<>>]
    /\ fibers' = [v \in FiberWorkers |-> IF v = w THEN {} ELSE fibers[v]]
    /\ UNCHANGED <<queue, got, terminated, wakers, control>>

AllStopped ==
    /\ main = "polling" /\ \A w \in Workers : wpc[w] = "dead"
    /\ main' = "done"
    /\ UNCHANGED <<work, wpc, terminated, wakers, sent, aborted, late>>

MainStep == SendShutdown \/ AllSent \/ DeadlinePasses \/ AllStopped

-----------------------------------------------------------------------------
Next ==
    \/ \E j \in Jobs : Submit(j) \/ Reject(j)
    \/ \E w \in ThreadWorkers : ThreadStep(w)
    \/ \E w \in FiberWorkers : FiberStep(w) \/ FiberAnswers(w) \/ WakerStep(w)
    \/ StopAccepting \/ Join \/ MainStep
    \/ \E w \in Workers : PollShutdown(w) \/ ThreadKilled(w)

Spec == Init /\ [][Next]_vars

\* Every thread of the process is scheduled, apps answer, and the acceptors'
\* join is bounded by shutdown_timeout.
Fairness ==
    /\ \A w \in ThreadWorkers : WF_vars(ThreadStep(w))
    /\ \A w \in FiberWorkers : WF_vars(FiberStep(w)) /\ WF_vars(FiberAnswers(w))
                              /\ WF_vars(WakerStep(w))
    /\ WF_vars(Join) /\ WF_vars(MainStep)
    /\ \A w \in Workers : WF_vars(PollShutdown(w)) /\ WF_vars(ThreadKilled(w))

FairSpec == Spec /\ Fairness

-----------------------------------------------------------------------------
(* Properties *)

Message == Jobs \cup {Shutdown}

\* The type invariant.
TypeOK ==
    /\ queue \in [Channels -> Seq(Message)]
    /\ job \in [Jobs -> {"new", "queued", "running", "answered", "unavailable", "dropped"}]
    /\ wpc \in [Workers -> {"recv", "process", "app", "drain", "check", "take", "fill",
                            "schedule", "signal", "blocked", "yielded", "draining", "dead"}]
    /\ batch \in [Workers -> Seq(Message)]
    /\ got \in [FiberWorkers -> Nat] /\ fibers \in [FiberWorkers -> SUBSET Jobs]
    /\ leader \in [FiberWorkers -> Message \cup {NoJob}]
    /\ permits \in [FiberWorkers -> Nat]
    /\ terminated \in [Workers -> BOOLEAN]
    /\ changed \in [FiberWorkers -> BOOLEAN] /\ stop \in [FiberWorkers -> BOOLEAN]
    /\ waker \in [FiberWorkers -> {"idle", "armed", "unblock", "ended"}]
    /\ main \in {"serving", "joining", "sending", "polling", "done"}
    /\ sent \in Nat /\ aborted \in BOOLEAN /\ late \in BOOLEAN

\* No message is taken over the head of another: the waker receives only while
\* its fiber is blocked with no leader and no unblock on its way.
Handshake ==
    \A w \in FiberWorkers : wpc[w] # "dead" =>
        /\ waker[w] \in {"armed", "unblock"} => wpc[w] = "blocked" /\ permits[w] = 0
        /\ changed[w] /\ ~stop[w] =>
             wpc[w] = "blocked" /\ permits[w] = 0 /\ waker[w] = "idle"
        /\ leader[w] # NoJob =>
             \/ wpc[w] = "blocked" /\ (waker[w] = "unblock" \/ permits[w] = 1)
             \/ wpc[w] = "take"
        /\ permits[w] > 0 => permits[w] = 1 /\ wpc[w] = "blocked" /\ waker[w] = "idle"

\* Where a request is held before its app runs.
Places(j) ==
    (UNION {{<<c, i>> : i \in {k \in DOMAIN queue[c] : queue[c][k] = j}} : c \in Channels})
    \cup {<<"leader", w>> : w \in {v \in FiberWorkers : leader[v] = j}}
    \cup {<<"batch", w>> : w \in {v \in Workers : wpc[v] # "app" /\ j \in Range(batch[v])}}

\* Requests are neither lost nor handed to two workers: one that was accepted
\* and not yet started is held in exactly one place, any other in none.
JobInOnePlace ==
    \A j \in Jobs : Cardinality(Places(j)) = IF job[j] = "queued" THEN 1 ELSE 0

\* A worker needs no further Shutdown once it stops, or has one coming.
Stopping(w) ==
    \/ wpc[w] \in {"draining", "dead"} \/ terminated[w]
    \/ Shutdown \in Range(batch[w])
    \/ w \in FiberWorkers /\ leader[w] = Shutdown

\* The Shutdowns left in each channel suffice for the workers that still need
\* one, so no worker waits in recv for ever.
EnoughShutdowns ==
    main \in {"polling", "done"} => \A c \in Channels :
        Cardinality({w \in Workers : Chan(w) = c /\ ~Stopping(w)})
            <= Cardinality({i \in DOMAIN queue[c] : queue[c][i] = Shutdown})

\* A shutdown that needed no force has answered every request it accepted.
GracefulDrain ==
    main = "done" /\ ~late /\ ~aborted =>
        \A j \in Jobs : job[j] \notin {"queued", "running", "dropped"}

\* A request is refused only for lack of room or after the deadline.
RefusedOnlyLate ==
    [][\A j \in Jobs : job[j] = "queued" /\ job'[j] \in {"unavailable", "dropped"} => late]_vars

\* An accepted request is started and answered, whichever worker or waker
\* takes it, unless one of the shutdown deadlines passes first.
JobServed ==
    \A j \in Jobs : job[j] = "queued" ~> job[j] \notin {"queued", "running"} \/ aborted \/ late

\* "Graceful timeout period before forcing workers to shutdown": once the
\* accept loops have ended, the process stops its workers and is done.
ShutdownCompletes == main = "joining" ~> main = "done"
=============================================================================
