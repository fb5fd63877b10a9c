# A TLA+ verification of Itsi

Itsi is a Ruby web server with a core in Rust, and a Ruby fiber scheduler. This
directory holds TLA+ models of its concurrent parts, TLC configurations that
check them on small instances, and TLAPS proofs for all values of the constants.

## The parts of the system

| Part | Source | Model |
|---|---|---|
| Fiber scheduler: `block`, `unblock`, `io_wait`, `tick` and the mio reactor | `gems/scheduler`, `crates/itsi_scheduler` | `Scheduler` |
| Worker threads, their channels and wakers, and how a process stops them | `server/thread_worker.rs`, `serve_strategy/single_mode.rs` | `WorkerPool` |
| Cluster master, worker processes | `serve_strategy/cluster_mode.rs`, `process_worker.rs` | `Cluster` |
| Signal handler and lifecycle events | `server/signal.rs` | `Cluster` |
| Reload and re-exec | `ruby_types/itsi_server/itsi_server_config.rs` | outcomes only, in `Cluster` |
| Request service, middleware stack, request timeout | `services/itsi_http_service.rs`, `middleware_stack` | `HttpExchange` |
| Response object, frame stream, buffered stream, hijacking | `ruby_types/itsi_http_response.rs`, `server/frame_stream.rs` | `HttpExchange`, implements `ByteStream` |
| gRPC calls | `ruby_types/itsi_grpc_*`, `itsi_grpc_response_stream` | `GrpcStream`, implements `ByteStream` |
| ACME orders and the locked certificate cache | `crates/itsi_acme`, `binds/tls/locked_dir_cache.rs` | `AcmeState` |
| Static files | `services/static_file_server.rs` | `StaticFiles` |
| Request body, rate limiter, listeners, file watcher, other middlewares, configuration, bindings | various | not modelled |

They meet as follows. The master forks worker processes and watches them through
SIGCHLD. Each worker process accepts connections and queues requests in bounded
channels; Ruby threads take them, either one at a time or, with a fiber
scheduler, in batches that run on fibers. A fiber worker sleeps in the
scheduler's `block` and a waker thread calls `unblock`. A SIGTERM runs down the
same chain: master, process, threads, fibers. `WorkerPool` uses of `Scheduler`
only what `UnblockDelivered` and `WakeJustified` promise: a blocked fiber goes on
when, and only when, it was unblocked. `Cluster` uses of a worker process only
that it ends some time after SIGTERM, or is killed. `HttpExchange` and
`GrpcStream` follow one request on both sides of the hand-over that `WorkerPool`
models for many: they use of it that a queued request is taken by one worker, or
refused. `HttpExchange` sees the shutdown as the phase that the main task of
`WorkerPool` announces. Static files are served by a layer of `HttpExchange`'s
middleware stack, and `AcmeState` runs in every worker process, beside all this.

`PROJECT.json` lists every component, the main hazards and the source lines.

## Scheduler

State: the reactor's timer heap, waiter table and per-fd queues; the poller's
registrations and pending edges (epoll, edge-triggered, so Linux); the token
tables and the two unblock batches of the Ruby half; the position and locals of
`tick`; for each fiber its state and the wait it is in. `tick` takes one step per
element it handles. A fiber runs until it blocks, yields or ends. Other threads
append to the unblock batch and wake the poller in two steps.

| Run | Question |
|---|---|
| `sched_io` | Fibers of mixed interests share an fd, with and without timeouts: do queues, waiter table and poller agree until a wait times out, is no waiter or deadline forgotten, does the reactor raise, and do all readers get their event? |
| `sched_live` | block, sleep, yield and unblock, among fibers the program makes and suspends itself: are the tables consistent, is each resumption justified, is every unblock and every timeout delivered? |

Two fibers and one fd are enough for two waiters in one queue, and three tokens
for a stale token of an earlier wait. Fairness: the scheduler thread, running
fibers and threads inside `unblock` go on, poll returns when it has something to
report, and the clock advances.

Three behaviours of the code were met with the same model but have no run of
their own. With a reader and a writer on one fd only the head of the queue is
registered, so a writer behind a waiting reader is not polled for, and
`EventDelivered` holds for readers only. When a waiter that is not at the front
times out, `fetch_due_timers` pops the front of the queue, and a later event or
timer of that fd may raise. The history variable `timed_out` holds the fds on
which a wait has timed out; `RegistryAgrees`, `ReactorSound` and `EventDelivered`
except those fds and say that no other fd is touched. And the helper thread of
`run_blocking_in_thread` unblocks the fiber before it drops its reference to the
result, so the fiber's `Arc::try_unwrap` may find it shared.

An exception of a fiber is a step of the model (`Raise`). `resume_fiber` rescues a
`StandardError`; any other exception, and every exception of a fiber that
`resume_blocked` resumes directly, ends `tick` and `run`. No property says that
`tick` never ends this way, because the application can always raise one;
`ReactorSound` says where the scheduler's own code can.

## WorkerPool

State: each channel's messages, each request's fate, each worker's place in its
loop, the handshake between a fiber worker and its waker (watch channel, leader
slot, unblock permits), and the phases of `SingleMode::run`.

| Run | Question |
|---|---|
| `pool_fibers` | Two fiber workers and their wakers on one channel: is a request ever lost or taken twice, and does the waker ever take a message for a fiber that is not waiting? |
| `pool_live` | A thread worker and a fiber worker with a channel each: is every request served, is one refused or dropped by a graceful shutdown, and does shutdown end? |
| `viol_shutdown` | With a backlog smaller than the surplus of Shutdown messages it does not: see the findings. |

`Handshake` says that the waker takes a message only while its fiber is blocked
with nothing on the way to it. Abstractions: applications answer (fairness of
`FiberAnswers` and the thread steps), the waker starts after its worker's first
block, an aborted connection may finish its current poll, and the monitor thread
is left out. Fairness is weak fairness of each thread and of the main task.

## Cluster

State: the signal counter and the shutdown flag, the broadcast channel of events,
the list of workers, each worker's `child_pid`, the threads that run `boot`
(read, clear, fork, store), the child processes, and the place of the event loop.
The loop handles an event to its end before it takes the next one, so a handler
that awaits a child is several steps, between which signals, deaths and boot
threads go on but no other event is taken. Pids are never reused. A timeout may
expire at any time. A signal handler is one step. `check_config` and exec may
fail. Worker objects are numbered as they are created, so the code's lists, which
grow at the end, are sets here, and the last of a list is the greatest number.

| Run | Question |
|---|---|
| `cluster_safe` | Two operator signals of any kind, a crash, a memory reboot, failing forks: is a child lost, does one outlive a shutdown, is a shutdown forced before the signal counter has wrapped, does the loop end unasked? |
| `cluster_live` | Is a dead child replaced, and does SIGINT end the master? The signal counter is fresh or has wrapped (`Earlier` = {0, 130}). |
| `viol_force` | After 130 other signals the first SIGINT forces the shutdown: see the findings. |

`NoLostChild`, `GoneAtExit` and `DeadReplaced` leave out one situation, recorded
in `raced`: a worker is stopped, or booted again, while one of its boot threads
is still at work. Then the code can leave a child that no worker knows of.
`cluster_safe` does not explore further once that has happened (constraint
`NoRace`).

A fork that fails is reported to `boot` as None (`itsi_rb_helpers`, `fork`), which
`boot` takes for being the child: the boot thread turns into a worker inside the
master. The model keeps such threads in `serving` (`BootForkFails`). The worker
has no pid, so nobody watches it. A `reboot` that awaits it never goes on
(`Hung`). When it comes to its end it exits or re-executes, and the master with
it (`ServeEnds`, `aborted`). `DeadReplaced` and `StopHonoured` except these three
outcomes; the safety properties hold with them. What the worker does to the
master's own event channel before its exit (it unsubscribes from it, and may send
an event) is left out, and so is a fork that fails at the start of the master.

Bounds: two workers, three worker objects, four processes, a channel of three
events, small enough to overflow (the code asks tokio for five), and in
`cluster_live` eight. In `cluster_live` a child does not die before its pid is
stored (`EarlyDeath`): with such a death the SIGCHLD finds no pid and the worker
stays dead until another signal comes. Nor does exec fail there; `cluster_safe`
has both. SIGTTIN is left out of `cluster_live`, because it hangs the loop. A
SIGINT that comes while a restart is under way is not carried over to the new
program: `StopHonoured` counts the re-exec as an answer. `cluster_live` has no
memory reboot, which is the only boot that the loop awaits, so `Hung` is not
reached there; with one (`MaxReboots` = 1) both properties hold as well, in 13
minutes. Fairness: pending signals are delivered, boot threads run, the loop takes
ready branches, and timeouts expire. Children need not obey SIGTERM.

When more signals arrive during one handler than the channel holds, `recv` fails
with `Lagged` and the loop ends with the workers left running. The model has this
step (`RecvLagged`); `ExitOnRequest` and `GoneAtExit` make an exception of it, so
they say nothing about what an overflow leaves behind.

The Ruby method `ItsiServer#stop` also sends a Shutdown event
(`itsi_server.rs:39`), without setting the flag of a requested shutdown. It is not
modelled; with it `ExitOnRequest` would have that call as a third reason.

`ForceShutdown` is fired with a wrapped counter only. A second SIGINT queues it
behind the Shutdown of the first, and the loop takes no event once it has begun to
shut down. Two things are outside the model: `started_at` is not refreshed when a
worker is booted again, so the guard against crash loops covers only the first
seconds of a worker object, and the signal handler takes a mutex that the
interrupted thread may hold.

## HttpExchange and ByteStream

`ByteStream` is what a streamed response body promises: the connection is given
a prefix of what the application wrote, in order, and a stream that was not cut
ends only after the application finished and everything was handed on. It has
four actions and knows nothing of channels.

`HttpExchange` is one request: the service task walking down the middleware stack
and back, the Ruby thread writing to the response object (buffered, streamed,
closed, hijacked or failing), the channel of frames, `FrameStream` and
`BufferedStream`, which hyper polls, the flush deadline, the request timeout, the
shutdown phase, a client that leaves or stops reading, and the garbage collector
that drops a response nobody closed. An after method, of the outermost layer too,
may replace the response, which drops its body. Hyper polls the body only while
it has room for more (`room`); every flush may use the room up, and `ClientReads`
gives it back. A frame is its number, or empty. The refinement mapping
takes `accepted` (what the channel or a full body took) for what was sent and
`wire` for what was received; a cut is a lost connection or a stream ended by
shutdown.

The run `http` checks the refinement (`StreamPromise`); that the afters mirror
the befores (`AfterMirrorsBefore`); that a frame arrives though the application
sends nothing more (`FrameDelivered`); that a thread in a full channel gets away
(`SenderReleased`); and that an idle stream ends at shutdown
(`StreamEndsAtShutdown`). Four frames through a channel of one and a buffer of
two make every queue of the pipeline full and empty in turn. Fairness: the
service task, hyper's polls, the flush deadline, a blocked send that has room and
the announcement of a requested shutdown. Nothing is assumed of the application,
the layers' befores or the garbage collector. `ClientReads` is not fair either:
the three liveness properties carry the assumption themselves, as `Drains` (again
and again there is room, or the body is no longer served). A response has no write
timeout, so a client that stays connected and reads nothing keeps its Ruby thread
blocked; without `Drains` TLC refutes `SenderReleased`.

Behaviour worth knowing, all of it in the model: an application that raises in
the middle of a stream ends it like one that finished; a frame sent after close
is dropped without an error; `is_ruby_request` stays set after the request. Only
HTTP/1 bodies are woken by the shutdown (`Http1`): the stream of an idle HTTP/2
response is polled again only when something else wakes it. If the application
closes a response to which it sent nothing (`close_write`,
`rack_interface.rb:26`), the request stays unanswered until the garbage collector
drops the response object.

## GrpcStream

One gRPC call with protobuf framing: the task that copies the request body into a
pipe, the handler, and the service task that takes the stream's mutex to build the
response and then forwards frames and trailers. The run `grpc` checks that the
response is a `ByteStream`, that every write comes back (`WriterReleased`), that a
finished call delivers its status (`StatusDelivered`) and that `each_remote_read`
yields no nil while the request can be read to its end (`NilOnlyAfterLoss`). The
properties carry exceptions that are what the code does. A handler that writes
more than a channel before the response is built keeps the mutex that
`build_response` waits for, and neither goes on. A request body larger than the
pipe makes the copying task panic, and the end of the runtime (`RuntimeStops`,
`single_mode.rs:389`) drops that task while the handler runs: both leave the
handler with a pipe that has ended and `cancelled` not set. An exception that is
not a `StandardError`, or the kill of the thread, passes the rescue clauses of
`grpc_call.rb` by (`Abort`) and the call is closed without a status. The instance
has a channel and a pipe of two, four frames and three messages, so that both
limits are passed. Fairness: the service task, which goes on only if a client that
stays connected reads, until the end of the runtime drops it; a blocked send with
room; and the library's part of the handler. The service method may do nothing for
ever. JSON streams are not modelled. A call refused at shutdown is closed without
a `grpc-status`, outside `StatusDelivered`.

## AcmeState

Each worker process runs the state machine of `poll_next_infinite`; the processes
share a directory through a lock file that `load_cert` keeps when it finds no
certificate and `store_cert` releases. File operations and orders may fail, a
process may die at any step (its lock is released, its file may be left truncated)
and start again. The run `acme` has two processes, one failing order, two failing
file operations and one crash: enough for the second process to find what a
failed store, a torn file or a dead owner of the lock leaves behind. It checks
`FirstOrderNeeded`, `SleepsUnlocked`, `AccountKept` and `EveryoneServed`.
Fairness: a process that can step does; the lock file is granted to a process
that asks again and again (strong fairness of `CacheStep`, since several wait for
it); and the CA grants some order of a process that keeps asking.

The exceptions in the properties are behaviours of the code. A failed store keeps
the lock until the renewal. A load error of the account key makes a new key that
overwrites the old one. A torn account file is never replaced: `EveryoneServed`
excepts a process that works with one, so for the account file no property covers
a crash in the middle of a write. A torn certificate is covered by
`EveryoneServed`; `FirstOrderNeeded` excepts the process that found it. Renewals
are ordered by every process on its own. A certificate that cannot be parsed is
ordered again at once. `lock_exclusive` blocks a thread of the async runtime while
another process has the lock, which the model does not show. The backoff is
abstracted to "armed", and a lock file that cannot be opened is not modelled.

## StaticFiles

The static file server resolves a key to a path through three tables shared by
all requests of a process (`key_to_path`, `cache`, `miss_cache`), with awaits on
the file system between its reads and writes. Each action of `StaticFiles` is one
stretch between two awaits, or the part of it under one lock where it uses two
tables (`Lookup` and `LookupEntry`, `Recheck` and `Unbind`, `BindListing` and
`Insert`); other actions write and remove files, let the recheck
interval of an entry pass, and evict entries. A file is the number of the change
that wrote it. A request keeps the entry it took before an await, and `shared`
says whether that is still the object in the cache, because `last_checked` is
updated in the object.

The run `static` checks `NeverAhead` (no cached file is dated after its content:
the recheck compares dates only, so such an entry would stay for ever) and
`EventuallyCurrent` (once the files stop changing, the answers show them, and no
request panics on a file that vanished). Two requests, a directory, its index
under two keys and its listing, two changes of which the last is too large for
the cache: a slow load, a recheck and an eviction can then all overlap. Fairness:
requests under way go on and time passes.

Not-found answers are outside `EventuallyCurrent`: a miss is remembered without
any recheck, so a file created later stays hidden until the miss is evicted. The
property also speaks of the path a key is bound to: a key that was resolved to its
`.html` file stays with it although a file of its own name appears. A request
whose file is removed between metadata and open panics (`unwrap`); the model has
it as an outcome, and `EventuallyCurrent` rules it out only once the files have
stopped changing.

## Findings

* `viol_shutdown`: two Shutdowns per worker are sent with a blocking send before
  the deadline is computed. With a backlog too small for the surplus the process
  hangs.
* `viol_force`: `signals.md:16` says of SIGINT "If received twice in quick
  succession, triggers a forceful shutdown." Every signal other than SIGINT and
  SIGTERM, SIGCHLD included, decrements an 8-bit counter that wraps. After 130 of
  them the first SIGINT is taken for a second one and the shutdown is forced:
  `ForceNeedsTwo` is violated. What the code does keep is `ForceOnlyWrapped`.

Observed with the same models, without a run of their own:

* SIGTTIN locks the worker list twice (`cluster_mode.rs:167` and `:66`), so the
  event loop hangs and no worker is added, where `signals.md` says that it
  "Increases the number of worker processes." `IncreaseWorkers` models it.

## What is proved

For every value of the constants that satisfies the named assumption of the
component's module (`SchedulerAssumption`, `PoolAssumption`, `ClusterAssumption`,
`HttpAssumption`, `GrpcAssumption`, `AcmeAssumption`, `ConstantsAssumption`):

| Theorem | Module | Statement |
|---|---|---|
| `TypeCorrect` | `SchedulerProofs` | The scheduler's type invariant. |
| `WaitBookkeepingCorrect` | `SchedulerProofs` | The tables of `block` agree, and no two waits share a token. |
| `WakeSourcesCorrect` | `SchedulerWaitProofs` | A timer, waiter or due token belongs to the wait it was issued for. |
| `WakeJustifiedCorrect` | `SchedulerWaitProofs` | A fiber leaves `block` only for a reason of its current wait. |
| `TimeoutArmedCorrect` | `SchedulerWaitProofs` | A wait with a timeout has its timer in the heap, or its token is due. |
| `WaiterKeptCorrect` | `SchedulerWaitProofs` | A fiber in `io_wait` has its waiter, or its token is due. |
| `ExitCleanCorrect` | `SchedulerWaitProofs` | `run` returns with no waiting fiber, timer or waiter left. |
| `RegistryCorrect` | `SchedulerWaitProofs` | On an fd without a timed-out wait, queue, waiters and poller agree. |
| `ReactorSoundCorrect` | `SchedulerWaitProofs` | Collecting events and timers raises only on an fd with a timed-out wait. |
| `HandshakeHolds` | `WorkerPoolProofs` | The waker takes a message only while its fiber waits with nothing on the way to it. |
| `JobInOnePlaceCorrect` | `WorkerPoolProofs` | A request that was accepted and not started is held in exactly one place. |
| `RefusedOnlyLateCorrect` | `WorkerPoolProofs` | A request is refused or dropped only after the deadline of a shutdown. |
| `GracefulDrainCorrect` | `WorkerPoolProofs` | A shutdown without force has answered everything that was accepted. |
| `EnoughShutdownsCorrect` | `WorkerPoolProofs` | The Shutdown messages left suffice for the workers that need one. |
| `TypeOKCorrect` | `ClusterProofs` | The types, and what each phase of the loop says of its lists of workers. |
| `NoLostChildCorrect` | `ClusterProofs` | A child is held by a worker the loop knows or by its boot thread. |
| `GoneAtExitCorrect` | `ClusterProofs` | After `shutdown()` every child is dead or killed. |
| `ExitOnRequestCorrect` | `ClusterProofs` | The loop ends only on request or on overflow. |
| `ForceOnlyWrappedCorrect` | `ClusterProofs` | A shutdown is forced only after two SIGINTs or SIGTERMs, or after 130 other signals. |
| `ResponseIsStream` | `HttpExchangeProofs` | `HttpExchange` implements `ByteStream`. |
| `AftersMirrorBefores` | `HttpExchangeProofs` | The after methods run in the opposite order of the before methods. |
| `GrpcResponseIsStream` | `GrpcStreamProofs` | `GrpcStream` implements `ByteStream`. |
| `NoNil` | `GrpcStreamProofs` | `each_remote_read` yields no nil unless the copying task panicked or was dropped. |
| `FirstOrder` | `AcmeStateProofs` | A first certificate is ordered only under the lock and with none in the cache. |
| `NoLockedSleep` | `AcmeStateProofs` | Nobody sleeps until its renewal with the lock, unless its store failed. |
| `AccountSurvives` | `AcmeStateProofs` | A stored account key is never replaced, unless a load failed. |
| `CacheNeverAhead` | `StaticFilesProofs` | No cached file is dated after its content. |

The arguments.

*Scheduler.* The inductive invariant is `WaitInv`: types, `WaitBookkeeping` and
`WakeSources`. `WakeSources` alone is not inductive: that a stale token finds
nobody rests on tokens being below the counter and unshared, which is
`WaitBookkeeping`, and that rests on the types. `WakeJustified` follows step by
step: only three steps of `tick` resume a waiting fiber (`StepKinds`), and for
each the invariant names the reason. For `TimeoutArmed` and `WaiterKept` the
invariant shows that a timer or waiter is taken away only when its token becomes
due or its wait is over. `ExitClean` needs that `CheckWork` alone ends `run` and
that nothing starts afterwards (`AtExit`). `RegistryInv` adds to `RegistryAgrees`
that tokens identify waiters on every fd, and that on an fd without a timed-out
wait a queue holds no waiter twice and the events still to be handled are those of
heads of queues. `ReactorSound` follows from it step by step.

*WorkerPool.* `Handshake` becomes inductive with the fact that the waker is
stopped only after the worker's last turn (`StopsLast`). `PoolInv` adds the
types, where each worker can be (`WorkerLabels`), when it has a batch
(`BatchShape`), that before the deadline only a Shutdown terminates a worker
(`TerminatedLate`), that a waker never overwrites a leader (`LeaderFree`), and
that each request is held once (`Placed`): in one channel, one leader slot or one
batch. `GracefulDrain` needs three more facts: no running request is forgotten
(`Accounted`), a worker that ended in time left nothing with its waker (`Quiet`),
and the Shutdowns stand behind every request in their channel, so that a worker
that took one has left only Shutdowns (`Drained`). `EnoughShutdowns` is a count
(`Supply`): for each channel, the Shutdowns in it plus its workers are at least
those sent to it plus the workers that may still take one.

*Cluster.* Two facts hold in every state: the types, and what the phases of the
loop say of its lists of workers (`Phases`). The rest is about runs in which
nothing raced: `RaceInv` says `raced = {} => Calm`, where `Calm` is four
statements that need each other. `Threads`: no two boot threads work on one
worker, a thread that will fork works on a worker without a living child, and
none is left once a shutdown has begun. `Draining`: the workers that shutdown()
has ticked off are not alive. `Reached` and `Gone` are the two properties without
their exception. A step that adds to `raced` needs no argument, and all other
steps find the boot threads where `Threads` says. `ExitOnRequest` needs that a
shutdown event in the channel means that a shutdown was asked for (`ReqInv`). For
`ForceOnlyWrapped` the counter is shown to be the number of SIGINTs and SIGTERMs
less that of the other signals, wrapped to eight bits (`CountInv`); after at most
one SIGINT that is 2 or more only if 130 others came.

*HttpExchange.* `Pipeline` says that what was accepted is what is on the wire
followed by the buffer and the channel; it needs to know who owns the response at
each moment (`Ownership`). With it each action maps to a step of `ByteStream` or
to none. For the middleware stack, `Mirror` gives the two histories element by
element and ties their lengths to `pos`.

*GrpcStream.* The flag that ends the handler's loop is set before the end of the
pipe can be seen, unless the copying task was lost (`FlagFirst`). For the
refinement, `Ordered` says that the first frame and the channel are data frames
followed by end marks only, and that the data are what was accepted and not
delivered. That no data follows an end mark is a fact about the handler
(`Writers`); which part of the response exists when is `Built`.

*AcmeState.* Who may hold the lock in which state, and which key each process has
in hand.

*StaticFiles.* A date that was read is not newer than the file while the file is
there, nor than the last change, which covers a file removed and written again
between the two reads (`Loading`).

Model-checked only: the liveness properties, which are outside the prover's
reach (`ENABLED` and fairness). Every safety invariant, action property and
refinement that a passing run checks is also proved, without further assumptions.
The theorems about `Cluster` cover the states that `cluster_safe` cuts off with
`NoRace`. The type invariants `TypeOK` of `HttpExchange`, `GrpcStream`,
`AcmeState` and `StaticFiles` are proved only in the parts that the theorems
need; TLC found them to hold on the instances of the runs.

Every property checked by a passing run has a mutant: a definition next to the
one it changes, marked "Mutant", that breaks the property the way a slip in the
code would.

## Not modelled

* The request body proxy and the size limit: one reader and a buffer; sequential.
* The rate limiter: limiters are created one after the other at initialisation,
  the in-memory window is under one lock, and the Redis one leaves atomicity to
  Redis.
* Listeners, TLS set-up and the handover of sockets at a re-exec: state of the
  operating system.
* The file watcher: a debounce in real time around external commands.
* Header, authentication and content middlewares: functions of one message.
* In the static file server: ranges, conditional requests, compressed variants
  and the text of listings. A variant is never compared again after its entry was
  made, and `stream_file_range` treats the exclusive end it is given as inclusive.
* The start of `SingleMode` (a stop before the runtime exists), its accept loop
  after `Lagged`, and the pending queue of signals before the loop subscribes.
* Configuration, the Ruby adapters, bindings, errors and tracing, tables, and the
  benchmark dashboard under `docs`.
