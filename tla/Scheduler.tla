------------------------------ MODULE Scheduler ------------------------------
(***************************************************************************)
(* The fiber scheduler: the Ruby half (gems/scheduler/lib/itsi/            *)
(* scheduler.rb) and the reactor under it (crates/itsi_scheduler/src/      *)
(* itsi_scheduler.rs).  One scheduler thread runs the root fiber, which    *)
(* runs tick, and the fibers that tick resumes; other threads only call    *)
(* unblock.  Tick is one step per element it handles, and a fiber runs     *)
(* until it blocks, yields or ends.                                        *)
(***************************************************************************)
EXTENDS Integers, Sequences, Functions

CONSTANTS
    Fibers,           \* fibers that the program may create
    Fds,              \* file descriptors
    Threads,          \* other Ruby threads, and the threads run_blocking_in_thread starts
    IoEvents,         \* the event masks passed to io_wait, each a set of flags
    Timeouts,         \* the timeouts passed to block and kernel_sleep
    IoTimeouts,       \* the timeouts passed to io_wait
    NoTimeout,        \* a nil timeout
    NoFiber,          \* the root fiber, where it stands for no scheduled fiber
    NoThread,
    UserFibers,       \* TRUE: the program also creates fibers with Fiber.new and calls Fiber.yield
    MaxToken,         \* bound on the resume tokens issued
    MaxTime,          \* bound on the clock
    MaxUnblocks       \* bound on the calls of unblock

Flags == {"readable", "priority", "writable"}

ASSUME SchedulerAssumption ==
    /\ IoEvents \subseteq (SUBSET Flags) \ {{}}
    /\ NoTimeout \notin Nat
    /\ Timeouts \subseteq Nat \cup {NoTimeout}
    /\ IoTimeouts \subseteq Nat \cup {NoTimeout}
    /\ NoFiber \notin Fibers
    /\ NoThread \notin Threads
    /\ UserFibers \in BOOLEAN
    /\ MaxToken \in Nat /\ MaxTime \in Nat /\ MaxUnblocks \in Nat

VARIABLES
    \* reactor: ItsiScheduler
    timers, io_waiters, registry,
    polled,          \* the poll registration of each fd: the waiter it was made for
    edges,           \* fds with an event that poll has not reported (epoll, edge-triggered)
    woken,           \* the waker's pending wake
    \* Itsi::Scheduler
    resume_token, join_waiters, token_map, resume_tokens, unblocked, unblock_idx,
    \* tick: where it is, and its local variables
    pc, events, due_events, due_timers, pos,
    unrescued,       \* the fiber entered last was resumed outside resume_fiber's rescue
    timed_out,       \* history: the fds on which an io_wait has timed out
    \* fibers: state, the block each is suspended in, who resumed it, which one runs
    fiber, frame, parent, current,
    \* environment: clock, readiness of the fds, other threads
    now, fd_ready, thread, job, unblocks

reactor == <<timers, io_waiters, registry, polled, edges>>
tables  == <<join_waiters, token_map, resume_tokens>>
batches == <<unblocked, unblock_idx>>
locals  == <<events, due_events, due_timers, pos, unrescued, timed_out>>
fibers  == <<fiber, frame, parent, current>>
env     == <<now, fd_ready, thread, job, unblocks>>
vars    == <<reactor, woken, resume_token, tables, batches, pc, locals, fibers, env>>

-----------------------------------------------------------------------------
(* Data *)

\* WAKE_TOKEN: Token(0) is the waker's, fibers' tokens start at 1.
NoToken == 0

Waiter  == [fd : Fds, readiness : SUBSET Flags, token : Nat]
Timer   == [at : Nat, token : Nat]
Until   == Nat \cup {NoTimeout}
Frame   == [token : Nat, io : BOOLEAN, until : Until, thread : Threads \cup {NoThread}]
NoWaiter == [fd |-> NoFiber, readiness |-> {}, token |-> NoToken]
NoFrame == [token |-> NoToken, io |-> FALSE, until |-> NoTimeout, thread |-> NoThread]

\* io_helpers.rs, build_interest: the flags poll can register for.
build_interest(mask) == mask \ {"priority"}

\* BinaryHeap::peek with Timer's Ord: the earliest timer, ties by token.
IsHead(t) ==
    /\ t \in timers
    /\ \A u \in timers : t.at < u.at \/ (t.at = u.at /\ t.token <= u.token)

has_pending_io == timers # {} \/ io_waiters # {}

\* Mutant: work? without @join_waiters.
WorkNoWaiters == unblocked[unblock_idx] # <<>> \/ has_pending_io

\* work?
Work ==
    \/ unblocked[unblock_idx] # <<>>
    \/ join_waiters # {}
    \/ has_pending_io

\* The registered fds that poll reports: edge-triggered, and still ready for
\* something they are registered for.
ReadyFds ==
    {fd \in edges : polled[fd] # NoWaiter
                  /\ build_interest(polled[fd].readiness) \cap fd_ready[fd] # {}}

-----------------------------------------------------------------------------
Init ==
    /\ timers = {} /\ io_waiters = {} /\ woken = FALSE
    /\ registry = [fd \in Fds |-> <<>>]
    /\ polled = [fd \in Fds |-> NoWaiter]
    /\ edges = {}
    /\ resume_token = 0
    /\ join_waiters = {} /\ resume_tokens = {}
    /\ token_map = [f \in Fibers |-> NoToken]
    /\ unblocked = [i \in {0, 1} |-> <<>>]
    /\ unblock_idx = 0
    /\ pc = "main"
    /\ events = {} /\ due_events = <<>> /\ due_timers = <<>> /\ pos = 1
    /\ unrescued = FALSE /\ timed_out = {}
    /\ fiber = [f \in Fibers |-> "new"]
    /\ frame = [f \in Fibers |-> NoFrame]
    /\ parent = [f \in Fibers |-> NoFiber]
    /\ current = NoFiber
    /\ now = 0
    /\ fd_ready = [fd \in Fds |-> {}]
    /\ thread = [t \in Threads |-> "idle"]
    /\ job = [t \in Threads |-> NoFiber]
    /\ unblocks = 0

-----------------------------------------------------------------------------
(* What a running fiber does *)

Running(f) == current = f /\ fiber[f] = "running"

\* Control returns to whoever resumed f.
Leave(f, state) ==
    /\ fiber' = [fiber EXCEPT ![f] = state]
    /\ current' = parent[f]

\* Fiber.schedule: fiber(&blk) creates the fiber and resumes it at once.
Schedule(g) ==
    /\ fiber[g] = "new"
    /\ current # NoFiber \/ pc = "main"
    /\ fiber' = [fiber EXCEPT ![g] = "running"]
    /\ parent' = [parent EXCEPT ![g] = current]
    /\ current' = g
    /\ UNCHANGED <<reactor, woken, resume_token, tables, batches, pc, locals, frame, env>>

\* Mutant: a timeout of 0 taken for none.
start_timer_positive(tok, timeout) ==
    IF timeout \in {0, NoTimeout} THEN {} ELSE {[at |-> now + timeout, token |-> tok]}

start_timer(tok, timeout) ==
    IF timeout = NoTimeout THEN {} ELSE {[at |-> now + timeout, token |-> tok]}

\* block, up to Fiber.yield.
block(f, tok, timeout, io, helper) ==
    /\ join_waiters' = join_waiters \cup {f}
    /\ timers' = timers \cup start_timer(tok, timeout)
    /\ resume_tokens' = resume_tokens \cup {<<tok, f>>}
    /\ token_map' = [token_map EXCEPT ![f] = tok]
    /\ frame' = [frame EXCEPT ![f] =
         [token |-> tok, io |-> io, thread |-> helper,
          until |-> IF timeout = NoTimeout THEN NoTimeout ELSE now + timeout]]
    /\ Leave(f, "waiting")

\* Mutant: tokens are reused.
NewTokenReused == resume_token < MaxToken /\ resume_token' = 1

NewToken == resume_token < MaxToken /\ resume_token' = resume_token + 1

\* block called by the VM (mutex, queue, join) and kernel_sleep.
Block(f) ==
    /\ Running(f) /\ NewToken
    /\ \E timeout \in Timeouts : block(f, resume_token', timeout, FALSE, NoThread)
    /\ UNCHANGED <<io_waiters, registry, polled, edges, woken, batches, pc, locals, parent, env>>

\* Scheduler#yield: kernel_sleep(0) if work?
Yield(f) ==
    /\ Running(f) /\ NewToken
    /\ Work
    /\ block(f, resume_token', 0, FALSE, NoThread)
    /\ UNCHANGED <<io_waiters, registry, polled, edges, woken, batches, pc, locals, parent, env>>

\* io_wait when register_io_wait returns a readiness: poll(2) reports all of
\* the mask.  Nothing is registered and the fiber goes on.
IoWaitReady(f) ==
    /\ Running(f) /\ NewToken
    /\ \E fd \in Fds, mask \in IoEvents : mask \subseteq fd_ready[fd]
    /\ UNCHANGED <<reactor, woken, tables, batches, pc, locals, fibers, env>>

\* io_wait with a mask build_interest rejects: raises before anything is stored.
IoWaitRejected(f) ==
    /\ Running(f) /\ NewToken
    /\ \E fd \in Fds, mask \in IoEvents :
         ~(mask \subseteq fd_ready[fd]) /\ build_interest(mask) = {}
    /\ UNCHANGED <<reactor, woken, tables, batches, pc, locals, fibers, env>>

\* Mutant: the waiter is queued and not stored.
StoreWaiterQueueOnly(w) ==
    /\ ~(w.readiness \subseteq fd_ready[w.fd])
    /\ build_interest(w.readiness) # {}
    /\ registry' = [registry EXCEPT ![w.fd] = Append(@, w)]
    /\ UNCHANGED io_waiters

\* register_io_wait stores the waiter and queues it.
StoreWaiter(w) ==
    /\ ~(w.readiness \subseteq fd_ready[w.fd])
    /\ build_interest(w.readiness) # {}
    /\ io_waiters' = io_waiters \cup {w}
    /\ registry' = [registry EXCEPT ![w.fd] = Append(@, w)]

\* epoll refuses an fd that is registered already.
register_fails(fd) == polled[fd] # NoWaiter

\* Mutant: the registration is not made.
register_skipped(fd, w) == UNCHANGED polled /\ edges' = edges \cup {fd}

\* poll's registry().register: epoll reports a new registration that is ready.
register(fd, w) ==
    /\ polled' = [polled EXCEPT ![fd] = w]
    /\ edges' = edges \cup {fd}

\* io_wait that suspends the fiber.
IoWait(f) ==
    /\ Running(f) /\ NewToken
    /\ \E fd \in Fds, mask \in IoEvents, timeout \in IoTimeouts :
         LET w == [fd |-> fd, readiness |-> mask, token |-> resume_token'] IN
         /\ StoreWaiter(w)
         /\ \/ registry[fd] = <<>> /\ ~register_fails(fd) /\ register(fd, w)
            \/ registry[fd] # <<>> /\ UNCHANGED <<polled, edges>>
         /\ block(f, w.token, timeout, TRUE, NoThread)
    /\ UNCHANGED <<woken, batches, pc, locals, parent, env>>

\* io_wait whose registration fails: the error is raised in the fiber after
\* the waiter has been stored.
IoWaitError(f) ==
    /\ Running(f) /\ NewToken
    /\ \E fd \in Fds, mask \in IoEvents :
         LET w == [fd |-> fd, readiness |-> mask, token |-> resume_token'] IN
         /\ StoreWaiter(w)
         /\ registry[fd] = <<>> /\ register_fails(fd)
    /\ UNCHANGED <<timers, polled, edges, woken, tables, batches, pc, locals, fibers, env>>

\* run_blocking_in_thread (address_resolve): starts a thread, then blocks.
RunBlockingInThread(f) ==
    /\ Running(f) /\ NewToken
    /\ \E t \in Threads :
         /\ thread[t] = "idle"
         /\ thread' = [thread EXCEPT ![t] = "work"]
         /\ job' = [job EXCEPT ![t] = f]
         /\ block(f, resume_token', NoTimeout, FALSE, t)
    /\ UNCHANGED <<io_waiters, registry, polled, edges, woken, batches, pc, locals, parent,
                   now, fd_ready, unblocks>>

\* Fiber.new: the fiber is alive and has not been resumed.
CreateFiber(g) ==
    /\ UserFibers
    /\ fiber[g] = "new"
    /\ current # NoFiber \/ pc = "main"
    /\ fiber' = [fiber EXCEPT ![g] = "suspended"]
    /\ UNCHANGED <<reactor, woken, resume_token, tables, batches, pc, locals,
                   frame, parent, current, env>>

\* A fiber suspends itself outside the scheduler's hooks.
RawYield(f) ==
    /\ UserFibers
    /\ Running(f)
    /\ Leave(f, "suspended")
    /\ UNCHANGED <<reactor, woken, resume_token, tables, batches, pc, locals, frame, parent, env>>

Finish(f) ==
    /\ Running(f)
    /\ Leave(f, "done")
    /\ UNCHANGED <<reactor, woken, resume_token, tables, batches, pc, locals, frame, parent, env>>

\* A fiber ends with an exception, which goes to whoever resumed it.  In tick,
\* resume_fiber rescues a StandardError; any other exception, and every one
\* out of resume_blocked's own fiber.resume, ends tick and run.
Raise(f) ==
    /\ Running(f)
    /\ Leave(f, "done")
    /\ \E standard \in BOOLEAN :
         pc' = IF parent[f] = NoFiber /\ pc # "main" /\ (unrescued \/ ~standard)
               THEN "crashed" ELSE pc
    /\ UNCHANGED <<reactor, woken, resume_token, tables, batches, locals, frame, parent, env>>

\* unblock: append under the mutex, then wake.
AppendUnblocked(g) ==
    unblocked' = [unblocked EXCEPT ![unblock_idx] = Append(@, g)]

\* unblock called on the scheduler's own thread (a fiber unlocks a mutex).
UnblockFromFiber(f) ==
    /\ Running(f)
    /\ unblocks < MaxUnblocks /\ unblocks' = unblocks + 1
    /\ \E g \in Fibers \ {f} : fiber[g] # "new" /\ AppendUnblocked(g)
    /\ woken' = TRUE
    /\ UNCHANGED <<reactor, resume_token, tables, unblock_idx, pc, locals, fibers,
                   now, fd_ready, thread, job>>

-----------------------------------------------------------------------------
(* Other threads *)

\* A thread calls unblock for any fiber it has seen block, at any later time.
ThreadUnblock(t) ==
    /\ thread[t] = "idle"
    /\ unblocks < MaxUnblocks /\ unblocks' = unblocks + 1
    /\ \E g \in Fibers : fiber[g] # "new" /\ AppendUnblocked(g)
    /\ thread' = [thread EXCEPT ![t] = "wake"]
    /\ UNCHANGED <<reactor, woken, resume_token, tables, unblock_idx, pc, locals, fibers,
                   now, fd_ready, job>>

\* run_blocking_in_thread's thread has its outcome and calls unblock.
ThreadWorkDone(t) ==
    /\ thread[t] = "work"
    /\ AppendUnblocked(job[t])
    /\ thread' = [thread EXCEPT ![t] = "wake"]
    /\ UNCHANGED <<reactor, woken, resume_token, tables, unblock_idx, pc, locals, fibers,
                   now, fd_ready, job, unblocks>>

\* Mutant: the waker is not woken.
wake_skipped(t) ==
    /\ thread[t] = "wake"
    /\ thread' = [thread EXCEPT ![t] = IF job[t] = NoFiber THEN "idle" ELSE "drop"]
    /\ UNCHANGED <<reactor, woken, resume_token, tables, batches, pc, locals, fibers,
                   now, fd_ready, job, unblocks>>

\* wake: the waker's event is pending until the next poll.
wake(t) ==
    /\ thread[t] = "wake"
    /\ woken' = TRUE
    /\ thread' = [thread EXCEPT ![t] = IF job[t] = NoFiber THEN "idle" ELSE "drop"]
    /\ UNCHANGED <<reactor, resume_token, tables, batches, pc, locals, fibers,
                   now, fd_ready, job, unblocks>>

\* The thread's closure ends and drops its reference to the result.
ThreadEnds(t) ==
    /\ thread[t] = "drop"
    /\ thread' = [thread EXCEPT ![t] = "idle"]
    /\ job' = [job EXCEPT ![t] = NoFiber]
    /\ UNCHANGED <<reactor, woken, resume_token, tables, batches, pc, locals, fibers,
                   now, fd_ready, unblocks>>

Advance ==
    /\ now < MaxTime /\ now' = now + 1
    /\ UNCHANGED <<reactor, woken, resume_token, tables, batches, pc, locals, fibers,
                   fd_ready, thread, job, unblocks>>

\* The peer makes an fd ready, for the first time or again.
FdReady(fd) ==
    /\ \E flag \in {"readable", "writable"} :
         fd_ready' = [fd_ready EXCEPT ![fd] = @ \cup {flag}]
    /\ edges' = edges \cup {fd}
    /\ UNCHANGED <<timers, io_waiters, registry, polled, woken, resume_token, tables, batches,
                   pc, locals, fibers, now, thread, job, unblocks>>

\* Someone uses the readiness up.
FdDrained(fd) ==
    /\ \E flag \in fd_ready[fd] : fd_ready' = [fd_ready EXCEPT ![fd] = @ \ {flag}]
    /\ UNCHANGED <<reactor, woken, resume_token, tables, batches, pc, locals, fibers,
                   now, thread, job, unblocks>>

-----------------------------------------------------------------------------
(* run and tick, on the root fiber *)

AtRoot(label) == current = NoFiber /\ pc = label

\* The program's main fiber ends; close calls run.
Close ==
    /\ AtRoot("main")
    /\ pc' = "work"
    /\ UNCHANGED <<reactor, woken, resume_token, tables, batches, locals, fibers, env>>

\* run: tick while work?
CheckWork ==
    /\ AtRoot("work")
    /\ pc' = IF Work THEN "fetch" ELSE "exited"
    /\ UNCHANGED <<reactor, woken, resume_token, tables, batches, locals, fibers, env>>

\* fetch_due_events: polls unless there is nothing but timers to wait for.
FetchDueEvents ==
    /\ AtRoot("fetch")
    /\ pc' = IF io_waiters # {} \/ timers = {} THEN "poll" ELSE "timers"
    /\ UNCHANGED <<reactor, woken, resume_token, tables, batches, locals, fibers, env>>

\* poll returns: with events, because of the waker, or at the head timer.
PollReturns ==
    /\ AtRoot("poll")
    /\ ReadyFds # {} \/ woken \/ \E t \in timers : t.at <= now
    /\ events' = {polled[fd].token : fd \in ReadyFds}
    /\ edges' = edges \ ReadyFds
    /\ woken' = FALSE
    /\ pc' = "events"
    /\ UNCHANGED <<timers, io_waiters, registry, polled, resume_token, tables, batches, due_events, due_timers, pos,
                   unrescued, timed_out, fibers, env>>

\* poll fails (EINTR): fetch_due_events returns None.
PollInterrupted ==
    /\ AtRoot("poll")
    /\ pc' = "timers"
    /\ UNCHANGED <<reactor, woken, resume_token, tables, batches, locals, fibers, env>>

\* The front of fd's queue is popped and the next item, if any, registered;
\* kept is the registration fd has by then.  An absent queue (unwrap) or a
\* refused registration ends the tick.
PopFront(fd, kept) ==
    \/ /\ registry[fd] = <<>>
       /\ pc' = "crashed"
       /\ UNCHANGED <<registry, polled, edges>>
    \/ /\ registry[fd] # <<>>
       /\ registry' = [registry EXCEPT ![fd] = Tail(@)]
       /\ \/ /\ Tail(registry[fd]) = <<>>
             /\ polled' = [polled EXCEPT ![fd] = kept]
             /\ UNCHANGED <<pc, edges>>
          \/ /\ Tail(registry[fd]) # <<>> /\ kept = NoWaiter
             /\ register(fd, Head(Tail(registry[fd])))
             /\ UNCHANGED pc
          \/ /\ Tail(registry[fd]) # <<>> /\ kept # NoWaiter
             /\ pc' = "crashed"
             /\ UNCHANGED <<polled, edges>>

\* Mutant: the fd stays registered.
deregistered_not(fd) == polled[fd]

\* The registration of fd after fetch_due_events has deregistered it.
deregistered(fd) == NoWaiter

\* One event of fetch_due_events' loop.
HandleEvent ==
    /\ AtRoot("events")
    /\ \E tok \in events :
         /\ events' = events \ {tok}
         /\ \/ /\ \A w \in io_waiters : w.token # tok
               /\ UNCHANGED <<io_waiters, registry, polled, edges, due_events, pc>>
            \/ \E w \in io_waiters :
                 /\ w.token = tok
                 /\ io_waiters' = io_waiters \ {w}
                 /\ due_events' = Append(due_events, tok)
                 /\ PopFront(w.fd, deregistered(w.fd))
    /\ UNCHANGED <<timers, woken, resume_token, tables, batches, due_timers, pos, unrescued,
                   timed_out, fibers, env>>

EventsDone ==
    /\ AtRoot("events") /\ events = {}
    /\ pc' = "timers"
    /\ UNCHANGED <<reactor, woken, resume_token, tables, batches, locals, fibers, env>>

\* One due timer of fetch_due_timers' loop.  The waiter goes, but it is the
\* front of its fd's queue that is popped, and the fd is not deregistered.
PopDueTimer ==
    /\ AtRoot("timers")
    /\ \E t \in timers :
         /\ IsHead(t) /\ t.at <= now
         /\ due_timers' = Append(due_timers, t.token)
         /\ \/ /\ \A w \in io_waiters : w.token # t.token
               /\ UNCHANGED <<io_waiters, registry, polled, edges, timed_out, pc>>
            \/ \E w \in io_waiters :
                 /\ w.token = t.token
                 /\ io_waiters' = io_waiters \ {w}
                 /\ timed_out' = timed_out \cup {w.fd}
                 /\ PopFront(w.fd, polled[w.fd])
         /\ timers' = IF pc' = "crashed" THEN timers ELSE timers \ {t}
    /\ UNCHANGED <<woken, resume_token, tables, batches, events, due_events, pos, unrescued,
                   fibers, env>>

TimersDone ==
    /\ AtRoot("timers")
    /\ \A t \in timers : t.at > now
    /\ pc' = "switch"
    /\ UNCHANGED <<reactor, woken, resume_token, tables, batches, locals, fibers, env>>

\* (@unblock_idx + 1) % 2
OtherIdx == 1 - unblock_idx

\* switch_unblock_batch: under the mutex.
SwitchUnblockBatch ==
    /\ AtRoot("switch")
    /\ unblock_idx' = OtherIdx
    /\ pos' = 1
    /\ pc' = "resume_events"
    /\ UNCHANGED <<reactor, woken, resume_token, tables, unblocked, events, due_events,
                   due_timers, unrescued, timed_out, fibers, env>>

\* Mutant: block's ensure leaves the token map alone.
EndBlockMapKept(f, tok) ==
    /\ resume_tokens' = resume_tokens \ {<<tok, f>>}
    /\ join_waiters' = join_waiters \ {f}
    /\ UNCHANGED token_map

\* block's ensure.
EndBlock(f, tok) ==
    /\ resume_tokens' = resume_tokens \ {<<tok, f>>}
    /\ join_waiters' = join_waiters \ {f}
    /\ token_map' = [token_map EXCEPT ![f] = NoToken]

\* The fiber of a token is resumed inside block, whose ensure clears the
\* tables; then io_wait clears its timer, and run_blocking_in_thread takes
\* its result, which panics while the thread still holds it.
resume_fiber(tok) ==
    \/ /\ \A f \in Fibers : <<tok, f>> \notin resume_tokens
       /\ UNCHANGED <<timers, tables, pc, unrescued, fibers>>
    \/ \E f \in Fibers :
         /\ <<tok, f>> \in resume_tokens
         /\ EndBlock(f, tok)
         /\ timers' = IF frame[f].io THEN {t \in timers : t.token # tok} ELSE timers
         /\ frame' = [frame EXCEPT ![f] = NoFrame]
         /\ IF frame[f].thread # NoThread /\ job[frame[f].thread] = f
            THEN /\ pc' = "crashed"
                 /\ fiber' = [fiber EXCEPT ![f] = "done"]
                 /\ UNCHANGED <<unrescued, parent, current>>
            ELSE /\ fiber' = [fiber EXCEPT ![f] = "running"]
                 /\ parent' = [parent EXCEPT ![f] = NoFiber]
                 /\ current' = f
                 /\ unrescued' = FALSE
                 /\ UNCHANGED pc

ResumeEvent ==
    /\ AtRoot("resume_events") /\ due_events # <<>>
    /\ due_events' = Tail(due_events)
    /\ resume_fiber(Head(due_events))
    /\ UNCHANGED <<io_waiters, registry, polled, edges, woken, resume_token, batches, events,
                   due_timers, pos, timed_out, env>>

EventsResumed ==
    /\ AtRoot("resume_events") /\ due_events = <<>>
    /\ pc' = "resume_unblocked"
    /\ UNCHANGED <<reactor, woken, resume_token, tables, batches, locals, fibers, env>>

Batch == unblocked[1 - unblock_idx]

\* resume_blocked: by its token, or directly when it is not in the token map.
resume_blocked(f) ==
    \/ token_map[f] # NoToken /\ resume_fiber(token_map[f])
    \/ /\ token_map[f] = NoToken /\ fiber[f] = "suspended"
       /\ fiber' = [fiber EXCEPT ![f] = "running"]
       /\ parent' = [parent EXCEPT ![f] = NoFiber]
       /\ current' = f
       /\ unrescued' = TRUE
       /\ UNCHANGED <<timers, tables, pc, frame>>
    \/ /\ token_map[f] = NoToken /\ fiber[f] # "suspended"
       /\ UNCHANGED <<timers, tables, pc, unrescued, fibers>>

ResumeUnblocked ==
    /\ AtRoot("resume_unblocked") /\ pos <= Len(Batch)
    /\ pos' = pos + 1
    /\ resume_blocked(Batch[pos])
    /\ UNCHANGED <<io_waiters, registry, polled, edges, woken, resume_token, batches, events,
                   due_events, due_timers, timed_out, env>>

UnblockedResumed ==
    /\ AtRoot("resume_unblocked") /\ pos > Len(Batch)
    /\ unblocked' = [unblocked EXCEPT ![1 - unblock_idx] = <<>>]
    /\ pc' = "resume_timers"
    /\ UNCHANGED <<reactor, woken, resume_token, tables, unblock_idx, locals, fibers, env>>

ResumeTimer ==
    /\ AtRoot("resume_timers") /\ due_timers # <<>>
    /\ due_timers' = Tail(due_timers)
    /\ resume_fiber(Head(due_timers))
    /\ UNCHANGED <<io_waiters, registry, polled, edges, woken, resume_token, batches, events,
                   due_events, pos, timed_out, env>>

TimersResumed ==
    /\ AtRoot("resume_timers") /\ due_timers = <<>>
    /\ pc' = "work"
    /\ UNCHANGED <<reactor, woken, resume_token, tables, batches, locals, fibers, env>>

-----------------------------------------------------------------------------
TickStep ==
    \/ CheckWork \/ FetchDueEvents \/ HandleEvent \/ EventsDone
    \/ PopDueTimer \/ TimersDone \/ SwitchUnblockBatch
    \/ ResumeEvent \/ EventsResumed \/ ResumeUnblocked \/ UnblockedResumed
    \/ ResumeTimer \/ TimersResumed

FiberStep(f) ==
    \/ Block(f) \/ Yield(f)
    \/ IoWaitReady(f) \/ IoWaitRejected(f) \/ IoWait(f) \/ IoWaitError(f)
    \/ RunBlockingInThread(f) \/ UnblockFromFiber(f)
    \/ RawYield(f) \/ Finish(f) \/ Raise(f)

ThreadStep(t) == ThreadUnblock(t) \/ ThreadWorkDone(t) \/ wake(t) \/ ThreadEnds(t)

Next ==
    \/ \E f \in Fibers : Schedule(f) \/ CreateFiber(f) \/ FiberStep(f)
    \/ Close \/ TickStep \/ PollReturns \/ PollInterrupted
    \/ \E t \in Threads : ThreadStep(t)
    \/ \E fd \in Fds : FdReady(fd) \/ FdDrained(fd)
    \/ Advance

Spec == Init /\ [][Next]_vars

\* The OS runs the scheduler's thread, and poll is interrupted only now and
\* then; a running fiber suspends or ends; a thread inside unblock gets to
\* its wake; the clock advances.
Fairness ==
    /\ WF_vars(Close \/ TickStep) /\ SF_vars(PollReturns)
    /\ WF_vars(\E f \in Fibers : FiberStep(f))
    /\ \A t \in Threads : WF_vars(wake(t))
    /\ WF_vars(Advance)

FairSpec == Spec /\ Fairness

-----------------------------------------------------------------------------
(* Properties *)

Labels == {"main", "work", "fetch", "poll", "events", "timers", "switch",
           "resume_events", "resume_unblocked", "resume_timers", "exited", "crashed"}

ReactorType ==
    /\ timers \subseteq Timer /\ io_waiters \subseteq Waiter
    /\ registry \in [Fds -> Seq(Waiter)]
    /\ polled \in [Fds -> Waiter \cup {NoWaiter}]
    /\ edges \subseteq Fds /\ woken \in BOOLEAN

TablesType ==
    /\ resume_token \in Nat /\ join_waiters \subseteq Fibers
    /\ token_map \in [Fibers -> Nat] /\ resume_tokens \subseteq Nat \X Fibers
    /\ unblocked \in [{0, 1} -> Seq(Fibers)] /\ unblock_idx \in {0, 1}

TickType ==
    /\ pc \in Labels /\ pos \in Nat \ {0} /\ unrescued \in BOOLEAN
    /\ timed_out \subseteq Fds
    /\ events \subseteq Nat /\ due_events \in Seq(Nat) /\ due_timers \in Seq(Nat)

FibersType ==
    /\ fiber \in [Fibers -> {"new", "running", "waiting", "suspended", "done"}]
    /\ frame \in [Fibers -> Frame]
    /\ parent \in [Fibers -> Fibers \cup {NoFiber}] /\ current \in Fibers \cup {NoFiber}

EnvType ==
    /\ now \in Nat /\ unblocks \in Nat
    /\ fd_ready \in [Fds -> SUBSET {"readable", "writable"}]
    /\ thread \in [Threads -> {"idle", "work", "wake", "drop"}]
    /\ job \in [Threads -> Fibers \cup {NoFiber}]
    /\ \A t \in Threads : thread[t] \in {"work", "drop"} => job[t] \in Fibers

\* The type invariant; a thread that works for a fiber names it.
TypeOK == ReactorType /\ TablesType /\ TickType /\ FibersType /\ EnvType

Waiting(f, tok) == fiber[f] = "waiting" /\ frame[f].token = tok

\* block's three tables agree on who waits and on which token, and no two
\* waits share a token: one left over in any of them would resume a fiber
\* out of some later wait.
WaitBookkeeping ==
    /\ join_waiters = {f \in Fibers : fiber[f] = "waiting"}
    /\ resume_tokens = {<<frame[f].token, f>> : f \in join_waiters}
    /\ \A f \in Fibers : token_map[f] = frame[f].token
    /\ \A f \in Fibers : \/ f \in join_waiters /\ frame[f].token \in 1 .. resume_token
                         \/ f \notin join_waiters /\ frame[f] = NoFrame
    /\ \A f, g \in join_waiters : frame[f].token = frame[g].token => f = g

\* A timer, a waiter or a due token stands for the wait it was issued for: if
\* a fiber waits on that token, it is in io_wait, or its deadline is the
\* timer's.  No token is reused, so a stale one finds nobody.
WakeSources ==
    /\ \A t \in timers : /\ t.token \in 1 .. resume_token
                         /\ \A f \in Fibers : Waiting(f, t.token) => frame[f].until = t.at
    /\ \A tok \in Range(due_timers) :
         /\ tok \in 1 .. resume_token
         /\ \A f \in Fibers : Waiting(f, tok) =>
              frame[f].until # NoTimeout /\ frame[f].until <= now
    /\ \A w \in io_waiters : /\ w.token \in 1 .. resume_token
                             /\ \A f \in Fibers : Waiting(f, w.token) => frame[f].io
    /\ \A tok \in Range(due_events) :
         /\ tok \in 1 .. resume_token
         /\ \A f \in Fibers : Waiting(f, tok) => frame[f].io

\* A fiber inside block is resumed only by an event of its io_wait, by an
\* unblock naming it, or by its timer once the deadline has passed; in
\* particular never by a timer or event of an earlier wait.
WakeJustified ==
    [][\A f \in Fibers : fiber[f] = "waiting" /\ fiber'[f] # "waiting" =>
         \/ /\ pc = "resume_events" /\ frame[f].io
            /\ Head(due_events) = frame[f].token
         \/ pc = "resume_unblocked" /\ Batch[pos] = f
         \/ /\ pc = "resume_timers"
            /\ frame[f].until # NoTimeout /\ frame[f].until <= now]_vars

\* No deadline is forgotten: a fiber waiting with a timeout has its timer in
\* the heap or among the due tokens of this tick.
TimeoutArmed ==
    \A f \in Fibers : fiber[f] = "waiting" /\ frame[f].until # NoTimeout =>
        \/ [at |-> frame[f].until, token |-> frame[f].token] \in timers
        \/ frame[f].token \in Range(due_timers)

\* A fiber inside io_wait still has its waiter, or its token is already due.
WaiterKept ==
    \A f \in Fibers : fiber[f] = "waiting" /\ frame[f].io =>
        \/ \E w \in io_waiters : w.token = frame[f].token
        \/ frame[f].token \in Range(due_events) \cup Range(due_timers)

\* run returns only when no fiber is still inside block.
ExitClean ==
    pc = "exited" => /\ \A f \in Fibers : fiber[f] # "waiting"
                     /\ timers = {} /\ io_waiters = {}

\* The queues, the waiter table and the poller agree: an fd's waiters are the
\* ones in its queue, and poll watches the fd for the head of the queue.  An
\* fd is out of order only once a wait on it has timed out, and then no other
\* fd is.
RegistryAgrees ==
    /\ \A w \in io_waiters : w.fd \notin timed_out => w \in Range(registry[w.fd])
    /\ \A fd \in Fds \ timed_out :
         /\ \A w \in Range(registry[fd]) : w.fd = fd /\ w \in io_waiters
         /\ polled[fd] = IF registry[fd] = <<>> THEN NoWaiter ELSE Head(registry[fd])

\* fetch_due_events and fetch_due_timers raise only while they take a waiter
\* of an fd on which a wait has timed out, this one or one before it.
ReactorSound ==
    [][AtRoot("events") \/ AtRoot("timers") =>
         \/ pc' # "crashed"
         \/ \E w \in io_waiters \ io_waiters' : w.fd \in timed_out']_vars

PendingUnblock(f) ==
    \/ f \in Range(unblocked[unblock_idx])
    \/ \E i \in DOMAIN Batch : Batch[i] = f /\ (pc = "resume_unblocked" => i >= pos)

\* An unblock is never lost: the wait it finds is over eventually, however
\* unblock's append and wake interleave with poll and the batch switch.
UnblockDelivered ==
    \A f \in Fibers, tok \in 1 .. MaxToken :
        Waiting(f, tok) /\ PendingUnblock(f) ~> ~Waiting(f, tok) \/ pc = "crashed"

\* A wait with a timeout ends.
TimeoutDelivered ==
    \A f \in Fibers, tok \in 1 .. MaxToken :
        Waiting(f, tok) /\ frame[f].until \in 0 .. MaxTime
            ~> ~Waiting(f, tok) \/ pc = "crashed"

\* An io_wait ends while the fd stays ready for what it waits for, if no wait
\* on that fd has timed out.
EventDelivered ==
    \A f \in Fibers, tok \in 1 .. MaxToken :
        ~<>[](/\ Waiting(f, tok) /\ pc # "crashed"
              /\ \E w \in io_waiters : w.token = tok /\ w.fd \notin timed_out
                                        /\ w.readiness \subseteq fd_ready[w.fd])
=============================================================================
