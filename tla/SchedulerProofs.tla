--------------------------- MODULE SchedulerProofs ---------------------------
(* What holds of Scheduler for every set of fibers, fds, threads and timeouts: *)
(* its types, and the tables in which block books a wait.                      *)
EXTENDS Scheduler, SequenceTheorems, TLAPS

USE DEF Labels, NoToken, reactor, tables, batches, locals, fibers, env, Until

\* The facts about sequences that the proofs use.
LEMMA SeqFacts ==
    ASSUME NEW S, NEW s \in Seq(S)
    PROVE  /\ s # <<>> => Head(s) \in S /\ Tail(s) \in Seq(S)
           /\ \A x \in S : Append(s, x) \in Seq(S)
           /\ \A i \in DOMAIN s : s[i] \in S
           /\ Len(s) \in Nat /\ DOMAIN s = 1 .. Len(s)
<1>1. s # <<>> => Head(s) \in S /\ Tail(s) \in Seq(S)
  BY HeadTailProperties, Zenon
<1>2. \A x \in S : Append(s, x) \in Seq(S)
  BY AppendProperties, Zenon
<1>3. \A i \in DOMAIN s : s[i] \in S
  BY ElementOfSeq, LenProperties, Zenon
<1>4. QED BY <1>1, <1>2, <1>3, LenProperties, Zenon

\* The initial state has the types.
LEMMA TypeInit == Init => TypeOK
<1> SUFFICES ASSUME Init PROVE TypeOK
  BY Zenon
<1> USE SchedulerAssumption
<1>1. ReactorType
  <2>1. registry \in [Fds -> Seq(Waiter)]
    <3>1. <<>> \in Seq(Waiter) OBVIOUS
    <3>2. QED BY <3>1, Zenon DEF Init
  <2>2. woken \in BOOLEAN BY Zenon DEF Init
  <2>3. polled \in [Fds -> Waiter \cup {NoWaiter}] BY Zenon DEF Init
  <2>4. timers \subseteq Timer /\ io_waiters \subseteq Waiter /\ edges \subseteq Fds BY Zenon DEF Init
  <2>5. QED BY <2>1, <2>2, <2>3, <2>4, Zenon DEF ReactorType
<1>2. TablesType BY DEF Init, TablesType
<1>3. TickType
  <2>1. unrescued \in BOOLEAN /\ timed_out \subseteq Fds BY Zenon DEF Init
  <2>2. /\ pc \in Labels /\ pos \in Nat \ {0} /\ events \subseteq Nat
        /\ due_events \in Seq(Nat) /\ due_timers \in Seq(Nat) BY DEF Init
  <2>3. QED BY <2>1, <2>2, Zenon DEF TickType
<1>4. FibersType BY Zenon DEF Init, FibersType, NoFrame, Frame
<1>5. EnvType BY Zenon DEF Init, EnvType
<1>6. QED BY <1>1, <1>2, <1>3, <1>4, <1>5, Zenon DEF TypeOK

\* What block does to the types.
LEMMA TypeBlock ==
    ASSUME TypeOK, NEW f \in Fibers, NEW tok \in Nat, NEW timeout \in Until,
           NEW io \in BOOLEAN, NEW helper \in Threads \cup {NoThread},
           block(f, tok, timeout, io, helper), UNCHANGED parent,
           UNCHANGED <<batches>>, resume_token' \in Nat
    PROVE  timers' \subseteq Timer /\ TablesType' /\ FibersType'
<1> USE SchedulerAssumption
<1>1. timers' \subseteq Timer
  BY DEF block, start_timer, TypeOK, ReactorType, EnvType, Timer
<1>2. frame' \in [Fibers -> Frame]
  BY DEF block, TypeOK, FibersType, EnvType, Frame
<1>3. FibersType'
  BY <1>2, Zenon DEF block, Leave, TypeOK, FibersType
<1>4. TablesType'
  BY DEF block, TypeOK, TablesType
<1>5. QED BY <1>1, <1>3, <1>4, Zenon

\* A step keeps the type of every group of variables it does not touch.
LEMMA TypeStable ==
    ASSUME TypeOK
    PROVE  /\ UNCHANGED <<reactor, woken>> => ReactorType'
           /\ UNCHANGED <<resume_token, tables, batches>> => TablesType'
           /\ UNCHANGED <<pc, locals>> => TickType'
           /\ UNCHANGED fibers => FibersType'
           /\ UNCHANGED env => EnvType'
<1>1. UNCHANGED <<reactor, woken>> => ReactorType' BY Zenon DEF TypeOK, ReactorType
<1>2. UNCHANGED <<resume_token, tables, batches>> => TablesType' BY Zenon DEF TypeOK, TablesType
<1>3. UNCHANGED <<pc, locals>> => TickType' BY Zenon DEF TypeOK, TickType
<1>4. UNCHANGED fibers => FibersType' BY Zenon DEF TypeOK, FibersType
<1>5. UNCHANGED env => EnvType' BY Zenon DEF TypeOK, EnvType
<1>6. QED BY <1>1, <1>2, <1>3, <1>4, <1>5, Zenon

\* The steps of a fiber keep the types.
LEMMA TypeFiberStep ==
    ASSUME TypeOK, NEW f \in Fibers, Schedule(f) \/ CreateFiber(f) \/ FiberStep(f)
    PROVE  TypeOK'
<1> USE SchedulerAssumption
<1>1. CASE Schedule(f)
  <2>1. FibersType' BY <1>1, Zenon DEF Schedule, TypeOK, FibersType
  <2>2. QED BY <1>1, <2>1, TypeStable, Zenon DEF Schedule, TypeOK
<1>2. CASE CreateFiber(f)
  <2>1. FibersType' BY <1>2, Zenon DEF CreateFiber, TypeOK, FibersType
  <2>2. QED BY <1>2, <2>1, TypeStable, Zenon DEF CreateFiber, TypeOK
<1>3. ASSUME NewToken PROVE resume_token' \in Nat
  BY <1>3 DEF NewToken, TypeOK, TablesType
<1>4. CASE Block(f)
  <2>1. PICK timeout \in Timeouts : block(f, resume_token', timeout, FALSE, NoThread)
    BY <1>4, Zenon DEF Block
  <2>2. timers' \subseteq Timer /\ TablesType' /\ FibersType'
    BY <1>3, <1>4, <2>1, TypeBlock, Zenon DEF Block
  <2>3. ReactorType' BY <1>4, <2>2, Zenon DEF Block, TypeOK, ReactorType
  <2>4. QED BY <1>4, <2>2, <2>3, TypeStable, Zenon DEF Block, TypeOK
<1>5. CASE Yield(f)
  <2>1. timers' \subseteq Timer /\ TablesType' /\ FibersType'
    BY <1>3, <1>5, TypeBlock, Zenon DEF Yield
  <2>2. ReactorType' BY <1>5, <2>1, Zenon DEF Yield, TypeOK, ReactorType
  <2>3. QED BY <1>5, <2>1, <2>2, TypeStable, Zenon DEF Yield, TypeOK
<1>6. CASE IoWaitReady(f) \/ IoWaitRejected(f)
  <2>1. TablesType' BY <1>3, <1>6, Zenon DEF IoWaitReady, IoWaitRejected, TypeOK, TablesType
  <2>2. QED BY <1>6, <2>1, TypeStable, Zenon DEF IoWaitReady, IoWaitRejected, TypeOK
<1>7. ASSUME NEW w \in Waiter, StoreWaiter(w)
      PROVE  io_waiters' \subseteq Waiter /\ registry' \in [Fds -> Seq(Waiter)]
  <2>1. w.fd \in Fds BY Zenon DEF Waiter
  <2>2. Append(registry[w.fd], w) \in Seq(Waiter)
    BY <2>1, SeqFacts, Zenon DEF TypeOK, ReactorType
  <2>3. QED BY <1>7, <2>1, <2>2, Zenon DEF StoreWaiter, TypeOK, ReactorType
<1>8. CASE IoWait(f)
  <2> DEFINE W(fd, mask) == [fd |-> fd, readiness |-> mask, token |-> resume_token']
  <2>1. PICK fd \in Fds, mask \in IoEvents, timeout \in IoTimeouts :
          /\ StoreWaiter(W(fd, mask))
          /\ \/ register(fd, W(fd, mask))
             \/ UNCHANGED <<polled, edges>>
          /\ block(f, resume_token', timeout, TRUE, NoThread)
    BY <1>8, Zenon DEF IoWait
  <2>2. W(fd, mask) \in Waiter BY <1>3, <1>8, Zenon DEF Waiter, IoWait
  <2> HIDE DEF W
  <2>3. timers' \subseteq Timer /\ TablesType' /\ FibersType'
    BY <1>3, <1>8, <2>1, TypeBlock, Zenon DEF IoWait
  <2>4. io_waiters' \subseteq Waiter /\ registry' \in [Fds -> Seq(Waiter)]
    BY <1>7, <2>1, <2>2, Zenon
  <2>5. polled' \in [Fds -> Waiter \cup {NoWaiter}] /\ edges' \subseteq Fds
    BY <2>1, <2>2, ZenonT(30) DEF register, TypeOK, ReactorType
  <2>6. ReactorType' BY <1>8, <2>3, <2>4, <2>5, Zenon DEF IoWait, TypeOK, ReactorType
  <2>7. QED BY <1>8, <2>3, <2>6, TypeStable, Zenon DEF IoWait, TypeOK
<1>9. CASE IoWaitError(f)
  <2> DEFINE W(fd, mask) == [fd |-> fd, readiness |-> mask, token |-> resume_token']
  <2>1. PICK fd \in Fds, mask \in IoEvents : StoreWaiter(W(fd, mask))
    BY <1>9, Zenon DEF IoWaitError
  <2>2. W(fd, mask) \in Waiter BY <1>3, <1>9, Zenon DEF Waiter, IoWaitError
  <2> HIDE DEF W
  <2>3. io_waiters' \subseteq Waiter /\ registry' \in [Fds -> Seq(Waiter)]
    BY <1>7, <2>1, <2>2, Zenon
  <2>4. ReactorType' BY <1>9, <2>3, Zenon DEF IoWaitError, TypeOK, ReactorType
  <2>5. TablesType' BY <1>3, <1>9, Zenon DEF IoWaitError, TypeOK, TablesType
  <2>6. QED BY <1>9, <2>4, <2>5, TypeStable, Zenon DEF IoWaitError, TypeOK
<1>10. CASE RunBlockingInThread(f)
  <2>1. PICK t \in Threads :
          /\ thread' = [thread EXCEPT ![t] = "work"]
          /\ job' = [job EXCEPT ![t] = f]
          /\ block(f, resume_token', NoTimeout, FALSE, t)
    BY <1>10, Zenon DEF RunBlockingInThread
  <2>2. timers' \subseteq Timer /\ TablesType' /\ FibersType'
    BY <1>3, <1>10, <2>1, TypeBlock, Zenon DEF RunBlockingInThread
  <2>3. ReactorType' BY <1>10, <2>2, Zenon DEF RunBlockingInThread, TypeOK, ReactorType
  <2>4. EnvType' BY <1>10, <2>1, Zenon DEF RunBlockingInThread, TypeOK, EnvType
  <2>5. QED BY <1>10, <2>2, <2>3, <2>4, TypeStable, Zenon DEF RunBlockingInThread, TypeOK
<1>11. CASE UnblockFromFiber(f)
  <2>1. woken' \in BOOLEAN BY <1>11, Zenon DEF UnblockFromFiber
  <2>2. ReactorType' BY <1>11, <2>1, Zenon DEF UnblockFromFiber, TypeOK, ReactorType
  <2>3. TablesType'
    BY <1>11, SeqFacts DEF UnblockFromFiber, AppendUnblocked, TypeOK, TablesType
  <2>4. EnvType' BY <1>11 DEF UnblockFromFiber, TypeOK, EnvType
  <2>5. QED BY <1>11, <2>2, <2>3, <2>4, TypeStable, Zenon DEF UnblockFromFiber, TypeOK
<1>12. CASE RawYield(f) \/ Finish(f)
  <2>1. FibersType' BY <1>12, ZenonT(30) DEF RawYield, Finish, Leave, TypeOK, FibersType
  <2>2. QED BY <1>12, <2>1, TypeStable, Zenon DEF RawYield, Finish, TypeOK
<1>13. CASE Raise(f)
  <2>1. FibersType' BY <1>13, Zenon DEF Raise, Leave, TypeOK, FibersType
  <2>2. TickType' BY <1>13, Zenon DEF Raise, TypeOK, TickType
  <2>3. QED BY <1>13, <2>1, <2>2, TypeStable, Zenon DEF Raise, TypeOK
<1>14. QED
  BY <1>1, <1>2, <1>4, <1>5, <1>6, <1>8, <1>9, <1>10, <1>11, <1>12, <1>13, Zenon DEF FiberStep

\* The steps of other threads, of the fds and of the clock keep the types.
LEMMA TypeEnvStep ==
    ASSUME TypeOK,
           \/ \E t \in Threads : ThreadStep(t)
           \/ \E fd \in Fds : FdReady(fd) \/ FdDrained(fd)
           \/ Advance
    PROVE  TypeOK'
<1> USE SchedulerAssumption
<1>1. ASSUME NEW t \in Threads, ThreadUnblock(t) \/ ThreadWorkDone(t) PROVE TypeOK'
  <2>1. PICK g \in Fibers : AppendUnblocked(g)
    BY <1>1, Zenon DEF ThreadUnblock, ThreadWorkDone, TypeOK, EnvType
  <2>2. Append(unblocked[unblock_idx], g) \in Seq(Fibers)
    BY SeqFacts, Zenon DEF TypeOK, TablesType
  <2>3. TablesType'
    BY <1>1, <2>1, <2>2, Zenon DEF ThreadUnblock, ThreadWorkDone, AppendUnblocked, TypeOK,
       TablesType
  <2>4. EnvType' BY <1>1 DEF ThreadUnblock, ThreadWorkDone, TypeOK, EnvType
  <2>5. QED BY <1>1, <2>3, <2>4, TypeStable, Zenon DEF ThreadUnblock, ThreadWorkDone, TypeOK
<1>2. ASSUME NEW t \in Threads, wake(t) PROVE TypeOK'
  <2>1. woken' \in BOOLEAN BY <1>2, Zenon DEF wake
  <2>2. ReactorType' BY <1>2, <2>1, Zenon DEF wake, TypeOK, ReactorType
  <2>3. EnvType' BY <1>2, Zenon DEF wake, TypeOK, EnvType
  <2>4. QED BY <1>2, <2>2, <2>3, TypeStable, Zenon DEF wake, TypeOK
<1>3. ASSUME NEW t \in Threads, ThreadEnds(t) PROVE TypeOK'
  <2>1. EnvType' BY <1>3, Zenon DEF ThreadEnds, TypeOK, EnvType
  <2>2. QED BY <1>3, <2>1, TypeStable, Zenon DEF ThreadEnds, TypeOK
<1>4. ASSUME NEW fd \in Fds, FdReady(fd) PROVE TypeOK'
  <2>1. EnvType' BY <1>4 DEF FdReady, TypeOK, EnvType
  <2>2. ReactorType' BY <1>4, Zenon DEF FdReady, TypeOK, ReactorType
  <2>3. QED BY <1>4, <2>1, <2>2, TypeStable, Zenon DEF FdReady, TypeOK
<1>5. ASSUME NEW fd \in Fds, FdDrained(fd) PROVE TypeOK'
  <2>1. EnvType' BY <1>5, ZenonT(30) DEF FdDrained, TypeOK, EnvType
  <2>2. QED BY <1>5, <2>1, TypeStable, Zenon DEF FdDrained, TypeOK
<1>6. ASSUME Advance PROVE TypeOK'
  <2>1. EnvType' BY <1>6 DEF Advance, TypeOK, EnvType
  <2>2. QED BY <1>6, <2>1, TypeStable, Zenon DEF Advance, TypeOK
<1>7. QED BY <1>1, <1>2, <1>3, <1>4, <1>5, <1>6, Zenon DEF ThreadStep

\* Popping the front of a queue keeps the types.
LEMMA TypePopFront ==
    ASSUME TypeOK, NEW fd \in Fds, NEW kept \in Waiter \cup {NoWaiter}, PopFront(fd, kept)
    PROVE  /\ registry' \in [Fds -> Seq(Waiter)]
           /\ polled' \in [Fds -> Waiter \cup {NoWaiter}]
           /\ edges' \subseteq Fds /\ pc' \in Labels
<1>1. registry[fd] \in Seq(Waiter) BY Zenon DEF TypeOK, ReactorType
<1>2. registry[fd] # <<>> => Tail(registry[fd]) \in Seq(Waiter)
  BY <1>1, SeqFacts, Zenon
<1>3. registry[fd] # <<>> /\ Tail(registry[fd]) # <<>> => Head(Tail(registry[fd])) \in Waiter
  BY <1>2, SeqFacts, Zenon
<1>4. registry' \in [Fds -> Seq(Waiter)]
  BY <1>1, <1>2, Zenon DEF PopFront, TypeOK, ReactorType
<1>5. polled' \in [Fds -> Waiter \cup {NoWaiter}]
  BY <1>3, ZenonT(30) DEF PopFront, register, TypeOK, ReactorType
<1>6. edges' \subseteq Fds /\ pc' \in Labels
  BY Zenon DEF PopFront, register, TypeOK, ReactorType, TickType
<1>7. QED BY <1>4, <1>5, <1>6, Zenon

\* Resuming a fiber keeps the types.
LEMMA TypeResume ==
    ASSUME TypeOK, NEW tok \in Nat, resume_fiber(tok), UNCHANGED <<resume_token, batches>>
    PROVE  /\ timers' \subseteq Timer /\ TablesType' /\ FibersType'
           /\ pc' \in Labels /\ unrescued' \in BOOLEAN
<1> USE SchedulerAssumption
<1>1. NoFrame \in Frame BY Zenon DEF NoFrame, Frame
<1>2. timers' \subseteq Timer BY ZenonT(30) DEF resume_fiber, EndBlock, TypeOK, ReactorType
<1>3. TablesType'
  <2>1. /\ join_waiters' \subseteq join_waiters /\ resume_tokens' \subseteq resume_tokens
    BY Zenon DEF resume_fiber, EndBlock
  <2>2. token_map' \in [Fibers -> Nat]
    <3>1. \/ token_map' = token_map
          \/ \E f \in Fibers : token_map' = [token_map EXCEPT ![f] = 0]
      BY Zenon DEF resume_fiber, EndBlock
    <3>2. token_map \in [Fibers -> Nat] BY Zenon DEF TypeOK, TablesType
    <3>3. QED BY <3>1, <3>2
  <2>3. QED BY <2>1, <2>2, Zenon DEF TypeOK, TablesType
<1>4. FibersType'
  <2>1. \/ UNCHANGED fibers
        \/ \E f \in Fibers :
             /\ frame' = [frame EXCEPT ![f] = NoFrame]
             /\ \/ /\ fiber' = [fiber EXCEPT ![f] = "done"]
                   /\ UNCHANGED <<parent, current>>
                \/ /\ fiber' = [fiber EXCEPT ![f] = "running"]
                   /\ parent' = [parent EXCEPT ![f] = NoFiber]
                   /\ current' = f
    BY Zenon DEF resume_fiber, EndBlock
  <2>2. QED BY <1>1, <2>1 DEF TypeOK, FibersType
<1>5. pc' \in Labels BY Zenon DEF resume_fiber, EndBlock, TypeOK, TickType
<1>6. unrescued' \in BOOLEAN
  <2>1. unrescued' = FALSE \/ unrescued' = unrescued BY Zenon DEF resume_fiber, EndBlock
  <2>2. QED BY <2>1, Zenon DEF TypeOK, TickType
<1>7. QED BY <1>2, <1>3, <1>4, <1>5, <1>6, Zenon

\* The steps of the root fiber keep the types.
LEMMA TypeRootStep ==
    ASSUME TypeOK, Close \/ TickStep \/ PollReturns \/ PollInterrupted
    PROVE  TypeOK'
<1> USE SchedulerAssumption
<1>1. CASE \/ Close \/ CheckWork \/ FetchDueEvents \/ PollInterrupted \/ EventsDone
           \/ TimersDone \/ EventsResumed \/ TimersResumed
  <2>1. pc' \in Labels /\ UNCHANGED locals
    BY <1>1, Zenon DEF Close, CheckWork, FetchDueEvents, PollInterrupted, EventsDone, TimersDone,
                EventsResumed, TimersResumed
  <2>2. TickType' BY <2>1, Zenon DEF TypeOK, TickType
  <2>3. QED
    BY <1>1, <2>2, TypeStable, Zenon
    DEF TypeOK, Close, CheckWork, FetchDueEvents, PollInterrupted, EventsDone, TimersDone,
        EventsResumed, TimersResumed
<1>2. CASE PollReturns
  <2>1. woken' \in BOOLEAN BY <1>2, Zenon DEF PollReturns
  <2>2. edges' \subseteq Fds BY <1>2, Zenon DEF PollReturns, TypeOK, ReactorType
  <2>3. ReactorType' BY <1>2, <2>1, <2>2, Zenon DEF PollReturns, TypeOK, ReactorType
  <2>4. \A fd \in ReadyFds : polled[fd].token \in Nat
    <3>1. \A fd \in Fds : polled[fd] \in Waiter \cup {NoWaiter} BY Zenon DEF TypeOK, ReactorType
    <3>2. \A w \in Waiter \cup {NoWaiter} : w.token \in Nat BY DEF Waiter, NoWaiter
    <3>3. ReadyFds \subseteq Fds BY Zenon DEF ReadyFds, TypeOK, ReactorType
    <3>4. QED BY <3>1, <3>2, <3>3, Zenon
  <2>5. events' \subseteq Nat BY <1>2, <2>4, Zenon DEF PollReturns
  <2>6. TickType' BY <1>2, <2>5, Zenon DEF PollReturns, TypeOK, TickType
  <2>7. QED BY <1>2, <2>3, <2>6, TypeStable, Zenon DEF PollReturns, TypeOK
<1>3. CASE HandleEvent
  <2>1. PICK tok \in events :
          /\ events' = events \ {tok}
          /\ \/ UNCHANGED <<io_waiters, registry, polled, edges, due_events, pc>>
             \/ \E w \in io_waiters :
                  /\ io_waiters' = io_waiters \ {w}
                  /\ due_events' = Append(due_events, tok)
                  /\ PopFront(w.fd, NoWaiter)
    BY <1>3, Zenon DEF HandleEvent, deregistered
  <2>2. tok \in Nat /\ events' \subseteq Nat BY <2>1, Zenon DEF TypeOK, TickType
  <2>3. CASE UNCHANGED <<io_waiters, registry, polled, edges, due_events, pc>>
    <3>1. TickType' BY <1>3, <2>2, <2>3, Zenon DEF HandleEvent, TypeOK, TickType
    <3>2. QED BY <1>3, <2>3, <3>1, TypeStable, Zenon DEF HandleEvent, TypeOK
  <2>4. ASSUME NEW w \in io_waiters,
               io_waiters' = io_waiters \ {w},
               due_events' = Append(due_events, tok),
               PopFront(w.fd, NoWaiter)
        PROVE  TypeOK'
    <3>1. w.fd \in Fds BY Zenon DEF TypeOK, ReactorType, Waiter
    <3>2. /\ registry' \in [Fds -> Seq(Waiter)] /\ polled' \in [Fds -> Waiter \cup {NoWaiter}]
          /\ edges' \subseteq Fds /\ pc' \in Labels
      BY <2>4, <3>1, TypePopFront, Zenon
    <3>3. ReactorType' BY <1>3, <2>4, <3>2, Zenon DEF HandleEvent, TypeOK, ReactorType
    <3>4. due_events' \in Seq(Nat) BY <2>2, <2>4, SeqFacts, Zenon DEF TypeOK, TickType
    <3>5. TickType' BY <1>3, <2>2, <3>2, <3>4, Zenon DEF HandleEvent, TypeOK, TickType
    <3>6. QED BY <1>3, <3>3, <3>5, TypeStable, Zenon DEF HandleEvent, TypeOK
  <2>5. QED BY <2>1, <2>3, <2>4, Zenon
<1>4. CASE PopDueTimer
  <2>1. PICK t \in timers :
          /\ due_timers' = Append(due_timers, t.token)
          /\ \/ UNCHANGED <<io_waiters, registry, polled, edges, pc>>
             \/ \E w \in io_waiters : /\ io_waiters' = io_waiters \ {w}
                                      /\ PopFront(w.fd, polled[w.fd])
          /\ timers' \subseteq timers
    BY <1>4, Zenon DEF PopDueTimer
  <2>2. t.token \in Nat BY Zenon DEF TypeOK, ReactorType, Timer
  <2>3. due_timers' \in Seq(Nat) BY <2>1, <2>2, SeqFacts, Zenon DEF TypeOK, TickType
  <2>4. CASE UNCHANGED <<io_waiters, registry, polled, edges, pc>>
    <3>1. ReactorType' BY <1>4, <2>1, <2>4, Zenon DEF PopDueTimer, TypeOK, ReactorType
    <3>2. TickType' BY <1>4, <2>3, <2>4, Zenon DEF PopDueTimer, TypeOK, TickType
    <3>3. QED BY <1>4, <3>1, <3>2, TypeStable, Zenon DEF PopDueTimer, TypeOK
  <2>5. ASSUME NEW w \in io_waiters, io_waiters' = io_waiters \ {w},
               PopFront(w.fd, polled[w.fd])
        PROVE  TypeOK'
    <3>1. w.fd \in Fds /\ polled[w.fd] \in Waiter \cup {NoWaiter}
      BY Zenon DEF TypeOK, ReactorType, Waiter
    <3>2. /\ registry' \in [Fds -> Seq(Waiter)] /\ polled' \in [Fds -> Waiter \cup {NoWaiter}]
          /\ edges' \subseteq Fds /\ pc' \in Labels
      BY <2>5, <3>1, TypePopFront, Zenon
    <3>3. ReactorType' BY <1>4, <2>1, <2>5, <3>2, Zenon DEF PopDueTimer, TypeOK, ReactorType
    <3>4. TickType'
      <4>1. timed_out' \subseteq Fds
        <5>1. io_waiters \subseteq Waiter /\ timed_out \subseteq Fds
          BY Zenon DEF TypeOK, ReactorType, TickType
        <5>2. QED BY <1>4, <5>1, Zenon DEF PopDueTimer, Waiter
      <4>2. QED BY <1>4, <2>3, <3>2, <4>1, Zenon DEF PopDueTimer, TypeOK, TickType
    <3>5. QED BY <1>4, <3>3, <3>4, TypeStable, Zenon DEF PopDueTimer, TypeOK
  <2>6. QED BY <2>1, <2>4, <2>5, Zenon
<1>5. CASE SwitchUnblockBatch
  <2>1. TablesType' BY <1>5 DEF SwitchUnblockBatch, OtherIdx, TypeOK, TablesType
  <2>2. TickType' BY <1>5 DEF SwitchUnblockBatch, TypeOK, TickType
  <2>3. QED BY <1>5, <2>1, <2>2, TypeStable, Zenon DEF SwitchUnblockBatch, TypeOK
<1>6. CASE ResumeEvent
  <2>1. Head(due_events) \in Nat /\ due_events' \in Seq(Nat)
    BY <1>6, SeqFacts, Zenon DEF ResumeEvent, TypeOK, TickType
  <2>2. /\ timers' \subseteq Timer /\ TablesType' /\ FibersType'
        /\ pc' \in Labels /\ unrescued' \in BOOLEAN
    BY <1>6, <2>1, TypeResume, Zenon DEF ResumeEvent
  <2>3. ReactorType' BY <1>6, <2>2, Zenon DEF ResumeEvent, TypeOK, ReactorType
  <2>4. TickType' BY <1>6, <2>1, <2>2, Zenon DEF ResumeEvent, TypeOK, TickType
  <2>5. QED BY <1>6, <2>2, <2>3, <2>4, TypeStable, Zenon DEF ResumeEvent, TypeOK
<1>7. CASE ResumeTimer
  <2>1. Head(due_timers) \in Nat /\ due_timers' \in Seq(Nat)
    BY <1>7, SeqFacts, Zenon DEF ResumeTimer, TypeOK, TickType
  <2>2. /\ timers' \subseteq Timer /\ TablesType' /\ FibersType'
        /\ pc' \in Labels /\ unrescued' \in BOOLEAN
    BY <1>7, <2>1, TypeResume, Zenon DEF ResumeTimer
  <2>3. ReactorType' BY <1>7, <2>2, Zenon DEF ResumeTimer, TypeOK, ReactorType
  <2>4. TickType' BY <1>7, <2>1, <2>2, Zenon DEF ResumeTimer, TypeOK, TickType
  <2>5. QED BY <1>7, <2>2, <2>3, <2>4, TypeStable, Zenon DEF ResumeTimer, TypeOK
<1>8. CASE ResumeUnblocked
  <2>1. 1 - unblock_idx \in {0, 1} /\ Batch \in Seq(Fibers) BY DEF Batch, TypeOK, TablesType
  <2>2. pos \in DOMAIN Batch
    BY <1>8, <2>1, SeqFacts DEF ResumeUnblocked, TypeOK, TickType
  <2> DEFINE f == Batch[pos]
  <2>3. f \in Fibers BY <2>1, <2>2, SeqFacts, Zenon
  <2>4. resume_blocked(f) /\ UNCHANGED <<resume_token, batches>> BY <1>8, Zenon DEF ResumeUnblocked
  <2> HIDE DEF f
  <2>5. /\ timers' \subseteq Timer /\ TablesType' /\ FibersType'
        /\ pc' \in Labels /\ unrescued' \in BOOLEAN
    <3>1. CASE resume_fiber(token_map[f])
      <4>1. token_map[f] \in Nat BY <2>3, Zenon DEF TypeOK, TablesType
      <4>2. QED BY <2>4, <3>1, <4>1, TypeResume, Zenon
    <3>2. CASE /\ fiber' = [fiber EXCEPT ![f] = "running"]
               /\ parent' = [parent EXCEPT ![f] = NoFiber]
               /\ current' = f /\ unrescued' = TRUE
               /\ UNCHANGED <<timers, tables, pc, frame>>
      <4>1. unrescued' \in BOOLEAN BY <3>2, Zenon
      <4>2. FibersType' BY <2>3, <3>2, Zenon DEF TypeOK, FibersType
      <4>3. TablesType' BY <2>4, <3>2, TypeStable, Zenon
      <4>4. QED BY <3>2, <4>1, <4>2, <4>3, Zenon DEF TypeOK, TickType, ReactorType
    <3>3. CASE UNCHANGED <<timers, tables, pc, unrescued, fibers>>
      <4>1. TablesType' /\ FibersType' BY <2>4, <3>3, TypeStable, Zenon
      <4>2. QED BY <3>3, <4>1, Zenon DEF TypeOK, TickType, ReactorType
    <3>4. QED BY <2>4, <3>1, <3>2, <3>3, Zenon DEF resume_blocked
  <2>6. ReactorType' BY <1>8, <2>5, Zenon DEF ResumeUnblocked, TypeOK, ReactorType
  <2>7. TickType' BY <1>8, <2>5 DEF ResumeUnblocked, TypeOK, TickType
  <2>8. QED BY <1>8, <2>5, <2>6, <2>7, TypeStable, Zenon DEF ResumeUnblocked, TypeOK
<1>9. CASE UnblockedResumed
  <2>1. TablesType' BY <1>9 DEF UnblockedResumed, TypeOK, TablesType
  <2>2. TickType' BY <1>9, Zenon DEF UnblockedResumed, TypeOK, TickType
  <2>3. QED BY <1>9, <2>1, <2>2, TypeStable, Zenon DEF UnblockedResumed, TypeOK
<1>10. QED
  BY <1>1, <1>2, <1>3, <1>4, <1>5, <1>6, <1>7, <1>8, <1>9, Zenon DEF TickStep

\* Every step keeps the types.
LEMMA TypeNext == TypeOK /\ [Next]_vars => TypeOK'
<1> SUFFICES ASSUME TypeOK, [Next]_vars PROVE TypeOK'
  BY Zenon
<1>1. CASE UNCHANGED vars BY <1>1, TypeStable, Zenon DEF vars, TypeOK
<1>2. CASE Next BY <1>2, TypeFiberStep, TypeEnvStep, TypeRootStep, Zenon DEF Next
<1>3. QED BY <1>1, <1>2, Zenon

\* TypeOK holds in every state of the scheduler.
THEOREM TypeCorrect == Spec => []TypeOK
<1>1. QED BY TypeInit, TypeNext, PTL DEF Spec

\* A step that starts and ends no wait.
Quiet ==
    /\ UNCHANGED <<tables, frame>>
    /\ resume_token' \in Nat /\ resume_token <= resume_token'
    /\ \A f \in Fibers : fiber'[f] = "waiting" <=> fiber[f] = "waiting"

\* A step in which a fiber blocks on a fresh token.
Blocks(f, timeout, io, helper) ==
    /\ Running(f)
    /\ resume_token' = resume_token + 1
    /\ block(f, resume_token', timeout, io, helper)

\* A step in which the fiber of a token, if it has one, is resumed.
Resumes(tok) == resume_fiber(tok) /\ UNCHANGED resume_token

\* Every step is quiet, blocks one fiber or resumes one.
LEMMA StepKinds ==
    ASSUME TypeOK, [Next]_vars
    PROVE  \/ Quiet
           \/ \E f \in Fibers, timeout \in Until, io \in BOOLEAN,
                 helper \in Threads \cup {NoThread} : Blocks(f, timeout, io, helper)
           \/ \E tok \in Nat : Resumes(tok)
<1> USE SchedulerAssumption
<1> DEFINE SomeBlock == \E f \in Fibers, timeout \in Until, io \in BOOLEAN,
                           helper \in Threads \cup {NoThread} : Blocks(f, timeout, io, helper)
<1>0. resume_token \in Nat /\ fiber \in [Fibers -> {"new", "running", "waiting", "suspended", "done"}]
  BY Zenon DEF TypeOK, TablesType, FibersType
<1>1. ASSUME UNCHANGED <<tables, frame, fiber, resume_token>> PROVE Quiet
  BY <1>0, <1>1 DEF Quiet
<1>2. ASSUME NEW f \in Fibers, Schedule(f) \/ CreateFiber(f) \/ RawYield(f) \/ Finish(f) \/ Raise(f)
      PROVE  Quiet
  <2>1. resume_token' = resume_token /\ UNCHANGED <<tables, frame>>
    BY <1>2, Zenon DEF Schedule, CreateFiber, RawYield, Finish, Raise
  <2>2. \A g \in Fibers : fiber'[g] = "waiting" <=> fiber[g] = "waiting"
    BY <1>0, <1>2, Zenon DEF Schedule, CreateFiber, RawYield, Finish, Raise, Leave, Running
  <2>3. resume_token <= resume_token' BY <1>0, <2>1
  <2>4. QED BY <1>0, <2>1, <2>2, <2>3, Zenon DEF Quiet
<1>3. ASSUME NEW f \in Fibers, IoWaitReady(f) \/ IoWaitRejected(f) \/ IoWaitError(f) PROVE Quiet
  BY <1>0, <1>3 DEF Quiet, IoWaitReady, IoWaitRejected, IoWaitError, NewToken
<1>4. ASSUME NEW f \in Fibers, UnblockFromFiber(f) PROVE Quiet
  BY <1>1, <1>4, Zenon DEF UnblockFromFiber
<1>5. ASSUME NEW f \in Fibers, Block(f) \/ Yield(f) PROVE SomeBlock
  <2>1. PICK timeout \in Until : Blocks(f, timeout, FALSE, NoThread)
    BY <1>5, Zenon DEF Block, Yield, NewToken, Blocks
  <2>2. QED BY <2>1, Zenon
<1>6. ASSUME NEW f \in Fibers, IoWait(f) PROVE SomeBlock
  <2>1. PICK timeout \in Until : Blocks(f, timeout, TRUE, NoThread)
    BY <1>6, Zenon DEF IoWait, NewToken, Blocks
  <2>2. QED BY <2>1, Zenon
<1>7. ASSUME NEW f \in Fibers, RunBlockingInThread(f) PROVE SomeBlock
  <2>1. PICK t \in Threads : Blocks(f, NoTimeout, FALSE, t)
    BY <1>7, Zenon DEF RunBlockingInThread, NewToken, Blocks
  <2>2. QED BY <2>1, Zenon
<1> HIDE DEF SomeBlock
<1>8. ASSUME \/ UNCHANGED vars
             \/ Close \/ CheckWork \/ FetchDueEvents \/ PollReturns \/ PollInterrupted
             \/ EventsDone \/ TimersDone \/ SwitchUnblockBatch
             \/ EventsResumed \/ UnblockedResumed \/ TimersResumed
      PROVE  Quiet
  BY <1>1, <1>8, Zenon
  DEF vars, Close, CheckWork, FetchDueEvents, PollReturns, PollInterrupted,
      EventsDone, TimersDone, SwitchUnblockBatch, EventsResumed, UnblockedResumed, TimersResumed
<1>9. ASSUME HandleEvent \/ PopDueTimer PROVE Quiet
  BY <1>1, <1>9, Zenon DEF HandleEvent, PopDueTimer
<1>10. ASSUME \/ \E t \in Threads : ThreadStep(t)
              \/ \E fd \in Fds : FdReady(fd) \/ FdDrained(fd)
              \/ Advance
       PROVE  Quiet
  BY <1>1, <1>10, Zenon DEF ThreadStep, ThreadUnblock, ThreadWorkDone, wake, ThreadEnds,
                     FdReady, FdDrained, Advance
<1>11. ASSUME ResumeEvent PROVE \E tok \in Nat : Resumes(tok)
  <2>1. Head(due_events) \in Nat BY <1>11, SeqFacts, Zenon DEF ResumeEvent, TypeOK, TickType
  <2>2. QED BY <1>11, <2>1, Zenon DEF ResumeEvent, Resumes
<1>12. ASSUME ResumeTimer PROVE \E tok \in Nat : Resumes(tok)
  <2>1. Head(due_timers) \in Nat BY <1>12, SeqFacts, Zenon DEF ResumeTimer, TypeOK, TickType
  <2>2. QED BY <1>12, <2>1, Zenon DEF ResumeTimer, Resumes
<1>13. ASSUME ResumeUnblocked PROVE Quiet \/ \E tok \in Nat : Resumes(tok)
  <2>1. PICK f \in Fibers : resume_blocked(f) /\ UNCHANGED <<resume_token, batches>>
    <3>1. Batch \in Seq(Fibers) /\ pos \in Nat \ {0}
      BY DEF Batch, TypeOK, TablesType, TickType
    <3>2. pos \in DOMAIN Batch BY <1>13, <3>1, SeqFacts DEF ResumeUnblocked
    <3>3. Batch[pos] \in Fibers BY <3>1, <3>2, SeqFacts, Zenon
    <3>4. QED BY <1>13, <3>3, Zenon DEF ResumeUnblocked
  <2>2. CASE resume_fiber(token_map[f])
    <3>1. token_map[f] \in Nat BY Zenon DEF TypeOK, TablesType
    <3>2. QED BY <2>1, <2>2, <3>1, Zenon DEF Resumes
  <2>3. CASE /\ fiber[f] = "suspended" /\ fiber' = [fiber EXCEPT ![f] = "running"]
             /\ UNCHANGED <<timers, tables, pc, frame>>
    BY <1>0, <2>1, <2>3 DEF Quiet
  <2>4. CASE UNCHANGED <<timers, tables, pc, unrescued, fibers>>
    BY <1>1, <2>1, <2>4, Zenon
  <2>5. QED BY <2>1, <2>2, <2>3, <2>4, Zenon DEF resume_blocked
<1>14. CASE Next
  BY <1>2, <1>3, <1>4, <1>5, <1>6, <1>7, <1>8, <1>9, <1>10, <1>11, <1>12, <1>13, <1>14, Zenon
  DEF Next, FiberStep, TickStep, SomeBlock
<1>15. QED BY <1>8, <1>14, Zenon

\* The tables are empty at first.
LEMMA BookkeepingInit == Init => WaitBookkeeping
BY DEF Init, WaitBookkeeping, NoFrame

\* block books the wait of f under a token that nobody else waits on.
LEMMA BookkeepingBlock ==
    ASSUME TypeOK, WaitBookkeeping, NEW f \in Fibers, NEW timeout \in Until,
           NEW io \in BOOLEAN, NEW helper \in Threads \cup {NoThread},
           Blocks(f, timeout, io, helper)
    PROVE  WaitBookkeeping'
<1> DEFINE k == resume_token + 1
<1>1. k \in Nat /\ k > resume_token /\ resume_token' = k BY DEF Blocks, TypeOK, TablesType
<1>2. f \notin join_waiters BY Zenon DEF Blocks, Running, WaitBookkeeping
<1>3. /\ join_waiters' = join_waiters \cup {f}
      /\ resume_tokens' = resume_tokens \cup {<<k, f>>}
      /\ token_map' = [token_map EXCEPT ![f] = k]
      /\ fiber' = [fiber EXCEPT ![f] = "waiting"]
      /\ frame'[f].token = k
      /\ \A g \in Fibers \ {f} : frame'[g] = frame[g]
  <2>1. block(f, k, timeout, io, helper) BY <1>1, Zenon DEF Blocks
  <2>2. frame \in [Fibers -> Frame] BY Zenon DEF TypeOK, FibersType
  <2> HIDE DEF k
  <2>3. frame'[f].token = k /\ \A g \in Fibers \ {f} : frame'[g] = frame[g]
    BY <2>1, <2>2, Zenon DEF block
  <2>4. QED BY <2>1, <2>3, Zenon DEF block, Leave
<1> HIDE DEF k
<1>4. join_waiters' = {g \in Fibers : fiber'[g] = "waiting"}
  BY <1>3 DEF WaitBookkeeping, TypeOK, FibersType
<1>5. resume_tokens' = {<<frame'[g].token, g>> : g \in join_waiters'}
  <2>1. \A g \in join_waiters : g \in Fibers \ {f} BY <1>2, Zenon DEF WaitBookkeeping
  <2>2. QED BY <1>3, <2>1 DEF WaitBookkeeping
<1>6. \A g \in Fibers : token_map'[g] = frame'[g].token
  BY <1>3, Zenon DEF WaitBookkeeping, TypeOK, TablesType
<1>7. \A g \in Fibers : \/ g \in join_waiters' /\ frame'[g].token \in 1 .. resume_token'
                        \/ g \notin join_waiters' /\ frame'[g] = NoFrame
  <2>1. k \in 1 .. k /\ \A tok \in 1 .. resume_token : tok \in 1 .. k
    BY <1>1 DEF TypeOK, TablesType
  <2>2. ASSUME NEW g \in Fibers, g # f
        PROVE  \/ g \in join_waiters' /\ frame'[g].token \in 1 .. k
               \/ g \notin join_waiters' /\ frame'[g] = NoFrame
    <3>1. frame'[g] = frame[g] /\ (g \in join_waiters' <=> g \in join_waiters) BY <1>3, <2>2, Zenon
    <3>2. QED BY <2>1, <3>1, Zenon DEF WaitBookkeeping
  <2>3. f \in join_waiters' /\ frame'[f].token \in 1 .. k BY <1>3, <2>1, Zenon
  <2>4. QED BY <1>1, <2>2, <2>3, Zenon
<1>8. \A g, h \in join_waiters' : frame'[g].token = frame'[h].token => g = h
  <2>1. \A g \in join_waiters : /\ g \in Fibers \ {f} /\ frame'[g] = frame[g]
                               /\ frame[g].token \in 1 .. resume_token
    BY <1>2, <1>3, Zenon DEF WaitBookkeeping
  <2>2. \A g \in join_waiters : frame'[g].token # k
    <3>1. \A tok \in 1 .. resume_token : tok # k BY <1>1 DEF TypeOK, TablesType
    <3>2. QED BY <2>1, <3>1, Zenon
  <2>3. \A g, h \in join_waiters : frame[g].token = frame[h].token => g = h
    BY Zenon DEF WaitBookkeeping
  <2>4. QED BY <1>3, <2>1, <2>2, <2>3
<1>9. QED BY <1>4, <1>5, <1>6, <1>7, <1>8, Zenon DEF WaitBookkeeping

\* Resuming clears the wait everywhere.
LEMMA BookkeepingResume ==
    ASSUME TypeOK, WaitBookkeeping, NEW tok \in Nat, Resumes(tok)
    PROVE  WaitBookkeeping'
<1>1. CASE UNCHANGED <<tables, fibers>>
  BY <1>1 DEF Resumes, WaitBookkeeping
<1>2. ASSUME NEW f \in Fibers,
             <<tok, f>> \in resume_tokens,
             resume_tokens' = resume_tokens \ {<<tok, f>>},
             token_map' = [token_map EXCEPT ![f] = NoToken],
             join_waiters' = join_waiters \ {f},
             frame' = [frame EXCEPT ![f] = NoFrame],
             fiber'[f] # "waiting",
             \A g \in Fibers \ {f} : fiber'[g] = fiber[g]
      PROVE  WaitBookkeeping'
  <2>1. frame[f].token = tok /\ f \in join_waiters
    <3>1. PICK g \in join_waiters : <<tok, f>> = <<frame[g].token, g>>
      BY <1>2, Zenon DEF WaitBookkeeping
    <3>2. QED BY <3>1, Zenon
  <2>2. /\ frame'[f] = NoFrame /\ frame'[f].token = 0
        /\ \A g \in Fibers \ {f} : frame'[g] = frame[g]
    BY <1>2, Zenon DEF TypeOK, FibersType, NoFrame
  <2>3. join_waiters' = {g \in Fibers : fiber'[g] = "waiting"}
    BY <1>2, ZenonT(30) DEF WaitBookkeeping
  <2>4. resume_tokens' = {<<frame'[g].token, g>> : g \in join_waiters'}
    <3>1. \A g \in join_waiters' : g \in Fibers \ {f} BY <1>2, Zenon DEF WaitBookkeeping
    <3>2. QED BY <1>2, <2>1, <2>2, <3>1 DEF WaitBookkeeping
  <2>5. \A g \in Fibers : token_map'[g] = frame'[g].token
    BY <1>2, <2>2, ZenonT(30) DEF WaitBookkeeping, TypeOK, TablesType
  <2>6. \A g \in Fibers : \/ g \in join_waiters' /\ frame'[g].token \in 1 .. resume_token'
                          \/ g \notin join_waiters' /\ frame'[g] = NoFrame
    BY <1>2, <2>2, Zenon DEF WaitBookkeeping, Resumes
  <2>7. \A g, h \in join_waiters' : frame'[g].token = frame'[h].token => g = h
    BY <1>2, <2>2 DEF WaitBookkeeping
  <2>8. QED BY <2>3, <2>4, <2>5, <2>6, <2>7, Zenon DEF WaitBookkeeping
<1>3. QED
  <2>1. fiber \in [Fibers -> {"new", "running", "waiting", "suspended", "done"}]
    BY Zenon DEF TypeOK, FibersType
  <2>2. QED BY <1>1, <1>2, <2>1, Zenon DEF Resumes, resume_fiber, EndBlock

\* Every step keeps the tables in agreement.
LEMMA BookkeepingNext == TypeOK /\ WaitBookkeeping /\ [Next]_vars => WaitBookkeeping'
<1> SUFFICES ASSUME TypeOK, WaitBookkeeping, [Next]_vars PROVE WaitBookkeeping'
  BY Zenon
<1>1. CASE Quiet
  <2>1. {f \in Fibers : fiber'[f] = "waiting"} = {f \in Fibers : fiber[f] = "waiting"}
    BY <1>1, Zenon DEF Quiet
  <2>2. QED BY <1>1, <2>1 DEF Quiet, WaitBookkeeping, TypeOK, TablesType
<1>2. QED BY <1>1, StepKinds, BookkeepingBlock, BookkeepingResume, Zenon

\* WaitBookkeeping holds in every state: the tables block fills and clears
\* never disagree about a wait.
THEOREM WaitBookkeepingCorrect == Spec => []WaitBookkeeping
<1>1. Init => TypeOK /\ WaitBookkeeping BY TypeInit, BookkeepingInit, Zenon
<1>2. TypeOK /\ WaitBookkeeping /\ [Next]_vars => (TypeOK /\ WaitBookkeeping)'
  BY TypeNext, BookkeepingNext, Zenon
<1>3. QED BY <1>1, <1>2, PTL DEF Spec

\* What the elements of a queue are after an append or a removal at the front.
LEMMA RangeFacts ==
    ASSUME NEW S, NEW s \in Seq(S)
    PROVE  /\ s # <<>> => Head(s) \in Range(s) /\ Range(Tail(s)) \subseteq Range(s)
           /\ s # <<>> => \A x \in Range(s) : x = Head(s) \/ x \in Range(Tail(s))
           /\ \A x \in S : Range(Append(s, x)) = Range(s) \cup {x}
<1>1. DOMAIN s = 1 .. Len(s) /\ Len(s) \in Nat BY LenProperties, Zenon
<1>2. ASSUME s # <<>>
      PROVE  /\ Head(s) \in Range(s) /\ Range(Tail(s)) \subseteq Range(s)
             /\ \A x \in Range(s) : x = Head(s) \/ x \in Range(Tail(s))
  <2>1. /\ Tail(s) \in Seq(S) /\ Len(Tail(s)) = Len(s) - 1
        /\ \A i \in 1 .. Len(Tail(s)) : Tail(s)[i] = s[i + 1]
    BY <1>2, HeadTailProperties, Zenon
  <2>2. DOMAIN Tail(s) = 1 .. Len(Tail(s)) /\ Len(Tail(s)) \in Nat BY <2>1, LenProperties, Zenon
  <2>3. Len(s) >= 1 /\ Head(s) = s[1] BY <1>1, <2>1, <2>2
  <2>4. Head(s) \in Range(s) BY <1>1, <2>3 DEF Range
  <2>5. Range(Tail(s)) \subseteq Range(s) BY <1>1, <2>1, <2>2 DEF Range
  <2>6. ASSUME NEW i \in DOMAIN s, i # 1 PROVE s[i] \in Range(Tail(s))
    <3>1. i - 1 \in DOMAIN Tail(s) /\ Tail(s)[i - 1] = s[i]
      BY <1>1, <2>1, <2>2, <2>6
    <3>2. QED BY <3>1, Zenon DEF Range
  <2>7. QED BY <1>1, <2>3, <2>4, <2>5, <2>6, Zenon DEF Range
<1>3. ASSUME NEW x \in S PROVE Range(Append(s, x)) = Range(s) \cup {x}
  <2>1. /\ Append(s, x) \in Seq(S) /\ Len(Append(s, x)) = Len(s) + 1
        /\ \A i \in 1 .. Len(s) : Append(s, x)[i] = s[i]
        /\ Append(s, x)[Len(s) + 1] = x
    BY AppendProperties
  <2>2. DOMAIN Append(s, x) = 1 .. (Len(s) + 1) BY <2>1, LenProperties, Zenon
  <2>3. \A i \in DOMAIN Append(s, x) : i \in DOMAIN s \/ i = Len(s) + 1 BY <1>1, <2>2
  <2>4. \A i \in DOMAIN s : i \in DOMAIN Append(s, x) BY <1>1, <2>2
  <2>5. Len(s) + 1 \in DOMAIN Append(s, x) BY <1>1, <2>2
  <2>6. QED BY <1>1, <2>1, <2>3, <2>4, <2>5, Zenon DEF Range
<1>4. QED BY <1>2, <1>3, Zenon

\* The tokens of a queue after an append.
LEMMA RangeAppend == \A s \in Seq(Nat), x \in Nat : Range(Append(s, x)) = Range(s) \cup {x}
<1> SUFFICES ASSUME NEW s \in Seq(Nat), NEW x \in Nat
             PROVE  Range(Append(s, x)) = Range(s) \cup {x}
  BY Zenon
<1>1. QED BY RangeFacts, ZenonT(30)
=============================================================================
