------------------------- MODULE SchedulerWaitProofs -------------------------
(* Waits end for a reason, and no wait is forgotten: WakeSources,             *)
(* WakeJustified, TimeoutArmed, WaiterKept and ExitClean hold of every        *)
(* instance of Scheduler.  So do RegistryAgrees and ReactorSound, which       *)
(* except the fds on which a wait has timed out.                              *)
EXTENDS SchedulerProofs

USE DEF NoToken, reactor, tables, batches, locals, fibers, env, Until

\* There are no wake sources at first.
LEMMA SourcesInit == Init => WakeSources
BY DEF Init, WakeSources, Range

\* A step that starts no wait and adds no source keeps WakeSources.
LEMMA SourcesKept ==
    ASSUME TypeOK, TypeOK', WakeSources,
           \A f \in Fibers : fiber'[f] = "waiting" =>
               fiber[f] = "waiting" /\ frame'[f] = frame[f],
           resume_token <= resume_token', now <= now',
           timers' \subseteq timers, io_waiters' \subseteq io_waiters,
           Range(due_timers') \subseteq Range(due_timers),
           Range(due_events') \subseteq Range(due_events)
    PROVE  WakeSources'
<1>1. \A tok \in 1 .. resume_token : tok \in 1 .. resume_token'
  BY DEF TypeOK, TablesType
<1>2. \A f \in Fibers : \A tok : Waiting(f, tok)' => Waiting(f, tok) /\ frame'[f] = frame[f]
  BY Zenon DEF Waiting
<1>3. \A f \in Fibers : frame[f].until # NoTimeout /\ frame[f].until <= now => frame[f].until <= now'
  <2>1. \A f \in Fibers : frame[f].until # NoTimeout => frame[f].until \in Nat
    BY Zenon DEF TypeOK, FibersType, Frame
  <2>2. now \in Nat /\ now' \in Nat BY Zenon DEF TypeOK, EnvType
  <2>3. QED BY <2>1, <2>2
<1>4. QED BY <1>1, <1>2, <1>3, ZenonT(30) DEF WakeSources

\* A fiber that blocks is the only one waiting on its token.
LEMMA SourcesBlock ==
    ASSUME TypeOK, TypeOK', WakeSources, WaitBookkeeping,
           NEW f \in Fibers, NEW timeout \in Until,
           NEW io \in BOOLEAN, NEW helper \in Threads \cup {NoThread},
           Blocks(f, timeout, io, helper),
           UNCHANGED <<due_timers, due_events, now>>,
           \A w \in io_waiters' \ io_waiters : io /\ w.token = resume_token + 1
    PROVE  WakeSources'
<1> USE SchedulerAssumption
<1> DEFINE k == resume_token + 1
<1>1. k \in Nat /\ k > resume_token /\ resume_token' = k /\ resume_token \in Nat
  BY DEF Blocks, TypeOK, TablesType
<1>2. block(f, k, timeout, io, helper) BY <1>1, Zenon DEF Blocks
<1>3. /\ frame'[f].token = k /\ frame'[f].io = io
      /\ timeout # NoTimeout => frame'[f].until = now + timeout
      /\ \A g \in Fibers \ {f} : frame'[g] = frame[g] /\ fiber'[g] = fiber[g]
  <2>1. frame \in [Fibers -> Frame] BY Zenon DEF TypeOK, FibersType
  <2>2. fiber \in [Fibers -> {"new", "running", "waiting", "suspended", "done"}]
    BY Zenon DEF TypeOK, FibersType
  <2> HIDE DEF k
  <2>3. QED BY <1>2, <2>1, <2>2, Zenon DEF block, Leave
<1> HIDE DEF k
<1>4. \A g \in Fibers, tok \in 1 .. resume_token :
         Waiting(g, tok)' => Waiting(g, tok) /\ frame'[g] = frame[g]
  BY <1>1, <1>3 DEF Waiting
<1>5. \A g \in Fibers : fiber'[g] = "waiting" /\ frame'[g].token = k => g = f
  <2>1. ASSUME NEW g \in Fibers \ {f}, fiber'[g] = "waiting", frame'[g].token = k PROVE FALSE
    <3>1. fiber[g] = "waiting" /\ frame[g].token = k BY <1>3, <2>1, Zenon
    <3>2. frame[g].token \in 1 .. resume_token BY <3>1, Zenon DEF WaitBookkeeping
    <3>3. QED BY <1>1, <3>1, <3>2
  <2>2. QED BY <2>1, Zenon
<1>6. \A tok \in 1 .. resume_token : tok \in 1 .. resume_token' BY <1>1
<1>7. k \in 1 .. resume_token' BY <1>1
<1>8. \A t \in timers' : /\ t.token \in 1 .. resume_token'
                         /\ \A g \in Fibers : Waiting(g, t.token)' => frame'[g].until = t.at
  <2>1. \A t \in timers' : \/ t \in timers
                           \/ timeout # NoTimeout /\ t = [at |-> now + timeout, token |-> k]
    BY <1>2, Zenon DEF block, start_timer
  <2>2. ASSUME NEW t \in timers
        PROVE  /\ t.token \in 1 .. resume_token'
               /\ \A g \in Fibers : Waiting(g, t.token)' => frame'[g].until = t.at
    <3>1. t.token \in 1 .. resume_token BY Zenon DEF WakeSources
    <3>2. QED BY <1>4, <1>6, <3>1, Zenon DEF WakeSources
  <2>3. ASSUME NEW t, timeout # NoTimeout, t = [at |-> now + timeout, token |-> k]
        PROVE  /\ t.token \in 1 .. resume_token'
               /\ \A g \in Fibers : Waiting(g, t.token)' => frame'[g].until = t.at
    BY <1>3, <1>5, <1>7, <2>3, Zenon DEF Waiting
  <2>4. QED BY <2>1, <2>2, <2>3, Zenon
<1>9. \A w \in io_waiters' : /\ w.token \in 1 .. resume_token'
                             /\ \A g \in Fibers : Waiting(g, w.token)' => frame'[g].io
  <2>1. ASSUME NEW w \in io_waiters
        PROVE  /\ w.token \in 1 .. resume_token'
               /\ \A g \in Fibers : Waiting(g, w.token)' => frame'[g].io
    <3>1. w.token \in 1 .. resume_token BY Zenon DEF WakeSources
    <3>2. QED BY <1>4, <1>6, <3>1, Zenon DEF WakeSources
  <2>2. ASSUME NEW w \in io_waiters' \ io_waiters
        PROVE  /\ w.token \in 1 .. resume_token'
               /\ \A g \in Fibers : Waiting(g, w.token)' => frame'[g].io
    <3>1. io /\ w.token = k BY Zenon DEF k
    <3>2. QED BY <1>3, <1>5, <1>7, <3>1, Zenon DEF Waiting
  <2>3. QED BY <2>1, <2>2, Zenon
<1>10. \A tok \in Range(due_timers') :
         /\ tok \in 1 .. resume_token'
         /\ \A g \in Fibers : Waiting(g, tok)' =>
              frame'[g].until # NoTimeout /\ frame'[g].until <= now'
  BY <1>4, <1>6, Zenon DEF WakeSources
<1>11. \A tok \in Range(due_events') :
         /\ tok \in 1 .. resume_token'
         /\ \A g \in Fibers : Waiting(g, tok)' => frame'[g].io
  BY <1>4, <1>6, Zenon DEF WakeSources
<1>12. QED BY <1>8, <1>9, <1>10, <1>11, Zenon DEF WakeSources

\* Every step keeps WakeSources.
LEMMA SourcesNext ==
    ASSUME TypeOK, TypeOK', WaitBookkeeping, WakeSources, [Next]_vars
    PROVE  WakeSources'
<1> USE SchedulerAssumption
<1>0. /\ resume_token \in Nat /\ now \in Nat
      /\ fiber \in [Fibers -> {"new", "running", "waiting", "suspended", "done"}]
      /\ due_events \in Seq(Nat) /\ due_timers \in Seq(Nat)
  BY Zenon DEF TypeOK, TablesType, EnvType, FibersType, TickType
<1>1. ASSUME UNCHANGED <<timers, io_waiters, due_timers, due_events, frame>>,
             \A f \in Fibers : fiber'[f] = "waiting" => fiber[f] = "waiting",
             resume_token <= resume_token', now <= now'
      PROVE  WakeSources'
  BY <1>1, SourcesKept, Zenon
<1>2. ASSUME UNCHANGED <<timers, io_waiters, due_timers, due_events, fiber, frame,
                         resume_token, now>>
      PROVE  WakeSources'
  BY <1>0, <1>1, <1>2
<1>3. CASE UNCHANGED vars BY <1>2, <1>3, Zenon DEF vars
<1>4. ASSUME NEW f \in Fibers, Schedule(f) \/ CreateFiber(f) \/ FiberStep(f)
      PROVE  WakeSources'
  <2>1. CASE Schedule(f) \/ CreateFiber(f) \/ RawYield(f) \/ Finish(f) \/ Raise(f)
    <3>1. /\ UNCHANGED <<timers, io_waiters, due_timers, due_events, frame, resume_token, now>>
          /\ \E state \in {"running", "suspended", "done"} :
               fiber' = [fiber EXCEPT ![f] = state]
      BY <2>1, Zenon DEF Schedule, CreateFiber, RawYield, Finish, Raise, Leave
    <3>2. \A g \in Fibers : fiber'[g] = "waiting" => fiber[g] = "waiting" BY <1>0, <3>1, Zenon
    <3>3. QED BY <1>0, <1>1, <3>1, <3>2
  <2>2. CASE IoWaitReady(f) \/ IoWaitRejected(f)
    <3>1. /\ UNCHANGED <<timers, io_waiters, due_timers, due_events, frame, fiber, now>>
          /\ resume_token' = resume_token + 1
      BY <2>2, Zenon DEF IoWaitReady, IoWaitRejected, NewToken
    <3>2. QED BY <1>0, <1>1, <3>1
  <2>3. CASE UnblockFromFiber(f)
    BY <1>0, <1>1, <2>3 DEF UnblockFromFiber
  <2>4. CASE Block(f) \/ Yield(f)
    <3>1. PICK timeout \in Until : Blocks(f, timeout, FALSE, NoThread)
      BY <2>4, Zenon DEF Block, Yield, NewToken, Blocks
    <3>2. UNCHANGED <<due_timers, due_events, now, io_waiters>> BY <2>4, Zenon DEF Block, Yield
    <3>3. QED BY <3>1, <3>2, SourcesBlock, Zenon
  <2>5. CASE RunBlockingInThread(f)
    <3>1. PICK t \in Threads : Blocks(f, NoTimeout, FALSE, t)
      BY <2>5, Zenon DEF RunBlockingInThread, NewToken, Blocks
    <3>2. UNCHANGED <<due_timers, due_events, now, io_waiters>>
      BY <2>5, Zenon DEF RunBlockingInThread
    <3>3. QED BY <3>1, <3>2, SourcesBlock, Zenon
  <2>6. CASE IoWait(f)
    <3>1. PICK fd \in Fds, mask \in IoEvents, timeout \in Until :
            /\ Blocks(f, timeout, TRUE, NoThread)
            /\ io_waiters' = io_waiters \cup
                 {[fd |-> fd, readiness |-> mask, token |-> resume_token + 1]}
      BY <2>6, Zenon DEF IoWait, NewToken, Blocks, StoreWaiter
    <3>2. \A w \in io_waiters' \ io_waiters : w.token = resume_token + 1
      BY <3>1
    <3>3. UNCHANGED <<due_timers, due_events, now>> BY <2>6, Zenon DEF IoWait
    <3>4. QED BY <3>1, <3>2, <3>3, SourcesBlock, Zenon
  <2>7. CASE IoWaitError(f)
    <3>1. PICK fd \in Fds, mask \in IoEvents :
            io_waiters' = io_waiters \cup
              {[fd |-> fd, readiness |-> mask, token |-> resume_token + 1]}
      BY <2>7, Zenon DEF IoWaitError, NewToken, StoreWaiter
    <3>2. /\ resume_token' = resume_token + 1
          /\ UNCHANGED <<timers, due_timers, due_events, now, fiber, frame>>
      BY <2>7, Zenon DEF IoWaitError, NewToken
    <3>3. ASSUME NEW g \in Fibers PROVE ~Waiting(g, resume_token + 1)
      <4>1. frame[g].token \in 1 .. resume_token \/ frame[g] = NoFrame BY Zenon DEF WaitBookkeeping
      <4>2. frame[g].token # resume_token + 1 BY <1>0, <4>1 DEF NoFrame, NoToken
      <4>3. QED BY <4>2, Zenon DEF Waiting
    <3>4. \A tok \in 1 .. resume_token : tok \in 1 .. resume_token' BY <1>0, <3>2
    <3>5. \A g \in Fibers : \A tok : Waiting(g, tok)' <=> Waiting(g, tok) BY <3>2, Zenon DEF Waiting
    <3>6. \A w \in io_waiters' : /\ w.token \in 1 .. resume_token'
                                 /\ \A g \in Fibers : Waiting(g, w.token)' => frame'[g].io
      <4>1. \A w \in io_waiters' : w \in io_waiters \/ w.token = resume_token + 1 BY <3>1
      <4>2. resume_token + 1 \in 1 .. resume_token' BY <1>0, <3>2
      <4>3. QED BY <3>2, <3>3, <3>4, <3>5, <4>1, <4>2, Zenon DEF WakeSources
    <3>7. QED BY <3>2, <3>4, <3>5, <3>6, Zenon DEF WakeSources
  <2>8. QED BY <1>4, <2>1, <2>2, <2>3, <2>4, <2>5, <2>6, <2>7, Zenon DEF FiberStep
<1>5. ASSUME \/ \E t \in Threads : ThreadStep(t)
             \/ \E fd \in Fds : FdReady(fd) \/ FdDrained(fd)
             \/ Advance
      PROVE  WakeSources'
  <2>1. CASE Advance BY <1>0, <1>1, <2>1 DEF Advance
  <2>2. CASE \E t \in Threads : ThreadStep(t)
    BY <1>2, <2>2, Zenon DEF ThreadStep, ThreadUnblock, ThreadWorkDone, wake, ThreadEnds
  <2>3. CASE \E fd \in Fds : FdReady(fd) \/ FdDrained(fd)
    BY <1>2, <2>3, Zenon DEF FdReady, FdDrained
  <2>4. QED BY <1>5, <2>1, <2>2, <2>3, Zenon
<1>6. ASSUME \/ Close \/ CheckWork \/ FetchDueEvents \/ PollReturns \/ PollInterrupted
             \/ EventsDone \/ TimersDone \/ SwitchUnblockBatch
             \/ EventsResumed \/ UnblockedResumed \/ TimersResumed
      PROVE  WakeSources'
  BY <1>2, <1>6, Zenon
  DEF Close, CheckWork, FetchDueEvents, PollReturns, PollInterrupted,
      EventsDone, TimersDone, SwitchUnblockBatch, EventsResumed, UnblockedResumed, TimersResumed
<1>7. CASE HandleEvent
  <2>1. UNCHANGED <<timers, due_timers, fiber, frame, resume_token, now>>
    BY <1>7, Zenon DEF HandleEvent
  <2>2. CASE UNCHANGED <<io_waiters, due_events>> BY <1>2, <2>1, <2>2, Zenon
  <2>3. ASSUME NEW w \in io_waiters, io_waiters' = io_waiters \ {w},
               due_events' = Append(due_events, w.token)
        PROVE  WakeSources'
    <3>1. w.token \in Nat BY Zenon DEF TypeOK, ReactorType, Waiter
    <3>2. Range(due_events') = Range(due_events) \cup {w.token} BY <1>0, <2>3, <3>1, RangeAppend, Zenon
    <3>3. \A g \in Fibers : \A tok : Waiting(g, tok)' <=> Waiting(g, tok) BY <2>1, Zenon DEF Waiting
    <3>4. QED BY <2>1, <2>3, <3>2, <3>3, Zenon DEF WakeSources
  <2>4. QED BY <1>7, <2>2, <2>3, Zenon DEF HandleEvent
<1>8. CASE PopDueTimer
  <2>1. UNCHANGED <<due_events, fiber, frame, resume_token, now>> BY <1>8, Zenon DEF PopDueTimer
  <2>2. PICK t \in timers : /\ t.at <= now /\ timers' \subseteq timers
                            /\ due_timers' = Append(due_timers, t.token)
                            /\ io_waiters' \subseteq io_waiters
    BY <1>8, Zenon DEF PopDueTimer
  <2>3. t.token \in Nat /\ t.at \in Nat BY Zenon DEF TypeOK, ReactorType, Timer
  <2>4. Range(due_timers') = Range(due_timers) \cup {t.token} BY <1>0, <2>2, <2>3, RangeAppend, Zenon
  <2>5. \A g \in Fibers : \A tok : Waiting(g, tok)' <=> Waiting(g, tok) BY <2>1, Zenon DEF Waiting
  <2>6. \A g \in Fibers : Waiting(g, t.token) =>
          frame[g].until # NoTimeout /\ frame[g].until <= now
    BY <2>2, <2>3, Zenon DEF WakeSources
  <2>7. QED BY <2>1, <2>2, <2>4, <2>5, <2>6, ZenonT(30) DEF WakeSources
<1>9. CASE ResumeEvent \/ ResumeUnblocked \/ ResumeTimer
  <2>1. /\ UNCHANGED <<io_waiters, resume_token, now>>
        /\ Range(due_events') \subseteq Range(due_events)
        /\ Range(due_timers') \subseteq Range(due_timers)
    BY <1>0, <1>9, RangeFacts, Zenon DEF ResumeEvent, ResumeUnblocked, ResumeTimer
  <2>2. /\ timers' \subseteq timers
        /\ \A f \in Fibers : fiber'[f] = "waiting" =>
              fiber[f] = "waiting" /\ frame'[f] = frame[f]
    <3>1. frame \in [Fibers -> Frame] BY Zenon DEF TypeOK, FibersType
    <3>2. ASSUME NEW tok, resume_fiber(tok)
          PROVE  /\ timers' \subseteq timers
                 /\ \A f \in Fibers : fiber'[f] = "waiting" =>
                       fiber[f] = "waiting" /\ frame'[f] = frame[f]
      <4>1. timers' \subseteq timers BY <3>2, Zenon DEF resume_fiber
      <4>2. \/ UNCHANGED <<fiber, frame>>
            \/ \E f \in Fibers, state \in {"running", "done"} :
                 /\ fiber' = [fiber EXCEPT ![f] = state]
                 /\ frame' = [frame EXCEPT ![f] = NoFrame]
        BY <3>2, Zenon DEF resume_fiber
      <4>3. QED BY <1>0, <3>1, <4>1, <4>2, Zenon
    <3>3. QED BY <1>0, <1>9, <3>1, <3>2, Zenon
          DEF ResumeEvent, ResumeUnblocked, ResumeTimer, resume_blocked
  <2>3. QED BY <1>0, <2>1, <2>2, SourcesKept
<1>10. CASE Next
  BY <1>4, <1>5, <1>6, <1>7, <1>8, <1>9, <1>10, Zenon DEF Next, TickStep
<1>11. QED BY <1>3, <1>10, Zenon

\* A step from a state that satisfies the invariants ends a wait only for a
\* reason WakeJustified allows.
LEMMA StepJustified ==
    ASSUME TypeOK, WaitBookkeeping, WakeSources, [Next]_vars,
           NEW f \in Fibers, fiber[f] = "waiting", fiber'[f] # "waiting"
    PROVE  \/ pc = "resume_events" /\ frame[f].io /\ Head(due_events) = frame[f].token
           \/ pc = "resume_unblocked" /\ Batch[pos] = f
           \/ pc = "resume_timers" /\ frame[f].until # NoTimeout /\ frame[f].until <= now
<1>1. fiber \in [Fibers -> {"new", "running", "waiting", "suspended", "done"}]
  BY Zenon DEF TypeOK, FibersType
<1>2. ASSUME NEW tok, resume_fiber(tok) PROVE frame[f].token = tok
  <2>1. PICK g \in Fibers : /\ <<tok, g>> \in resume_tokens
                            /\ \A h \in Fibers \ {g} : fiber'[h] = fiber[h]
    BY <1>1, <1>2, Zenon DEF resume_fiber, EndBlock
  <2>2. g = f BY <2>1, Zenon
  <2>3. QED BY <2>1, <2>2, ZenonT(30) DEF WaitBookkeeping
<1>3. CASE ResumeEvent
  <2>1. due_events # <<>> /\ pc = "resume_events" /\ resume_fiber(Head(due_events))
    BY <1>3, Zenon DEF ResumeEvent, AtRoot
  <2>2. frame[f].token = Head(due_events) BY <1>2, <2>1, Zenon
  <2>3. Head(due_events) \in Range(due_events) BY <2>1, RangeFacts, Zenon DEF TypeOK, TickType
  <2>4. QED BY <2>1, <2>2, <2>3, Zenon DEF WakeSources, Waiting
<1>4. CASE ResumeTimer
  <2>1. due_timers # <<>> /\ pc = "resume_timers" /\ resume_fiber(Head(due_timers))
    BY <1>4, Zenon DEF ResumeTimer, AtRoot
  <2>2. frame[f].token = Head(due_timers) BY <1>2, <2>1, Zenon
  <2>3. Head(due_timers) \in Range(due_timers) BY <2>1, RangeFacts, Zenon DEF TypeOK, TickType
  <2>4. QED BY <2>1, <2>2, <2>3, Zenon DEF WakeSources, Waiting
<1>5. CASE ResumeUnblocked
  <2>1. 1 - unblock_idx \in {0, 1} /\ Batch \in Seq(Fibers) /\ pos \in Nat \ {0}
    BY DEF Batch, TypeOK, TablesType, TickType
  <2>2. pos \in DOMAIN Batch BY <1>5, <2>1, SeqFacts DEF ResumeUnblocked
  <2>3. Batch[pos] \in Fibers BY <2>1, <2>2, SeqFacts, Zenon
  <2>4. PICK g \in Fibers : g = Batch[pos] /\ resume_blocked(g)
    BY <1>5, <2>3, Zenon DEF ResumeUnblocked
  <2>5. resume_fiber(token_map[g]) BY <1>1, <2>4, Zenon DEF resume_blocked
  <2>6. frame[f].token = token_map[g] BY <1>2, <2>5, Zenon
  <2>7. token_map[g] = frame[g].token /\ f \in join_waiters
    BY Zenon DEF WaitBookkeeping
  <2>8. frame[f].token \in 1 .. resume_token BY <2>7, Zenon DEF WaitBookkeeping
  <2>9. g \in join_waiters
    <3>1. g \in join_waiters \/ frame[g] = NoFrame BY Zenon DEF WaitBookkeeping
    <3>2. frame[g].token # NoToken BY <2>6, <2>7, <2>8 DEF NoToken, TypeOK
    <3>3. NoFrame.token = NoToken BY Zenon DEF NoFrame
    <3>4. QED BY <3>1, <3>2, <3>3, Zenon
  <2>10. f = g BY <2>6, <2>7, <2>9, Zenon DEF WaitBookkeeping
  <2>11. QED BY <1>5, <2>4, <2>10, Zenon DEF ResumeUnblocked, AtRoot
<1>6. CASE ~(ResumeEvent \/ ResumeTimer \/ ResumeUnblocked)
  <2>1. CASE UNCHANGED fiber BY <2>1, Zenon
  <2>2. CASE \E g \in Fibers : fiber[g] # "waiting" /\ \A h \in Fibers \ {g} : fiber'[h] = fiber[h]
    BY <2>2, Zenon
  <2>3. ASSUME NEW g \in Fibers, Schedule(g) \/ CreateFiber(g) \/ FiberStep(g)
        PROVE  \/ UNCHANGED fiber
               \/ fiber[g] # "waiting" /\ \A h \in Fibers \ {g} : fiber'[h] = fiber[h]
    BY <1>1, <2>3, Zenon
    DEF Schedule, CreateFiber, FiberStep, Block, Yield, IoWaitReady, IoWaitRejected, IoWait,
        IoWaitError, RunBlockingInThread, UnblockFromFiber, RawYield, Finish, Raise,
        Running, Leave, block
  <2>4. CASE \/ \E t \in Threads : ThreadStep(t)
             \/ \E fd \in Fds : FdReady(fd) \/ FdDrained(fd)
             \/ Advance \/ UNCHANGED vars
    BY <2>1, <2>4, Zenon DEF ThreadStep, ThreadUnblock, ThreadWorkDone, wake, ThreadEnds, FdReady,
                      FdDrained, Advance, vars
  <2>5. CASE Close \/ PollReturns \/ PollInterrupted \/ TickStep
    BY <1>6, <2>1, <2>5, Zenon
    DEF TickStep, Close, CheckWork, FetchDueEvents, PollReturns, PollInterrupted, HandleEvent,
        EventsDone, PopDueTimer, TimersDone, SwitchUnblockBatch, EventsResumed,
        UnblockedResumed, TimersResumed
  <2>6. QED BY <2>1, <2>2, <2>3, <2>4, <2>5, Zenon DEF Next
<1>7. QED BY <1>3, <1>4, <1>5, <1>6, Zenon

WaitInv == TypeOK /\ WaitBookkeeping /\ WakeSources

\* The three invariants together are inductive.
LEMMA WaitInvCorrect == Spec => []WaitInv
<1>1. Init => WaitInv BY TypeInit, BookkeepingInit, SourcesInit, Zenon DEF WaitInv
<1>2. WaitInv /\ [Next]_vars => WaitInv'
  BY TypeNext, BookkeepingNext, SourcesNext, Zenon DEF WaitInv
<1>3. QED BY <1>1, <1>2, PTL DEF Spec

\* WakeSources holds in every state: a stale timer, waiter or due token never
\* stands for a wait other than the one it was made for.
THEOREM WakeSourcesCorrect == Spec => []WakeSources
<1>1. WaitInv => WakeSources BY Zenon DEF WaitInv
<1>2. QED BY <1>1, WaitInvCorrect, PTL

\* WakeJustified holds of every behaviour: block returns only because of an
\* event of its own io_wait, an unblock of its fiber, or its elapsed timeout.
THEOREM WakeJustifiedCorrect == Spec => WakeJustified
<1> DEFINE Step == \A f \in Fibers : fiber[f] = "waiting" /\ fiber'[f] # "waiting" =>
         \/ /\ pc = "resume_events" /\ frame[f].io
            /\ Head(due_events) = frame[f].token
         \/ pc = "resume_unblocked" /\ Batch[pos] = f
         \/ /\ pc = "resume_timers"
            /\ frame[f].until # NoTimeout /\ frame[f].until <= now
<1>1. WaitInv /\ [Next]_vars => [Step]_vars
  BY StepJustified, Zenon DEF WaitInv
<1>2. QED BY <1>1, WaitInvCorrect, PTL DEF Spec, WakeJustified

-----------------------------------------------------------------------------
(* No wait is forgotten *)

\* A fiber goes on waiting, and whatever would wake it is still there or due.
KeepsSources(f) ==
    /\ fiber[f] = "waiting" /\ frame'[f] = frame[f]
    /\ \A t \in timers : t.token = frame[f].token =>
         t \in timers' \/ t.token \in Range(due_timers')
    /\ \A w \in io_waiters : w.token = frame[f].token =>
         w \in io_waiters' \/ w.token \in Range(due_events') \cup Range(due_timers')
    /\ frame[f].token \in Range(due_timers) => frame[f].token \in Range(due_timers')
    /\ frame[f].token \in Range(due_events) => frame[f].token \in Range(due_events')

\* A fiber that starts to wait has the timer and the waiter it asks for.
StartsArmed(f) ==
    /\ frame'[f].until # NoTimeout =>
         [at |-> frame'[f].until, token |-> frame'[f].token] \in timers'
    /\ frame'[f].io => \E w \in io_waiters' : w.token = frame'[f].token

\* A fiber that blocks arms its timer; the others keep their sources.
LEMMA SourcesOfBlock ==
    ASSUME WaitInv, NEW g \in Fibers, NEW timeout \in Until, NEW io \in BOOLEAN,
           NEW helper \in Threads \cup {NoThread}, Blocks(g, timeout, io, helper),
           UNCHANGED <<due_timers, due_events>>, io_waiters \subseteq io_waiters',
           io => \E w \in io_waiters' : w.token = resume_token',
           NEW f \in Fibers, fiber'[f] = "waiting"
    PROVE  KeepsSources(f) \/ StartsArmed(f)
<1> USE SchedulerAssumption
<1>1. /\ frame \in [Fibers -> Frame] /\ now \in Nat
      /\ fiber \in [Fibers -> {"new", "running", "waiting", "suspended", "done"}]
  BY Zenon DEF WaitInv, TypeOK, FibersType, EnvType
<1>2. block(g, resume_token', timeout, io, helper) BY Zenon DEF Blocks
<1>3. timers \subseteq timers' BY <1>2, Zenon DEF block
<1>4. CASE f # g
  <2>1. fiber[f] = "waiting" /\ frame'[f] = frame[f] BY <1>1, <1>2, <1>4, Zenon DEF block, Leave
  <2>2. QED BY <1>3, <2>1, Zenon DEF KeepsSources
<1>5. CASE f = g
  <2>1. /\ frame'[f].token = resume_token' /\ frame'[f].io = io
        /\ timeout # NoTimeout => frame'[f].until = now + timeout
        /\ timeout = NoTimeout => frame'[f].until = NoTimeout
    BY <1>1, <1>2, <1>5, Zenon DEF block
  <2>2. timeout # NoTimeout => [at |-> now + timeout, token |-> resume_token'] \in timers'
    BY <1>2, Zenon DEF block, start_timer
  <2>3. QED BY <2>1, <2>2, Zenon DEF StartsArmed
<1>6. QED BY <1>4, <1>5, Zenon

\* Resuming the fiber of a token takes nothing from the fibers still waiting:
\* none of them waits on that token.
LEMMA SourcesOfResume ==
    ASSUME WaitInv, NEW tok, resume_fiber(tok), NEW f \in Fibers, fiber'[f] = "waiting"
    PROVE  /\ fiber[f] = "waiting" /\ frame'[f] = frame[f] /\ frame[f].token # tok
           /\ \A t \in timers : t.token # tok => t \in timers'
<1>1. /\ frame \in [Fibers -> Frame]
      /\ fiber \in [Fibers -> {"new", "running", "waiting", "suspended", "done"}]
  BY Zenon DEF WaitInv, TypeOK, FibersType
<1>2. \A t \in timers : t.token # tok => t \in timers' BY Zenon DEF resume_fiber
<1>3. \A g \in Fibers : fiber[g] = "waiting" => <<frame[g].token, g>> \in resume_tokens
  BY Zenon DEF WaitInv, WaitBookkeeping
<1>4. CASE \A g \in Fibers : <<tok, g>> \notin resume_tokens
  <2>1. UNCHANGED fibers BY <1>4, Zenon DEF resume_fiber
  <2>2. QED BY <1>2, <1>3, <1>4, <2>1, Zenon
<1>5. ASSUME NEW g \in Fibers, <<tok, g>> \in resume_tokens,
             frame' = [frame EXCEPT ![g] = NoFrame],
             \E state \in {"running", "done"} : fiber' = [fiber EXCEPT ![g] = state]
      PROVE  fiber[f] = "waiting" /\ frame'[f] = frame[f] /\ frame[f].token # tok
  <2>1. f # g BY <1>1, <1>5, Zenon
  <2>2. fiber[f] = "waiting" /\ frame'[f] = frame[f] BY <1>1, <1>5, <2>1, Zenon
  <2>3. PICK h \in join_waiters : <<tok, g>> = <<frame[h].token, h>>
    BY <1>5, Zenon DEF WaitInv, WaitBookkeeping
  <2>4. g \in join_waiters /\ frame[g].token = tok BY <2>3, Zenon
  <2>5. f \in join_waiters BY <2>2, Zenon DEF WaitInv, WaitBookkeeping
  <2>6. QED BY <2>1, <2>2, <2>4, <2>5, Zenon DEF WaitInv, WaitBookkeeping
<1>6. QED BY <1>2, <1>4, <1>5, Zenon DEF resume_fiber, EndBlock

\* No step drops the timer, waiter or due token of a fiber that still waits
\* after it, and a wait starts with its sources in place.
LEMMA SourcesNotLost ==
    ASSUME WaitInv, [Next]_vars, NEW f \in Fibers, fiber'[f] = "waiting"
    PROVE  KeepsSources(f) \/ StartsArmed(f)
<1> USE SchedulerAssumption
<1>1. /\ frame \in [Fibers -> Frame]
      /\ fiber \in [Fibers -> {"new", "running", "waiting", "suspended", "done"}]
      /\ due_events \in Seq(Nat) /\ due_timers \in Seq(Nat)
      /\ timers \subseteq Timer /\ io_waiters \subseteq Waiter
  BY Zenon DEF WaitInv, TypeOK, FibersType, TickType, ReactorType
<1>2. ASSUME UNCHANGED <<timers, due_timers, due_events, frame>>, io_waiters \subseteq io_waiters',
             fiber[f] = "waiting"
      PROVE  KeepsSources(f)
  BY <1>2, Zenon DEF KeepsSources
<1>3. ASSUME NEW g \in Fibers, Schedule(g) \/ CreateFiber(g) \/ RawYield(g) \/ Finish(g) \/ Raise(g)
      PROVE  KeepsSources(f)
  <2>1. /\ UNCHANGED <<timers, io_waiters, due_timers, due_events, frame>>
        /\ \E state \in {"running", "suspended", "done"} : fiber' = [fiber EXCEPT ![g] = state]
    BY <1>3, Zenon DEF Schedule, CreateFiber, RawYield, Finish, Raise, Leave
  <2>2. fiber[f] = "waiting" BY <1>1, <2>1, Zenon
  <2>3. QED BY <1>2, <2>1, <2>2, Zenon
<1>4. ASSUME NEW g \in Fibers, IoWaitReady(g) \/ IoWaitRejected(g) \/ IoWaitError(g) \/ UnblockFromFiber(g)
      PROVE  KeepsSources(f)
  <2>1. /\ UNCHANGED <<timers, due_timers, due_events, frame, fiber>>
        /\ io_waiters \subseteq io_waiters'
    BY <1>4, Zenon DEF IoWaitReady, IoWaitRejected, IoWaitError, UnblockFromFiber, StoreWaiter
  <2>2. QED BY <1>2, <2>1, Zenon
<1>5. ASSUME NEW g \in Fibers, Block(g) \/ Yield(g) PROVE KeepsSources(f) \/ StartsArmed(f)
  <2>1. PICK timeout \in Until : Blocks(g, timeout, FALSE, NoThread)
    BY <1>5, Zenon DEF Block, Yield, NewToken, Blocks
  <2>2. UNCHANGED <<due_timers, due_events, io_waiters>> BY <1>5, Zenon DEF Block, Yield
  <2>3. QED BY <2>1, <2>2, SourcesOfBlock, Zenon
<1>6. ASSUME NEW g \in Fibers, RunBlockingInThread(g) PROVE KeepsSources(f) \/ StartsArmed(f)
  <2>1. PICK t \in Threads : Blocks(g, NoTimeout, FALSE, t)
    BY <1>6, Zenon DEF RunBlockingInThread, NewToken, Blocks
  <2>2. UNCHANGED <<due_timers, due_events, io_waiters>> BY <1>6, Zenon DEF RunBlockingInThread
  <2>3. QED BY <2>1, <2>2, SourcesOfBlock, Zenon
<1>7. ASSUME NEW g \in Fibers, IoWait(g) PROVE KeepsSources(f) \/ StartsArmed(f)
  <2>1. PICK fd \in Fds, mask \in IoEvents, timeout \in Until :
          /\ Blocks(g, timeout, TRUE, NoThread)
          /\ io_waiters' = io_waiters \cup
               {[fd |-> fd, readiness |-> mask, token |-> resume_token + 1]}
    BY <1>7, Zenon DEF IoWait, NewToken, Blocks, StoreWaiter
  <2> DEFINE w == [fd |-> fd, readiness |-> mask, token |-> resume_token + 1]
  <2>2. w.token = resume_token' /\ w \in io_waiters' /\ io_waiters \subseteq io_waiters'
    BY <2>1, Zenon DEF Blocks
  <2> HIDE DEF w
  <2>3. UNCHANGED <<due_timers, due_events>> BY <1>7, Zenon DEF IoWait
  <2>4. QED BY <2>1, <2>2, <2>3, SourcesOfBlock, Zenon
<1>8. ASSUME \/ UNCHANGED vars
             \/ Close \/ CheckWork \/ FetchDueEvents \/ PollReturns \/ PollInterrupted
             \/ EventsDone \/ TimersDone \/ SwitchUnblockBatch
             \/ EventsResumed \/ UnblockedResumed \/ TimersResumed
      PROVE  KeepsSources(f)
  BY <1>2, <1>8, Zenon
  DEF vars, Close, CheckWork, FetchDueEvents, PollReturns, PollInterrupted,
      EventsDone, TimersDone, SwitchUnblockBatch, EventsResumed, UnblockedResumed, TimersResumed
<1>9. ASSUME \/ \E t \in Threads : ThreadStep(t)
             \/ \E fd \in Fds : FdReady(fd) \/ FdDrained(fd)
             \/ Advance
      PROVE  KeepsSources(f)
  BY <1>2, <1>9, Zenon DEF ThreadStep, ThreadUnblock, ThreadWorkDone, wake, ThreadEnds,
                           FdReady, FdDrained, Advance
<1>10. CASE HandleEvent
  <2>1. UNCHANGED <<timers, due_timers, fiber, frame>> BY <1>10, Zenon DEF HandleEvent
  <2>2. CASE UNCHANGED <<io_waiters, due_events>> BY <1>2, <2>1, <2>2, Zenon
  <2>3. ASSUME NEW w \in io_waiters, io_waiters' = io_waiters \ {w},
               due_events' = Append(due_events, w.token)
        PROVE  KeepsSources(f)
    <3>1. w.token \in Nat BY <1>1, Zenon DEF Waiter
    <3>2. Range(due_events') = Range(due_events) \cup {w.token}
      BY <1>1, <2>3, <3>1, RangeAppend, Zenon
    <3>3. QED BY <2>1, <2>3, <3>2, Zenon DEF KeepsSources
  <2>4. QED BY <1>10, <2>2, <2>3, Zenon DEF HandleEvent
<1>11. CASE PopDueTimer
  <2>1. UNCHANGED <<due_events, fiber, frame>> BY <1>11, Zenon DEF PopDueTimer
  <2>2. PICK t \in timers : /\ \A u \in timers : u # t => u \in timers'
                            /\ due_timers' = Append(due_timers, t.token)
                            /\ \A w \in io_waiters : w.token # t.token => w \in io_waiters'
    BY <1>11, Zenon DEF PopDueTimer
  <2>3. t.token \in Nat BY <1>1, Zenon DEF Timer
  <2>4. Range(due_timers') = Range(due_timers) \cup {t.token}
    BY <1>1, <2>2, <2>3, RangeAppend, Zenon
  <2>5. QED BY <2>1, <2>2, <2>4, Zenon DEF KeepsSources
<1>12. ASSUME NEW tok, resume_fiber(tok), UNCHANGED io_waiters,
              \A x \in Range(due_events) : x = tok \/ x \in Range(due_events'),
              \A x \in Range(due_timers) : x = tok \/ x \in Range(due_timers')
       PROVE  KeepsSources(f)
  BY <1>12, SourcesOfResume, Zenon DEF KeepsSources
<1>13. CASE ResumeEvent
  BY <1>1, <1>12, <1>13, RangeFacts, Zenon DEF ResumeEvent
<1>14. CASE ResumeTimer
  BY <1>1, <1>12, <1>14, RangeFacts, Zenon DEF ResumeTimer
<1>15. CASE ResumeUnblocked
  <2>1. UNCHANGED <<io_waiters, due_events, due_timers>> BY <1>15, Zenon DEF ResumeUnblocked
  <2>2. ASSUME NEW tok, resume_fiber(tok) PROVE KeepsSources(f) BY <1>12, <2>1, <2>2, Zenon
  <2>3. ASSUME NEW g, UNCHANGED <<timers, frame>>,
               fiber' = fiber \/ fiber' = [fiber EXCEPT ![g] = "running"]
        PROVE  KeepsSources(f)
    <3>1. fiber[f] = "waiting" BY <1>1, <2>3, Zenon
    <3>2. QED BY <1>2, <2>1, <2>3, <3>1, Zenon
  <2>4. QED BY <1>15, <2>2, <2>3, Zenon DEF ResumeUnblocked, resume_blocked
<1>16. CASE Next
  BY <1>3, <1>4, <1>5, <1>6, <1>7, <1>8, <1>9, <1>10, <1>11, <1>13, <1>14, <1>15, <1>16, Zenon
  DEF Next, FiberStep, TickStep
<1>17. QED BY <1>8, <1>16, Zenon

\* TimeoutArmed holds in every state: whatever wakes, cancels or resumes other
\* fibers, a waiting fiber's deadline is in the heap or already due.
THEOREM TimeoutArmedCorrect == Spec => []TimeoutArmed
<1>1. Init => TimeoutArmed BY Zenon DEF Init, TimeoutArmed
<1>2. ASSUME WaitInv, TimeoutArmed, [Next]_vars PROVE TimeoutArmed'
  <2>1. ASSUME NEW f \in Fibers, fiber'[f] = "waiting", frame'[f].until # NoTimeout
        PROVE  \/ [at |-> frame'[f].until, token |-> frame'[f].token] \in timers'
               \/ frame'[f].token \in Range(due_timers')
    <3>1. CASE StartsArmed(f) BY <2>1, <3>1, Zenon DEF StartsArmed
    <3>2. CASE KeepsSources(f) BY <1>2, <2>1, <3>2, Zenon DEF KeepsSources, TimeoutArmed
    <3>3. QED BY <1>2, <2>1, <3>1, <3>2, SourcesNotLost, Zenon
  <2>2. QED BY <2>1, Zenon DEF TimeoutArmed
<1>3. QED BY <1>1, <1>2, WaitInvCorrect, PTL DEF Spec

\* WaiterKept holds in every state: no event, timer or failed registration of
\* another fiber takes the waiter of a fiber that is still inside io_wait.
THEOREM WaiterKeptCorrect == Spec => []WaiterKept
<1>1. Init => WaiterKept BY Zenon DEF Init, WaiterKept
<1>2. ASSUME WaitInv, WaiterKept, [Next]_vars PROVE WaiterKept'
  <2>1. ASSUME NEW f \in Fibers, fiber'[f] = "waiting", frame'[f].io
        PROVE  \/ \E w \in io_waiters' : w.token = frame'[f].token
               \/ frame'[f].token \in Range(due_events') \cup Range(due_timers')
    <3>1. CASE StartsArmed(f) BY <2>1, <3>1, Zenon DEF StartsArmed
    <3>2. CASE KeepsSources(f) BY <1>2, <2>1, <3>2, Zenon DEF KeepsSources, WaiterKept
    <3>3. QED BY <1>2, <2>1, <3>1, <3>2, SourcesNotLost, Zenon
  <2>2. QED BY <2>1, Zenon DEF WaiterKept
<1>3. QED BY <1>1, <1>2, WaitInvCorrect, PTL DEF Spec

-----------------------------------------------------------------------------
(* run returns with nothing left *)

\* When run has returned, the root fiber is in control and nothing is left.
AtExit ==
    pc = "exited" => /\ current = NoFiber
                     /\ join_waiters = {} /\ timers = {} /\ io_waiters = {}

\* Only CheckWork ends run, and nothing is started after it.
LEMMA AtExitNext ==
    ASSUME TypeOK, AtExit, [Next]_vars
    PROVE  AtExit'
<1> USE SchedulerAssumption
<1>1. ASSUME UNCHANGED <<pc, current, join_waiters, timers, io_waiters>> PROVE AtExit'
  BY <1>1, Zenon DEF AtExit
<1>2. ASSUME NEW f \in Fibers, FiberStep(f) PROVE AtExit'
  <2>1. current \in Fibers
    BY <1>2, Zenon DEF FiberStep, Block, Yield, IoWaitReady, IoWaitRejected, IoWait, IoWaitError,
                RunBlockingInThread, UnblockFromFiber, RawYield, Finish, Raise, Running
  <2>2. pc # "exited" BY <2>1, Zenon DEF AtExit
  <2>3. pc' \in {pc, "crashed"}
    BY <1>2, Zenon DEF FiberStep, Block, Yield, IoWaitReady, IoWaitRejected, IoWait, IoWaitError,
                RunBlockingInThread, UnblockFromFiber, RawYield, Finish, Raise
  <2>4. QED BY <2>2, <2>3, Zenon DEF AtExit
<1>3. ASSUME NEW f \in Fibers, Schedule(f) \/ CreateFiber(f) PROVE AtExit'
  <2>1. pc # "exited" BY <1>3, Zenon DEF AtExit, Schedule, CreateFiber
  <2>2. QED BY <1>3, <2>1, Zenon DEF AtExit, Schedule, CreateFiber
<1>4. ASSUME \/ \E t \in Threads : ThreadStep(t)
             \/ \E fd \in Fds : FdReady(fd) \/ FdDrained(fd)
             \/ Advance \/ UNCHANGED vars
      PROVE  AtExit'
  BY <1>1, <1>4, Zenon DEF ThreadStep, ThreadUnblock, ThreadWorkDone, wake, ThreadEnds,
                           FdReady, FdDrained, Advance, vars
<1>5. CASE CheckWork
  BY <1>5, Zenon DEF CheckWork, AtRoot, Work, has_pending_io, AtExit
<1>6. CASE \/ Close \/ FetchDueEvents \/ PollReturns \/ PollInterrupted
           \/ EventsDone \/ TimersDone \/ SwitchUnblockBatch
           \/ EventsResumed \/ UnblockedResumed \/ TimersResumed
  <2>1. pc' # "exited"
    BY <1>6, Zenon DEF Close, FetchDueEvents, PollReturns, PollInterrupted, EventsDone, TimersDone,
                SwitchUnblockBatch, EventsResumed, UnblockedResumed, TimersResumed
  <2>2. QED BY <2>1, Zenon DEF AtExit
<1>7. CASE HandleEvent \/ PopDueTimer \/ ResumeEvent \/ ResumeUnblocked \/ ResumeTimer
  <2>1. pc # "exited"
    BY <1>7, Zenon DEF HandleEvent, PopDueTimer, ResumeEvent, ResumeUnblocked, ResumeTimer, AtRoot
  <2>2. pc' \in {pc, "crashed"}
    BY <1>7, Zenon DEF HandleEvent, PopDueTimer, PopFront, ResumeEvent, ResumeUnblocked, ResumeTimer,
                resume_blocked, resume_fiber
  <2>3. QED BY <2>1, <2>2, Zenon DEF AtExit
<1>8. QED BY <1>2, <1>3, <1>4, <1>5, <1>6, <1>7, Zenon DEF Next, TickStep

\* ExitClean holds in every state: run never returns while a fiber is inside
\* block, and none enters it afterwards.
THEOREM ExitCleanCorrect == Spec => []ExitClean
<1>1. Init => AtExit BY Zenon DEF Init, AtExit
<1>2. WaitInv /\ AtExit /\ [Next]_vars => AtExit' BY AtExitNext, Zenon DEF WaitInv
<1>3. WaitInv /\ AtExit => ExitClean BY Zenon DEF WaitInv, WaitBookkeeping, AtExit, ExitClean
<1>4. QED BY <1>1, <1>2, <1>3, WaitInvCorrect, PTL DEF Spec

-----------------------------------------------------------------------------
(* The queues of the fds, and the ways a tick can fail *)

\* What an append or a removal at the front does to a queue without duplicates.
LEMMA QueueFacts ==
    ASSUME NEW S, NEW s \in Seq(S), IsInjective(s)
    PROVE  /\ \A x \in S : /\ Append(s, x) # <<>>
                           /\ Head(Append(s, x)) = IF s = <<>> THEN x ELSE Head(s)
                           /\ x \notin Range(s) => IsInjective(Append(s, x))
           /\ s # <<>> => IsInjective(Tail(s)) /\ Head(s) \notin Range(Tail(s))
<1>1. DOMAIN s = 1 .. Len(s) /\ Len(s) \in Nat BY LenProperties, Zenon
<1>2. ASSUME NEW x \in S
      PROVE  /\ Append(s, x) # <<>>
             /\ Head(Append(s, x)) = IF s = <<>> THEN x ELSE Head(s)
             /\ x \notin Range(s) => IsInjective(Append(s, x))
  <2>1. /\ Append(s, x) \in Seq(S) /\ Append(s, x) # <<>> /\ Len(Append(s, x)) = Len(s) + 1
        /\ \A i \in 1 .. Len(s) : Append(s, x)[i] = s[i]
        /\ Append(s, x)[Len(s) + 1] = x
    BY AppendProperties
  <2>2. DOMAIN Append(s, x) = 1 .. (Len(s) + 1) BY <2>1, LenProperties, Zenon
  <2>3. Head(Append(s, x)) = Append(s, x)[1] BY <2>1
  <2>4. s = <<>> => Len(s) = 0 BY EmptySeq
  <2>5. s # <<>> => Len(s) >= 1 /\ Head(s) = s[1] BY <1>1, EmptySeq
  <2>6. Head(Append(s, x)) = IF s = <<>> THEN x ELSE Head(s) BY <1>1, <2>1, <2>3, <2>4, <2>5
  <2>7. ASSUME x \notin Range(s), NEW i \in DOMAIN Append(s, x), NEW j \in DOMAIN Append(s, x),
               Append(s, x)[i] = Append(s, x)[j]
        PROVE  i = j
    <3>1. \A k \in DOMAIN Append(s, x) : k \in DOMAIN s \/ k = Len(s) + 1 BY <1>1, <2>2
    <3>2. \A k \in DOMAIN s : s[k] # x BY <2>7, Zenon DEF Range
    <3>3. QED BY <1>1, <2>1, <2>7, <3>1, <3>2, Zenon DEF IsInjective
  <2>8. QED BY <2>1, <2>6, <2>7, Zenon DEF IsInjective
<1>3. ASSUME s # <<>> PROVE IsInjective(Tail(s)) /\ Head(s) \notin Range(Tail(s))
  <2>1. /\ Tail(s) \in Seq(S) /\ Len(Tail(s)) = Len(s) - 1
        /\ \A i \in 1 .. Len(Tail(s)) : Tail(s)[i] = s[i + 1]
    BY <1>3, HeadTailProperties, Zenon
  <2>2. DOMAIN Tail(s) = 1 .. Len(Tail(s)) /\ Len(Tail(s)) \in Nat BY <2>1, LenProperties, Zenon
  <2>3. 1 \in DOMAIN s /\ Head(s) = s[1] BY <1>1, <2>1, <2>2
  <2>4. \A i \in DOMAIN Tail(s) : i + 1 \in DOMAIN s /\ i + 1 # 1 /\ Tail(s)[i] = s[i + 1]
    BY <1>1, <2>1, <2>2
  <2>5. Head(s) \notin Range(Tail(s))
    <3>1. ASSUME NEW i \in DOMAIN Tail(s), Tail(s)[i] = Head(s) PROVE FALSE
      <4>1. i + 1 \in DOMAIN s /\ s[i + 1] = s[1] /\ i + 1 # 1 BY <2>3, <2>4, <3>1, Zenon
      <4>2. QED BY <2>3, <4>1, Zenon DEF IsInjective
    <3>2. QED BY <3>1, Zenon DEF Range
  <2>6. \A i, j \in DOMAIN Tail(s) : i + 1 = j + 1 => i = j BY <2>2
  <2>7. QED BY <2>4, <2>5, <2>6, Zenon DEF IsInjective
<1>4. QED BY <1>2, <1>3, Zenon

\* The waiters that fd's queue or its registration with the poller names.
Named(fd) == Range(registry[fd]) \cup {w \in {polled[fd]} : w # NoWaiter}

\* A token belongs to one waiter, on every fd: a queue and a registration name
\* waiters of their own fd, and a stored waiter with the same token is the same.
OwnTokens ==
    /\ \A w, v \in io_waiters : w.token = v.token => w = v
    /\ \A fd \in Fds : \A x \in Named(fd) :
         /\ x.fd = fd /\ x.token \in 1 .. resume_token
         /\ \A w \in io_waiters : w.token = x.token => w = x

\* The inductive invariant behind RegistryAgrees: tokens are nobody else's,
\* and on an fd without a timeout the queue holds each waiter once and an event
\* still to be handled is that of the head of the queue.
RegistryInv ==
    /\ RegistryAgrees /\ OwnTokens
    /\ \A fd \in Fds \ timed_out : IsInjective(registry[fd])
    /\ \A tok \in events : tok \in 1 .. resume_token
    /\ pc = "events" => \A w \in io_waiters :
         w.token \in events /\ w.fd \notin timed_out =>
             registry[w.fd] # <<>> /\ Head(registry[w.fd]) = w

\* Nothing is queued at first.
LEMMA RegistryInit == Init => RegistryInv
<1> SUFFICES ASSUME Init PROVE RegistryInv BY Zenon
<1>1. DOMAIN <<>> = {} OBVIOUS
<1>2. Range(<<>>) = {} /\ IsInjective(<<>>) BY <1>1, Zenon DEF Range, IsInjective
<1>3. \A fd \in Fds : Named(fd) = {} BY <1>2, Zenon DEF Init, Named
<1>4. RegistryAgrees BY <1>2, Zenon DEF Init, RegistryAgrees
<1>5. OwnTokens BY <1>3, Zenon DEF Init, OwnTokens
<1>6. QED BY <1>2, <1>4, <1>5, Zenon DEF Init, RegistryInv

\* A step that leaves the queues alone.
LEMMA RegistryKept ==
    ASSUME RegistryInv, UNCHANGED <<io_waiters, registry, polled, timed_out>>,
           1 .. resume_token \subseteq 1 .. resume_token',
           events' \subseteq events, pc' = "events" => pc = "events"
    PROVE  RegistryInv'
<1>1. RegistryAgrees' BY Zenon DEF RegistryInv, RegistryAgrees
<1>2. OwnTokens'
  <2>1. \A fd \in Fds : Named(fd)' \subseteq Named(fd) BY Zenon DEF Named
  <2>2. QED BY <2>1, Zenon DEF RegistryInv, OwnTokens
<1>3. QED BY <1>1, <1>2, Zenon DEF RegistryInv

\* io_wait queues a waiter under a token nobody has used, and registers it if
\* it is the first of its fd and the fd is not registered.
LEMMA RegistryStore ==
    ASSUME TypeOK, WakeSources, RegistryInv, NEW w \in Waiter, StoreWaiter(w),
           w.token = resume_token + 1, resume_token' = resume_token + 1,
           UNCHANGED <<pc, events, timed_out>>,
           \/ registry[w.fd] = <<>> /\ register(w.fd, w)
           \/ (registry[w.fd] # <<>> \/ polled[w.fd] # NoWaiter) /\ UNCHANGED polled
    PROVE  RegistryInv'
<1> DEFINE fd == w.fd
<1>1. /\ fd \in Fds /\ registry \in [Fds -> Seq(Waiter)] /\ resume_token \in Nat
      /\ polled \in [Fds -> Waiter \cup {NoWaiter}]
  BY Zenon DEF TypeOK, ReactorType, TablesType, Waiter
<1>2. /\ io_waiters' = io_waiters \cup {w}
      /\ registry' = [registry EXCEPT ![fd] = Append(registry[fd], w)]
  BY Zenon DEF StoreWaiter
<1>3. /\ \A k \in 1 .. resume_token : k # w.token /\ k \in 1 .. resume_token'
      /\ w.token \in 1 .. resume_token'
  BY <1>1
<1>4. \A v \in io_waiters : v.token # w.token BY <1>3, Zenon DEF WakeSources
<1> HIDE DEF fd
<1>5. w.fd = fd /\ registry[fd] \in Seq(Waiter) BY <1>1, Zenon DEF fd
<1>6. /\ registry'[fd] = Append(registry[fd], w)
      /\ Range(registry'[fd]) = Range(registry[fd]) \cup {w}
      /\ \A d \in Fds \ {fd} : registry'[d] = registry[d]
  <2>1. registry'[fd] = Append(registry[fd], w) BY <1>1, <1>2, Zenon
  <2>2. Range(Append(registry[fd], w)) = Range(registry[fd]) \cup {w} BY <1>5, RangeFacts, ZenonT(30)
  <2>3. QED BY <1>1, <1>2, <2>1, <2>2, Zenon
<1>7. /\ polled'[fd] = polled[fd] \/ polled'[fd] = w
      /\ \A d \in Fds \ {fd} : polled'[d] = polled[d]
  BY <1>1, Zenon DEF register, fd
<1>8. OwnTokens'
  <2>1. \A d \in Fds : \A x \in Named(d)' : x \in Named(d) \/ (d = fd /\ x = w)
    BY <1>1, <1>6, <1>7, Zenon DEF Named
  <2>2. \A d \in Fds : \A x \in Named(d) : x.token # w.token
    BY <1>3, Zenon DEF RegistryInv, OwnTokens
  <2>3. ASSUME NEW d \in Fds, NEW x \in Named(d)'
        PROVE  /\ x.fd = d /\ x.token \in 1 .. resume_token'
               /\ \A v \in io_waiters' : v.token = x.token => v = x
    <3>1. CASE x \in Named(d) BY <1>2, <1>3, <2>2, <3>1, Zenon DEF RegistryInv, OwnTokens
    <3>2. CASE d = fd /\ x = w BY <1>2, <1>3, <1>4, <1>5, <3>2, Zenon
    <3>3. QED BY <2>1, <3>1, <3>2, Zenon
  <2>4. \A u, v \in io_waiters' : u.token = v.token => u = v
    BY <1>2, <1>4, Zenon DEF RegistryInv, OwnTokens
  <2>5. QED BY <2>3, <2>4, Zenon DEF OwnTokens
<1>9. ASSUME fd \notin timed_out
      PROVE  /\ registry'[fd] # <<>> /\ IsInjective(registry'[fd])
             /\ registry[fd] # <<>> => Head(registry'[fd]) = Head(registry[fd])
             /\ polled'[fd] = Head(registry'[fd])
  <2>1. /\ IsInjective(registry[fd]) /\ w \notin Range(registry[fd])
        /\ polled[fd] = IF registry[fd] = <<>> THEN NoWaiter ELSE Head(registry[fd])
    BY <1>1, <1>4, <1>9, Zenon DEF RegistryInv, RegistryAgrees
  <2>2. /\ registry'[fd] # <<>> /\ IsInjective(registry'[fd])
        /\ Head(registry'[fd]) = IF registry[fd] = <<>> THEN w ELSE Head(registry[fd])
    <3> HIDE DEF RegistryInv
    <3>1. /\ Append(registry[fd], w) # <<>> /\ IsInjective(Append(registry[fd], w))
          /\ Head(Append(registry[fd], w)) = IF registry[fd] = <<>> THEN w ELSE Head(registry[fd])
      BY <1>5, <2>1, QueueFacts
    <3>2. QED BY <1>6, <3>1, Zenon
  <2>3. CASE registry[fd] = <<>> /\ register(fd, w) BY <1>1, <2>2, <2>3, Zenon DEF register
  <2>4. CASE registry[fd] # <<>> /\ UNCHANGED polled BY <2>1, <2>2, <2>4, Zenon
  <2>5. QED BY <2>1, <2>2, <2>3, <2>4, Zenon DEF fd
<1>10. RegistryAgrees'
  <2>1. \A v \in io_waiters' : v.fd \notin timed_out' => v \in Range(registry'[v.fd])
    <3>1. \A v \in io_waiters : v.fd \in Fds BY Zenon DEF TypeOK, ReactorType, Waiter
    <3>2. QED BY <1>2, <1>5, <1>6, <3>1, Zenon DEF RegistryInv, RegistryAgrees
  <2>2. ASSUME NEW d \in Fds \ timed_out'
        PROVE  /\ \A v \in Range(registry'[d]) : v.fd = d /\ v \in io_waiters'
               /\ polled'[d] = IF registry'[d] = <<>> THEN NoWaiter ELSE Head(registry'[d])
    <3>1. \A v \in Range(registry[d]) : v.fd = d /\ v \in io_waiters'
      BY <1>2, <2>2, Zenon DEF RegistryInv, RegistryAgrees
    <3>2. CASE d = fd BY <1>2, <1>5, <1>6, <1>9, <2>2, <3>1, <3>2, Zenon
    <3>3. CASE d # fd BY <1>6, <1>7, <2>2, <3>1, <3>3, Zenon DEF RegistryInv, RegistryAgrees
    <3>4. QED BY <3>2, <3>3, Zenon
  <2>3. QED BY <2>1, <2>2, Zenon DEF RegistryAgrees
<1>11. \A d \in Fds \ timed_out' : IsInjective(registry'[d])
  BY <1>6, <1>9, Zenon DEF RegistryInv
<1>12. ASSUME pc' = "events", NEW v \in io_waiters', v.token \in events', v.fd \notin timed_out'
       PROVE  registry'[v.fd] # <<>> /\ Head(registry'[v.fd]) = v
  <2>1. v # w BY <1>3, <1>12, Zenon DEF RegistryInv
  <2>2. v \in io_waiters BY <1>2, <1>12, <2>1, Zenon
  <2>3. v.fd \in Fds /\ registry[v.fd] # <<>> /\ Head(registry[v.fd]) = v
    BY <1>12, <2>2, Zenon DEF RegistryInv, TypeOK, ReactorType, Waiter
  <2>4. QED BY <1>6, <1>9, <1>12, <2>3, Zenon
<1>13. \A tok \in events' : tok \in 1 .. resume_token' BY <1>3, Zenon DEF RegistryInv
<1>14. QED BY <1>8, <1>10, <1>11, <1>12, <1>13, Zenon DEF RegistryInv

\* Whatever a pop does to the queue and the registration of an fd on which a
\* wait has timed out, it names no new waiter there and touches no other fd.
LEMMA RegistryGivenUp ==
    ASSUME TypeOK, RegistryInv, NEW w \in io_waiters, io_waiters' = io_waiters \ {w},
           NEW kept \in {NoWaiter, polled[w.fd]}, PopFront(w.fd, kept),
           w.fd \in timed_out', timed_out \subseteq timed_out',
           UNCHANGED resume_token, events' \subseteq events, pc' = "events" => pc = "events"
    PROVE  RegistryInv'
<1> DEFINE fd == w.fd
<1>1. /\ fd \in Fds /\ registry \in [Fds -> Seq(Waiter)]
      /\ polled \in [Fds -> Waiter \cup {NoWaiter}]
  BY Zenon DEF TypeOK, ReactorType, Waiter
<1> HIDE DEF fd
<1>2. \A d \in Fds \ {fd} : registry'[d] = registry[d] /\ polled'[d] = polled[d]
  BY <1>1, Zenon DEF PopFront, register, fd
<1>3. \A d \in Fds : Named(d)' \subseteq Named(d)
  <2>1. Named(fd)' \subseteq Named(fd)
    <3>1. registry[fd] \in Seq(Waiter) BY <1>1, Zenon
    <3>2. registry[fd] # <<>> => /\ Tail(registry[fd]) \in Seq(Waiter)
                                 /\ Range(Tail(registry[fd])) \subseteq Range(registry[fd])
      BY <3>1, SeqFacts, RangeFacts, Zenon
    <3>3. registry[fd] # <<>> /\ Tail(registry[fd]) # <<>> =>
            Head(Tail(registry[fd])) \in Range(registry[fd])
      BY <3>2, RangeFacts, Zenon
    <3>4. /\ registry'[fd] = registry[fd] \/ (registry[fd] # <<>> /\ registry'[fd] = Tail(registry[fd]))
          /\ \/ polled'[fd] = polled[fd] \/ polled'[fd] = NoWaiter
             \/ /\ registry[fd] # <<>> /\ Tail(registry[fd]) # <<>>
                /\ polled'[fd] = Head(Tail(registry[fd]))
      BY <1>1, Zenon DEF PopFront, register, fd
    <3>5. QED BY <3>2, <3>3, <3>4, Zenon DEF Named
  <2>2. QED BY <1>2, <2>1, Zenon DEF Named
<1>4. OwnTokens' BY <1>3, Zenon DEF RegistryInv, OwnTokens
<1>5. \A d \in Fds \ timed_out' : /\ d \in Fds \ timed_out /\ d # fd
                                  /\ registry'[d] = registry[d] /\ polled'[d] = polled[d]
  BY <1>2, Zenon DEF fd
<1>6. RegistryAgrees'
  <2>1. \A v \in io_waiters' : v.fd \notin timed_out' => v \in Range(registry'[v.fd])
    <3>1. \A v \in io_waiters : v.fd \in Fds BY Zenon DEF TypeOK, ReactorType, Waiter
    <3>2. QED BY <1>5, <3>1, Zenon DEF RegistryInv, RegistryAgrees
  <2>2. ASSUME NEW d \in Fds \ timed_out'
        PROVE  /\ \A v \in Range(registry'[d]) : v.fd = d /\ v \in io_waiters'
               /\ polled'[d] = IF registry'[d] = <<>> THEN NoWaiter ELSE Head(registry'[d])
    <3>1. \A v \in Range(registry[d]) : v.fd = d /\ v \in io_waiters
      BY <1>5, <2>2, Zenon DEF RegistryInv, RegistryAgrees
    <3>2. \A v \in Range(registry[d]) : v # w BY <1>5, <2>2, <3>1, Zenon DEF fd
    <3>3. QED BY <1>5, <2>2, <3>1, <3>2, Zenon DEF RegistryInv, RegistryAgrees
  <2>3. QED BY <2>1, <2>2, Zenon DEF RegistryAgrees
<1>7. ASSUME pc' = "events", NEW v \in io_waiters', v.token \in events', v.fd \notin timed_out'
      PROVE  registry'[v.fd] # <<>> /\ Head(registry'[v.fd]) = v
  <2>1. v.fd \in Fds /\ registry[v.fd] # <<>> /\ Head(registry[v.fd]) = v
    BY <1>7, Zenon DEF RegistryInv, TypeOK, ReactorType, Waiter
  <2>2. QED BY <1>5, <1>7, <2>1, Zenon
<1>8. QED BY <1>4, <1>5, <1>6, <1>7, Zenon DEF RegistryInv

\* An event is that of the head of its fd's queue, unless a wait on the fd has
\* timed out: the head is popped, the next one registered, and nothing fails.
LEMMA RegistryPop ==
    ASSUME TypeOK, RegistryInv, HandleEvent
    PROVE  /\ RegistryInv'
           /\ pc' = pc \/ \E w \in io_waiters \ io_waiters' : w.fd \in timed_out'
<1>0. PICK tok \in events :
         /\ events' = events \ {tok}
         /\ \/ UNCHANGED <<io_waiters, registry, polled, edges, due_events, pc>>
            \/ \E w \in io_waiters :
                 /\ w.token = tok
                 /\ io_waiters' = io_waiters \ {w}
                 /\ PopFront(w.fd, NoWaiter)
  BY Zenon DEF HandleEvent, deregistered
<1>1. UNCHANGED <<timed_out, resume_token>> /\ pc = "events" BY Zenon DEF HandleEvent, AtRoot
<1>2. CASE UNCHANGED <<io_waiters, registry, polled, edges, due_events, pc>>
  BY <1>0, <1>1, <1>2, RegistryKept, Zenon
<1>3. ASSUME NEW w \in io_waiters, w.token = tok, io_waiters' = io_waiters \ {w},
             PopFront(w.fd, NoWaiter), w.fd \in timed_out
      PROVE  RegistryInv' /\ \E v \in io_waiters \ io_waiters' : v.fd \in timed_out'
  BY <1>0, <1>1, <1>3, RegistryGivenUp, Zenon
<1>4. ASSUME NEW w \in io_waiters, w.token = tok, io_waiters' = io_waiters \ {w},
             PopFront(w.fd, NoWaiter), w.fd \notin timed_out
      PROVE  RegistryInv' /\ pc' = pc
  <2> DEFINE fd == w.fd
  <2>1. /\ fd \in Fds /\ registry \in [Fds -> Seq(Waiter)]
        /\ polled \in [Fds -> Waiter \cup {NoWaiter}]
    BY Zenon DEF TypeOK, ReactorType, Waiter
  <2>2. registry[fd] # <<>> /\ Head(registry[fd]) = w
    BY <1>0, <1>1, <1>4, Zenon DEF RegistryInv
  <2>3. w.fd = fd /\ PopFront(fd, NoWaiter) /\ fd \notin timed_out BY <1>4, Zenon
  <2> HIDE DEF fd
  <2>4. registry[fd] \in Seq(Waiter) /\ IsInjective(registry[fd])
    BY <2>1, <2>3, Zenon DEF RegistryInv
  <2>5. /\ Tail(registry[fd]) \in Seq(Waiter) /\ IsInjective(Tail(registry[fd]))
        /\ w \notin Range(Tail(registry[fd]))
        /\ Range(Tail(registry[fd])) \subseteq Range(registry[fd])
        /\ \A v \in Range(registry[fd]) : v = w \/ v \in Range(Tail(registry[fd]))
    <3>1. IsInjective(Tail(registry[fd])) /\ w \notin Range(Tail(registry[fd]))
      BY <2>2, <2>4, QueueFacts, Zenon
    <3>2. Tail(registry[fd]) \in Seq(Waiter) BY <2>2, <2>4, SeqFacts, Zenon
    <3>3. QED BY <2>2, <2>4, <3>1, <3>2, RangeFacts, Zenon
  <2>6. /\ registry' = [registry EXCEPT ![fd] = Tail(registry[fd])] /\ pc' = pc
        /\ polled' = [polled EXCEPT ![fd] = IF Tail(registry[fd]) = <<>> THEN NoWaiter
                                            ELSE Head(Tail(registry[fd]))]
    BY <2>2, <2>3, Zenon DEF PopFront, register
  <2>7. /\ registry'[fd] = Tail(registry[fd])
        /\ polled'[fd] = IF registry'[fd] = <<>> THEN NoWaiter ELSE Head(registry'[fd])
        /\ \A d \in Fds \ {fd} : registry'[d] = registry[d] /\ polled'[d] = polled[d]
    BY <2>1, <2>6, Zenon
  <2>8. OwnTokens'
    <3>1. registry'[fd] # <<>> => Head(registry'[fd]) \in Range(registry'[fd])
      BY <2>5, <2>7, RangeFacts, Zenon
    <3>2. Named(fd)' \subseteq Named(fd) BY <2>5, <2>7, <3>1, Zenon DEF Named
    <3>3. \A d \in Fds : Named(d)' \subseteq Named(d) BY <2>7, <3>2, Zenon DEF Named
    <3>4. QED BY <1>1, <1>4, <3>3, Zenon DEF RegistryInv, OwnTokens
  <2>9. RegistryAgrees'
    <3>1. \A v \in io_waiters' : v.fd \notin timed_out' => v \in Range(registry'[v.fd])
      <4>1. \A v \in io_waiters : v.fd \in Fds /\ (v.fd \notin timed_out => v \in Range(registry[v.fd]))
        BY Zenon DEF TypeOK, ReactorType, Waiter, RegistryInv, RegistryAgrees
      <4>2. QED BY <1>1, <1>4, <2>5, <2>7, <4>1, Zenon
    <3>2. ASSUME NEW d \in Fds \ timed_out', NEW v \in Range(registry'[d])
          PROVE  v.fd = d /\ v \in io_waiters'
      <4>1. v \in Range(registry[d]) BY <2>5, <2>7, Zenon
      <4>2. v.fd = d /\ v \in io_waiters BY <1>1, <4>1, Zenon DEF RegistryInv, RegistryAgrees
      <4>3. v # w BY <2>3, <2>5, <2>7, <4>2, Zenon
      <4>4. QED BY <1>4, <4>2, <4>3, Zenon
    <3>3. \A d \in Fds \ timed_out' :
            polled'[d] = IF registry'[d] = <<>> THEN NoWaiter ELSE Head(registry'[d])
      BY <1>1, <2>7, Zenon DEF RegistryInv, RegistryAgrees
    <3>4. QED BY <3>1, <3>2, <3>3, Zenon DEF RegistryAgrees
  <2>10. \A d \in Fds \ timed_out' : IsInjective(registry'[d])
    BY <1>1, <2>5, <2>7, Zenon DEF RegistryInv
  <2>11. ASSUME NEW v \in io_waiters', v.token \in events', v.fd \notin timed_out'
         PROVE  registry'[v.fd] # <<>> /\ Head(registry'[v.fd]) = v
    <3>1. v \in io_waiters /\ v # w BY <1>4, Zenon
    <3>2. v.fd \in Fds /\ registry[v.fd] # <<>> /\ Head(registry[v.fd]) = v
      BY <1>0, <1>1, <2>11, <3>1, Zenon DEF RegistryInv, TypeOK, ReactorType, Waiter
    <3>3. v.fd # fd BY <2>2, <3>1, <3>2, Zenon
    <3>4. QED BY <2>7, <3>2, <3>3, Zenon
  <2>12. QED BY <1>0, <1>1, <2>6, <2>8, <2>9, <2>10, <2>11, Zenon DEF RegistryInv
<1>5. QED BY <1>0, <1>2, <1>3, <1>4, Zenon

\* A due timer either finds no waiter or gives its fd up.
LEMMA RegistryTimer ==
    ASSUME TypeOK, RegistryInv, PopDueTimer
    PROVE  /\ RegistryInv'
           /\ pc' = pc \/ \E w \in io_waiters \ io_waiters' : w.fd \in timed_out'
<1>1. UNCHANGED <<resume_token, events>> /\ pc = "timers" BY Zenon DEF PopDueTimer, AtRoot
<1>2. CASE UNCHANGED <<io_waiters, registry, polled, edges, timed_out, pc>>
  BY <1>1, <1>2, RegistryKept, Zenon
<1>3. ASSUME NEW w \in io_waiters, io_waiters' = io_waiters \ {w},
             timed_out' = timed_out \cup {w.fd}, PopFront(w.fd, polled[w.fd])
      PROVE  RegistryInv' /\ \E v \in io_waiters \ io_waiters' : v.fd \in timed_out'
  <2>1. pc' # "events" BY <1>1, <1>3, Zenon DEF PopFront
  <2>2. QED BY <1>1, <1>3, <2>1, RegistryGivenUp, Zenon
<1>4. QED BY <1>2, <1>3, Zenon DEF PopDueTimer

\* Every step keeps the queues in order.
LEMMA RegistryNext ==
    ASSUME WaitInv, RegistryInv, [Next]_vars
    PROVE  RegistryInv'
<1> USE SchedulerAssumption
<1>0. resume_token \in Nat /\ TypeOK /\ WakeSources BY Zenon DEF WaitInv, TypeOK, TablesType
<1>a. 1 .. resume_token \subseteq 1 .. (resume_token + 1) BY <1>0
<1>1. ASSUME UNCHANGED <<io_waiters, registry, polled, timed_out, events>>,
             resume_token' = resume_token \/ resume_token' = resume_token + 1,
             pc' = "events" => pc = "events"
      PROVE  RegistryInv'
  BY <1>1, <1>a, RegistryKept, Zenon
<1>2. ASSUME NEW f \in Fibers, \/ Schedule(f) \/ CreateFiber(f) \/ RawYield(f) \/ Finish(f)
                               \/ IoWaitReady(f) \/ IoWaitRejected(f) \/ UnblockFromFiber(f)
                               \/ Block(f) \/ Yield(f) \/ RunBlockingInThread(f)
      PROVE  RegistryInv'
  BY <1>1, <1>2, Zenon DEF Schedule, CreateFiber, RawYield, Finish, IoWaitReady, NewToken,
                           IoWaitRejected, UnblockFromFiber, Block, Yield, RunBlockingInThread
<1>3. ASSUME NEW f \in Fibers, Raise(f) PROVE RegistryInv'
  <2>1. pc' = pc \/ pc' = "crashed" BY <1>3, Zenon DEF Raise
  <2>2. QED BY <1>1, <1>3, <2>1, Zenon DEF Raise
<1>4. ASSUME NEW f \in Fibers, IoWait(f) \/ IoWaitError(f) PROVE RegistryInv'
  <2> DEFINE W(fd, mask) == [fd |-> fd, readiness |-> mask, token |-> resume_token + 1]
  <2>1. resume_token' = resume_token + 1 BY <1>4, Zenon DEF IoWait, IoWaitError, NewToken
  <2>2. PICK fd \in Fds, mask \in IoEvents :
          /\ StoreWaiter(W(fd, mask))
          /\ \/ registry[fd] = <<>> /\ register(fd, W(fd, mask))
             \/ (registry[fd] # <<>> \/ polled[fd] # NoWaiter) /\ UNCHANGED polled
    BY <1>4, <2>1, Zenon DEF IoWait, IoWaitError, register_fails
  <2>3. /\ W(fd, mask) \in Waiter /\ W(fd, mask).fd = fd
        /\ W(fd, mask).token = resume_token + 1
    <3>1. resume_token + 1 \in Nat /\ mask \in SUBSET Flags BY <1>0
    <3>2. QED BY <3>1, Zenon DEF Waiter
  <2> HIDE DEF W
  <2>4. UNCHANGED <<pc, events, timed_out>> BY <1>4, Zenon DEF IoWait, IoWaitError
  <2>5. QED BY <1>0, <2>1, <2>2, <2>3, <2>4, RegistryStore, Zenon
<1>5. ASSUME \/ \E t \in Threads : ThreadStep(t)
             \/ \E fd \in Fds : FdReady(fd) \/ FdDrained(fd)
             \/ Advance \/ UNCHANGED vars
      PROVE  RegistryInv'
  BY <1>1, <1>5, Zenon DEF ThreadStep, ThreadUnblock, ThreadWorkDone, wake, ThreadEnds,
                           FdReady, FdDrained, Advance, vars
<1>6. CASE \/ Close \/ CheckWork \/ FetchDueEvents \/ PollInterrupted
           \/ EventsDone \/ TimersDone \/ SwitchUnblockBatch
           \/ EventsResumed \/ UnblockedResumed \/ TimersResumed
  BY <1>1, <1>6, Zenon DEF Close, CheckWork, FetchDueEvents, PollInterrupted, EventsDone,
      TimersDone, SwitchUnblockBatch, EventsResumed, UnblockedResumed, TimersResumed
<1>7. CASE PollReturns
  <2>1. UNCHANGED <<io_waiters, registry, polled, timed_out, resume_token>>
    BY <1>7, Zenon DEF PollReturns
  <2>2. \A tok \in events' : \E fd \in Fds : polled[fd] # NoWaiter /\ polled[fd].token = tok
    BY <1>0, <1>7, Zenon DEF PollReturns, ReadyFds, TypeOK, ReactorType
  <2>3. \A fd \in Fds : polled[fd] # NoWaiter =>
          /\ polled[fd].fd = fd /\ polled[fd].token \in 1 .. resume_token
          /\ \A w \in io_waiters : w.token = polled[fd].token => w = polled[fd]
    BY Zenon DEF RegistryInv, OwnTokens, Named
  <2>4. ASSUME NEW tok \in events' PROVE tok \in 1 .. resume_token
    <3>1. PICK fd \in Fds : polled[fd] # NoWaiter /\ polled[fd].token = tok BY <2>2, Zenon
    <3>2. QED BY <2>3, <3>1, Zenon
  <2>5. ASSUME NEW w \in io_waiters, w.token \in events', w.fd \notin timed_out
        PROVE  registry[w.fd] # <<>> /\ Head(registry[w.fd]) = w
    <3>1. PICK fd \in Fds : polled[fd] # NoWaiter /\ polled[fd].token = w.token
      BY <2>2, <2>5, Zenon
    <3>2. w = polled[fd] /\ w.fd = fd BY <2>3, <3>1, Zenon
    <3>3. QED BY <2>5, <3>1, <3>2, Zenon DEF RegistryInv, RegistryAgrees
  <2>6. RegistryAgrees' BY <2>1, Zenon DEF RegistryInv, RegistryAgrees
  <2>7. OwnTokens'
    <3>1. \A fd \in Fds : Named(fd)' \subseteq Named(fd) BY <2>1, Zenon DEF Named
    <3>2. QED BY <2>1, <3>1, Zenon DEF RegistryInv, OwnTokens
  <2>8. QED BY <2>1, <2>4, <2>5, <2>6, <2>7, Zenon DEF RegistryInv
<1>8. CASE ResumeEvent \/ ResumeUnblocked \/ ResumeTimer
  <2>1. /\ UNCHANGED <<io_waiters, registry, polled, timed_out, events, resume_token>>
        /\ pc' \in {pc, "crashed"}
    BY <1>8, Zenon DEF ResumeEvent, ResumeUnblocked, ResumeTimer, resume_blocked, resume_fiber
  <2>2. QED BY <1>1, <2>1, Zenon
<1>9. QED
  BY <1>0, <1>2, <1>3, <1>4, <1>5, <1>6, <1>7, <1>8, RegistryPop, RegistryTimer, Zenon
  DEF Next, FiberStep, TickStep

\* RegistryInv holds in every state.
LEMMA RegistryInvCorrect == Spec => [](WaitInv /\ RegistryInv)
<1>1. WaitInv /\ RegistryInv /\ [Next]_vars => RegistryInv' BY RegistryNext, Zenon
<1>2. QED BY <1>1, RegistryInit, WaitInvCorrect, PTL DEF Spec

\* RegistryAgrees holds in every state: however waits, events, unblocks and
\* timeouts interleave, an fd's queue, its waiters and its registration agree
\* as long as no wait on that fd has timed out.
THEOREM RegistryCorrect == Spec => []RegistryAgrees
<1>1. RegistryInv => RegistryAgrees BY Zenon DEF RegistryInv
<1>2. QED BY <1>1, RegistryInvCorrect, PTL

\* ReactorSound holds of every behaviour: collecting the due events and timers
\* raises only on an fd on which a wait has timed out.
THEOREM ReactorSoundCorrect == Spec => ReactorSound
<1> DEFINE Step == AtRoot("events") \/ AtRoot("timers") =>
                     \/ pc' # "crashed"
                     \/ \E w \in io_waiters \ io_waiters' : w.fd \in timed_out'
<1>1. ASSUME WaitInv, RegistryInv, [Next]_vars PROVE Step
  <2> SUFFICES ASSUME current = NoFiber, pc \in {"events", "timers"}
               PROVE  \/ pc' # "crashed"
                      \/ \E w \in io_waiters \ io_waiters' : w.fd \in timed_out'
    BY Zenon DEF AtRoot
  <2>1. ASSUME NEW f \in Fibers, Schedule(f) \/ CreateFiber(f) \/ FiberStep(f) PROVE FALSE
    BY <2>1, SchedulerAssumption, Zenon DEF Schedule, CreateFiber, FiberStep, Block, Yield,
        IoWaitReady, IoWaitRejected, IoWait, IoWaitError, RunBlockingInThread, UnblockFromFiber,
        RawYield, Finish, Raise, Running
  <2>2. ASSUME \/ \E x \in Threads : ThreadStep(x)
               \/ \E fd \in Fds : FdReady(fd) \/ FdDrained(fd)
               \/ Advance \/ UNCHANGED vars
        PROVE  pc' = pc
    BY <2>2, Zenon DEF ThreadStep, ThreadUnblock, ThreadWorkDone, wake, ThreadEnds,
        FdReady, FdDrained, Advance, vars
  <2>3. CASE HandleEvent \/ PopDueTimer
    BY <1>1, <2>3, RegistryPop, RegistryTimer, Zenon DEF WaitInv
  <2>4. CASE \/ Close \/ CheckWork \/ FetchDueEvents \/ PollReturns \/ PollInterrupted
             \/ EventsDone \/ TimersDone \/ SwitchUnblockBatch
             \/ EventsResumed \/ UnblockedResumed \/ TimersResumed
    BY <2>4, Zenon DEF Close, CheckWork, FetchDueEvents, PollReturns, PollInterrupted,
        EventsDone, TimersDone, SwitchUnblockBatch, EventsResumed, UnblockedResumed, TimersResumed
  <2>5. CASE ResumeEvent \/ ResumeUnblocked \/ ResumeTimer
    BY <2>5, Zenon DEF ResumeEvent, ResumeUnblocked, ResumeTimer, AtRoot
  <2>6. QED BY <1>1, <2>1, <2>2, <2>3, <2>4, <2>5, Zenon DEF Next, TickStep
<1>2. WaitInv /\ RegistryInv /\ [Next]_vars => [Step]_vars BY <1>1, Zenon
<1>3. QED BY <1>2, RegistryInvCorrect, PTL DEF Spec, ReactorSound
=============================================================================
