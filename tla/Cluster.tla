------------------------------- MODULE Cluster -------------------------------
(***************************************************************************)
(* The master process of cluster mode: its signal handler (server/        *)
(* signal.rs), its event loop (server/serve_strategy/cluster_mode.rs) and *)
(* the worker processes it boots and stops (server/process_worker.rs).    *)
(* The loop handles one event to the end before it takes the next; child  *)
(* processes, boot threads and signals go on meanwhile.                   *)
(***************************************************************************)
EXTENDS Integers, Sequences, FiniteSets, FiniteSetsExt, Functions

CONSTANTS
    Initial,        \* workers at the start
    Sizes,          \* worker counts a reloaded configuration may ask for
    Signals,        \* signals that operators send
    Capacity,       \* of the broadcast channel
    EarlyDeath,     \* TRUE: a child may die before its pid is stored
    ExecMayFail,    \* TRUE: exec may fail
    ForkMayFail,    \* TRUE: fork may fail
    Earlier,        \* how many other signals than SIGINT and SIGTERM came before
    MaxObjs, MaxPids, MaxSignals, MaxCrashes, MaxReboots   \* bounds

Objs == 1 .. MaxObjs     \* ProcessWorker objects, in the order of creation
Pids == 1 .. MaxPids     \* child processes, in the order of the forks
NoPid == 0
NoObj == 0

ASSUME ClusterAssumption ==
    /\ Initial \in Nat \ {0} /\ Sizes \subseteq Nat
    /\ Signals \subseteq {"INT", "HUP", "USR1", "USR2", "TTIN", "TTOU"}
    /\ Capacity \in Nat \ {0} /\ EarlyDeath \in BOOLEAN
    /\ ExecMayFail \in BOOLEAN /\ ForkMayFail \in BOOLEAN
    /\ \A n \in {MaxObjs, MaxPids, MaxSignals, MaxCrashes, MaxReboots} : n \in Nat
    /\ Earlier \subseteq Nat /\ Earlier # {}
    /\ Initial <= MaxObjs /\ Initial <= MaxPids

VARIABLES
    \* signal.rs
    SIGINT_COUNT, SHUTDOWN_REQUESTED,
    queue, lagged,      \* the master's broadcast receiver
    chld,               \* a SIGCHLD is pending
    \* ClusterMode
    process_workers,    \* a Vec, always in the order of creation: the last is the Max
    changed,            \* CHILD_SIGNAL_SENDER, not yet seen
    master,             \* where the event loop is
    target, after,      \* the worker being stopped and what follows
    old, next_workers, to_load, \* the locals of Reload; old also of shutdown
    workers,            \* server_params.workers
    \* ProcessWorker
    child_pid, just_started, made,
    boots,              \* the threads that run boot
    serving,            \* those that took a failed fork for the child's side
    aborted,            \* one of them has ended the master
    proc, forks,        \* the child processes
    \* history and bounds
    raced,
    ints, others,       \* SIGINTs and SIGTERMs so far, other signals so far
    sent, crashes, reboots

sigs == <<SIGINT_COUNT, SHUTDOWN_REQUESTED, queue, lagged, chld>>
loop == <<process_workers, changed, master, target, after, old, next_workers, to_load, workers>>
objs == <<child_pid, just_started, made, serving>>
procs == <<proc, forks>>
history == <<raced, ints, others>>
bounds == <<sent, crashes, reboots>>
vars == <<sigs, loop, objs, boots, procs, history, bounds, aborted>>

Ended == {"exited", "forced", "reexec", "stuck"}

\* AtomicI8 arithmetic.
Wrap8(n) == ((n + 128) % 256) - 128

\* ClusterMode::run up to the loop: the first workers are booted in line.
Init ==
    /\ others \in Earlier /\ SIGINT_COUNT = Wrap8(-others) /\ SHUTDOWN_REQUESTED = FALSE
    /\ queue = <<>> /\ lagged = FALSE /\ chld = FALSE
    /\ process_workers = 1 .. Initial /\ changed = FALSE
    /\ master = "select" /\ target = NoObj /\ after = "select"
    /\ old = {} /\ next_workers = {} /\ to_load = 0 /\ workers = Initial
    /\ child_pid = [o \in Objs |-> IF o <= Initial THEN o ELSE NoPid]
    /\ just_started = [o \in Objs |-> TRUE] /\ made = Initial
    /\ boots = <<>> /\ serving = {} /\ aborted = FALSE
    /\ proc = [p \in Pids |-> IF p <= Initial THEN "running" ELSE "free"]
    /\ forks = Initial
    /\ raced = {} /\ ints = 0
    /\ sent = 0 /\ crashes = 0 /\ reboots = 0

-----------------------------------------------------------------------------
(* Child processes *)

Live == {"running", "asked", "killed"}

is_alive(o) == child_pid[o] # NoPid /\ proc[child_pid[o]] \in Live

\* SIGTERM to the live children of the workers os.
request_shutdown(os) ==
    LET ps == {child_pid[o] : o \in {o \in os : is_alive(o)}} IN
    [p \in Pids |-> IF p \in ps /\ proc[p] = "running" THEN "asked" ELSE proc[p]]

\* Mutant: SIGKILL is not sent.
force_kill_skipped(os) == proc

\* SIGKILL to the live children of the workers os.
force_kill(os) ==
    LET ps == {child_pid[o] : o \in {o \in os : is_alive(o)}} IN
    [p \in Pids |-> IF p \in ps THEN "killed" ELSE proc[p]]

\* The process p is known to its worker.
Stored(p) == \E o \in Objs : child_pid[o] = p

\* A child ends: after SIGTERM or SIGKILL, or by itself.
ChildExits(p) ==
    /\ master \notin Ended
    /\ \/ proc[p] \in {"asked", "killed"} /\ UNCHANGED crashes
       \/ /\ proc[p] = "running" /\ (EarlyDeath \/ Stored(p))
          /\ crashes < MaxCrashes /\ crashes' = crashes + 1
    /\ proc' = [proc EXCEPT ![p] = "dead"]
    /\ chld' = TRUE
    /\ UNCHANGED <<SIGINT_COUNT, SHUTDOWN_REQUESTED, queue, lagged, loop, objs, boots, forks,
                   history, sent, reboots>>

-----------------------------------------------------------------------------
(* receive_signal *)

Event == [INT |-> "Shutdown", HUP |-> "Reload", USR1 |-> "Restart", USR2 |-> "PrintInfo",
          TTIN |-> "IncreaseWorkers", TTOU |-> "DecreaseWorkers", CHLD |-> "ChildTerminated"]

\* broadcast::Sender::send: a full channel drops the oldest event and the
\* receiver's next recv fails with Lagged.
send_lifecycle_event(e) ==
    /\ queue' = Append(IF Len(queue) = Capacity THEN Tail(queue) ELSE queue, e)
    /\ lagged' = (lagged \/ Len(queue) = Capacity)

\* Mutant: the first SIGINT is forceful.
ShutdownEventEager(count) == IF count < 1 THEN "Shutdown" ELSE "ForceShutdown"

\* Which of the two shutdowns a count asks for.
ShutdownEvent(count) == IF count < 2 THEN "Shutdown" ELSE "ForceShutdown"

receive_signal(sig) ==
    LET count == Wrap8(SIGINT_COUNT - 1) IN
    IF sig = "INT"    \* SIGTERM and SIGINT
    THEN /\ SHUTDOWN_REQUESTED' = TRUE
         /\ SIGINT_COUNT' = Wrap8(count + 2)
         /\ send_lifecycle_event(ShutdownEvent(SIGINT_COUNT'))
         /\ ints' = ints + 1 /\ UNCHANGED others
    ELSE /\ SIGINT_COUNT' = count
         /\ send_lifecycle_event(Event[sig])
         /\ others' = others + 1 /\ UNCHANGED <<SHUTDOWN_REQUESTED, ints>>

OperatorSignals ==
    /\ master \notin Ended
    /\ sent < MaxSignals /\ sent' = sent + 1
    /\ \E sig \in Signals : receive_signal(sig)
    /\ UNCHANGED <<chld, loop, objs, boots, procs, raced, crashes, reboots>>

\* Pending SIGCHLDs merge into one.
ChildSignal ==
    /\ master \notin Ended
    /\ chld /\ chld' = FALSE
    /\ receive_signal("CHLD")
    /\ UNCHANGED <<loop, objs, boots, procs, raced, bounds>>

-----------------------------------------------------------------------------
(* ProcessWorker::boot, on a thread of its own *)

\* awaited: reboot waits for the thread.
Boot(o, awaited) == [obj |-> o, step |-> "read", pid |-> NoPid, awaited |-> awaited]
Booting(o) == \E i \in DOMAIN boots : boots[i].obj = o
Step(i, step) == boots' = [boots EXCEPT ![i].step = step]

\* The pid the worker has; its process, if alive, gets SIGTERM.
BootRead(i) ==
    /\ boots[i].step = "read"
    /\ LET o == boots[i].obj IN
       /\ Step(i, IF child_pid[o] = NoPid THEN "fork" ELSE "clear")
       /\ proc' = request_shutdown({o})
    /\ UNCHANGED <<sigs, loop, objs, forks, history, bounds>>

BootClear(i) ==
    /\ boots[i].step = "clear"
    /\ Step(i, "fork")
    /\ child_pid' = [child_pid EXCEPT ![boots[i].obj] = NoPid]
    /\ UNCHANGED <<sigs, loop, just_started, made, serving, procs, history, bounds>>

\* fork succeeds.
BootFork(i) ==
    /\ boots[i].step = "fork"
    /\ forks < MaxPids /\ forks' = forks + 1
    /\ proc' = [proc EXCEPT ![forks'] = "running"]
    /\ boots' = [boots EXCEPT ![i].step = "store", ![i].pid = forks']
    /\ UNCHANGED <<sigs, loop, objs, history, bounds>>

\* The sequence s without its i-th element.
RemoveAt(s, i) == SubSeq(s, 1, i - 1) \o SubSeq(s, i + 1, Len(s))

\* fork fails, which boot cannot tell from being the child: the thread runs a
\* worker inside the master, with no pid, and tells nobody that it booted.
BootForkFails(i) ==
    /\ ForkMayFail /\ boots[i].step = "fork"
    /\ serving' = serving \cup {boots[i]}
    /\ boots' = RemoveAt(boots, i)
    /\ UNCHANGED <<sigs, loop, child_pid, just_started, made, procs, history, bounds>>

BootStore(i) ==
    /\ boots[i].step = "store"
    /\ child_pid' = [child_pid EXCEPT ![boots[i].obj] = boots[i].pid]
    /\ boots' = RemoveAt(boots, i)
    /\ UNCHANGED <<sigs, loop, just_started, made, serving, procs, history, bounds>>

\* The threads outlive the loop, not the process.
BootStep(i) ==
    /\ master \notin {"forced", "reexec"}
    /\ BootRead(i) \/ BootClear(i) \/ BootFork(i) \/ BootForkFails(i) \/ BootStore(i)

\* The worker inside the master comes to its end or restarts: it exits or
\* re-executes, and the master with it, wherever its loop is.
ServeEnds ==
    /\ master \notin Ended \ {"stuck"}
    /\ serving # {}
    /\ ~aborted /\ aborted' = TRUE
    /\ UNCHANGED <<sigs, loop, objs, boots, procs, history, bounds>>

\* The process of a worker is dead.
Dead(o) == child_pid[o] # NoPid /\ ~is_alive(o)

\* Two seconds after the object was made; booting again does not reset it.
\* Only a worker found dead is asked, so the step is taken only then.
Settle(o) ==
    /\ master \notin Ended
    /\ o <= made /\ just_started[o] /\ Dead(o)
    /\ just_started' = [just_started EXCEPT ![o] = FALSE]
    /\ UNCHANGED <<sigs, loop, child_pid, made, serving, boots, procs, history, bounds>>

-----------------------------------------------------------------------------
(* The event loop *)

\* The loop stops the workers os: those that a boot thread still works on
\* are remembered.
Racing(os) == raced' = raced \cup {o \in os : Booting(o)}

\* The worker o is stopped, which leaves the processes procs1.
Continue(o, procs1) ==
    /\ target' = NoObj
    /\ IF after = "reboot"
       THEN master' = "booting" /\ boots' = Append(boots, Boot(o, TRUE))
       ELSE master' = after /\ UNCHANGED boots
    /\ proc' = procs1

\* The first half of graceful_shutdown(o), then what follows.
BeginStop(o, then) ==
    /\ proc' = request_shutdown({o})
    /\ master' = "stopping" /\ target' = o /\ after' = then
    /\ Racing({o})

\* graceful_shutdown sees the worker dead, or kills it at the timeout.
StopPoll ==
    /\ master = "stopping"
    /\ ~is_alive(target)
    /\ Continue(target, proc)
    /\ UNCHANGED <<sigs, process_workers, changed, after, old, next_workers, to_load, workers,
                   objs, forks, raced, ints, others, bounds>>

StopTimeout ==
    /\ master = "stopping"
    /\ is_alive(target)
    /\ Continue(target, force_kill({target}))
    /\ UNCHANGED <<sigs, process_workers, changed, after, old, next_workers, to_load, workers,
                   objs, forks, raced, ints, others, bounds>>

\* A worker that dies young is given up.
CrashLoop(o) == Dead(o) /\ just_started[o]

\* The members of the finite set S in some order, each of them once.
SetToSeq(S) == CHOOSE s \in [1 .. Cardinality(S) -> S] : IsInjective(s)

\* CHILD_SIGNAL_SENDER fired: boot_if_dead on every worker.
ChildChanged ==
    /\ master = "select"
    /\ changed /\ changed' = FALSE
    /\ process_workers' = {o \in process_workers : ~CrashLoop(o)}
    /\ LET dead == SetToSeq({o \in process_workers' : Dead(o)}) IN
       boots' = boots \o [i \in DOMAIN dead |-> Boot(dead[i], FALSE)]
    /\ Racing({o \in process_workers : Dead(o)})
    /\ UNCHANGED <<sigs, master, target, after, old, next_workers, to_load, workers, objs, procs,
                   ints, others, bounds>>

\* The memory check: some worker is over the limit and is rebooted.
MemoryCheck ==
    /\ master = "select"
    /\ reboots < MaxReboots /\ reboots' = reboots + 1
    /\ \E o \in process_workers : is_alive(o) /\ BeginStop(o, "reboot")
    /\ UNCHANGED <<sigs, process_workers, changed, old, next_workers, to_load, workers, objs, boots,
                   forks, ints, others, sent, crashes>>

Rebooted ==
    /\ master = "booting"
    /\ \A i \in DOMAIN boots : ~boots[i].awaited
    /\ \A b \in serving : ~b.awaited
    /\ master' = "select"
    /\ UNCHANGED <<sigs, process_workers, changed, target, after, old, next_workers, to_load,
                   workers, objs, boots, procs, history, bounds>>

\* shutdown(), up to its select: then says how the handler goes on.
BeginShutdown(then) ==
    /\ proc' = request_shutdown(process_workers)
    /\ old' = process_workers
    /\ master' = "shutting" /\ after' = then
    /\ Racing(process_workers)

\* recv() of one event. An error, Lagged included, ends the loop.
RecvLagged ==
    /\ master = "select" /\ lagged
    /\ master' = "exited"
    /\ UNCHANGED <<sigs, process_workers, changed, target, after, old, next_workers, to_load,
                   workers, objs, boots, procs, history, bounds>>

Recv(e) ==
    /\ master = "select" /\ ~lagged
    /\ queue # <<>> /\ Head(queue) = e
    /\ queue' = Tail(queue)
    /\ UNCHANGED <<SIGINT_COUNT, SHUTDOWN_REQUESTED, lagged, chld>>

\* Mutant: the Break of shutdown() is ignored.
ShutdownThenIgnored == "select"
ShutdownThen == "exited"

Shutdown ==
    /\ Recv("Shutdown")
    /\ BeginShutdown(ShutdownThen)
    /\ UNCHANGED <<process_workers, changed, target, next_workers, to_load, workers, objs, boots,
                   forks, ints, others, bounds>>

\* Mutant: the Break of shutdown() is not ignored.
RestartThenBreak == "exited"
RestartThen == "exec"

\* Nothing happens if the configuration fails its check or dup_fds fails.
Restart ==
    /\ Recv("Restart")
    /\ \/ /\ BeginShutdown(RestartThen)
          /\ UNCHANGED <<process_workers, changed, target, next_workers, to_load, workers, objs,
                         boots, forks, ints, others, bounds>>
       \/ UNCHANGED <<loop, objs, boots, procs, history, bounds>>

\* The configuration is refused, or replaces the current one; then the master
\* re-executes, unless dup_fds fails, or begins a phased restart.
Reload ==
    /\ Recv("Reload")
    /\ \/ UNCHANGED <<loop, objs, boots, procs, history, bounds>>
       \/ \E n \in Sizes, preload \in BOOLEAN :
          /\ workers' = n
          /\ IF workers = 1 \/ preload
             THEN /\ BeginShutdown(RestartThen) \/ UNCHANGED <<proc, old, master, after, raced>>
                  /\ UNCHANGED <<process_workers, next_workers, to_load, target>>
             ELSE /\ master' = "reload" /\ to_load' = n
                  /\ old' = process_workers /\ process_workers' = {}
                  /\ next_workers' = {}
                  /\ UNCHANGED <<target, after, proc, raced>>
          /\ UNCHANGED <<changed, objs, boots, forks, ints, others, bounds>>

\* next_worker_id() locks process_workers, which the handler already holds;
\* the mutex is not reentrant, and the loop waits for ever.
IncreaseWorkers ==
    /\ Recv("IncreaseWorkers")
    /\ master' = "stuck"
    /\ UNCHANGED <<process_workers, changed, target, after, old, next_workers, to_load, workers,
                   objs, boots, procs, history, bounds>>

DecreaseWorkers ==
    /\ Recv("DecreaseWorkers")
    /\ IF process_workers = {}
       THEN UNCHANGED <<process_workers, master, target, after, proc, raced>>
       ELSE /\ process_workers' = process_workers \ {Max(process_workers)}
            /\ BeginStop(Max(process_workers), "select")
    /\ UNCHANGED <<changed, old, next_workers, to_load, workers, objs, boots, forks, ints, others,
                   bounds>>

ForceShutdown ==
    /\ Recv("ForceShutdown")
    /\ proc' = force_kill(process_workers)
    /\ master' = "forced"
    /\ UNCHANGED <<process_workers, changed, target, after, old, next_workers, to_load, workers,
                   objs, boots, forks, history, bounds>>

\* Mutant: the flag is not reset at the end of a reload.
ReloadInProgressKept == made > Initial

\* Set from the start of a phased restart to its end.
RELOAD_IN_PROGRESS == master = "reload" \/ (master = "stopping" /\ after = "reload")

ChildTerminated ==
    /\ Recv("ChildTerminated")
    /\ changed' = (changed \/ ~RELOAD_IN_PROGRESS)
    /\ UNCHANGED <<process_workers, master, target, after, old, next_workers, to_load, workers,
                   objs, boots, procs, history, bounds>>

PrintInfo ==
    /\ Recv("PrintInfo")
    /\ UNCHANGED <<loop, objs, boots, procs, history, bounds>>

-----------------------------------------------------------------------------
(* The rest of shutdown() and of Reload *)

\* The monitor task forgets the workers it finds dead.
MonitorPoll ==
    /\ master = "shutting"
    /\ old' = {o \in old : is_alive(o)}
    /\ old' # old \/ old = {}
    /\ master' = IF old' = {} THEN after ELSE master
    /\ UNCHANGED <<sigs, process_workers, changed, target, after, next_workers, to_load, workers,
                   objs, boots, procs, raced, ints, others, bounds>>

\* shutdown_timeout.
ShutdownTimeout ==
    /\ master = "shutting"
    /\ proc' = force_kill(process_workers)
    /\ old' = {} /\ master' = after
    /\ UNCHANGED <<sigs, process_workers, changed, target, after, next_workers, to_load, workers,
                   objs, boots, forks, raced, ints, others, bounds>>

\* reload_exec replaces the process; should exec fail, the loop goes on.
ReloadExec ==
    /\ master = "exec"
    /\ master' = "reexec" \/ (ExecMayFail /\ master' = "select")
    /\ UNCHANGED <<sigs, process_workers, changed, target, after, old, next_workers, to_load,
                   workers, objs, boots, procs, history, bounds>>

\* Reload boots one more new worker and stops the last old one.
ReloadBoot ==
    /\ master = "reload" /\ to_load > 0
    /\ made < MaxObjs /\ made' = made + 1
    /\ to_load' = to_load - 1
    /\ boots' = Append(boots, Boot(made', FALSE))
    /\ next_workers' = next_workers \cup {made'}
    /\ IF old = {}
       THEN UNCHANGED <<old, proc, master, target, after, raced>>
       ELSE old' = old \ {Max(old)} /\ BeginStop(Max(old), "reload")
    /\ UNCHANGED <<sigs, process_workers, changed, workers, child_pid, just_started, serving,
                   forks, ints, others, bounds>>

\* Old workers in excess of the new count.
ReloadStopRest ==
    /\ master = "reload" /\ to_load = 0 /\ old # {}
    /\ old' = old \ {Min(old)}
    /\ BeginStop(Min(old), "reload")
    /\ UNCHANGED <<sigs, process_workers, changed, next_workers, to_load, workers, objs, boots,
                   forks, ints, others, bounds>>

\* Mutant: the new workers are not kept.
ReloadKeepsNone == process_workers
ReloadKeeps == process_workers \cup next_workers

ReloadDone ==
    /\ master = "reload" /\ to_load = 0 /\ old = {}
    /\ process_workers' = ReloadKeeps
    /\ next_workers' = {} /\ master' = "select"
    /\ UNCHANGED <<sigs, changed, target, after, old, to_load, workers, objs, boots, procs,
                   history, bounds>>

-----------------------------------------------------------------------------

Handle ==
    Shutdown \/ Restart \/ Reload \/ IncreaseWorkers \/ DecreaseWorkers \/ ForceShutdown
    \/ ChildTerminated \/ PrintInfo

Progress ==
    StopPoll \/ StopTimeout \/ Rebooted \/ MonitorPoll \/ ShutdownTimeout \/ ReloadExec
    \/ ReloadBoot \/ ReloadStopRest \/ ReloadDone

\* The master is there.
Alive == ~aborted /\ UNCHANGED aborted

MasterStep ==
    \/ \E p \in Pids : ChildExits(p)
    \/ OperatorSignals \/ ChildSignal
    \/ \E i \in DOMAIN boots : BootStep(i)
    \/ \E o \in Objs : Settle(o)
    \/ ChildChanged \/ MemoryCheck \/ RecvLagged \/ Handle \/ Progress

Next == ServeEnds \/ (Alive /\ MasterStep)

Spec == Init /\ [][Next]_vars

\* Signals, boot threads and the loop make progress while the master is there;
\* timeouts expire.  A worker that runs inside the master need not end.
Fairness ==
    /\ WF_vars(Alive /\ ChildSignal)
    /\ WF_vars(Alive /\ \E i \in DOMAIN boots : BootStep(i))
    /\ WF_vars(Alive /\ ChildChanged)
    /\ WF_vars(Alive /\ (RecvLagged \/ Handle))
    /\ WF_vars(Alive /\ Progress)

FairSpec == Spec /\ Fairness

-----------------------------------------------------------------------------

\* Every variable has its type, and only workers that exist are listed.
TypeOK ==
    /\ SIGINT_COUNT \in -128 .. 127 /\ SHUTDOWN_REQUESTED \in BOOLEAN
    /\ queue \in Seq({Event[s] : s \in DOMAIN Event} \cup {"ForceShutdown"})
    /\ Len(queue) <= Capacity /\ lagged \in BOOLEAN /\ chld \in BOOLEAN
    /\ \A s \in {process_workers, old, next_workers} : s \subseteq 1 .. made
    /\ changed \in BOOLEAN
    /\ master \in {"select", "shutting", "stopping", "booting", "reload", "exec"} \cup Ended
    /\ target \in 0 .. made /\ (target # NoObj <=> master = "stopping")
    /\ after \in {"select", "reload", "reboot", "exec", "exited"}
    /\ to_load \in Nat /\ workers \in Nat
    /\ child_pid \in [Objs -> 0 .. forks] /\ just_started \in [Objs -> BOOLEAN]
    /\ made \in 0 .. MaxObjs /\ forks \in 0 .. MaxPids
    /\ boots \in Seq([obj : 1 .. made, step : {"read", "clear", "fork", "store"},
                      pid : 0 .. forks, awaited : BOOLEAN])
    /\ proc \in [Pids -> {"free", "dead"} \cup Live]
    /\ \A b \in serving : b.obj \in 1 .. made
    /\ aborted \in BOOLEAN
    /\ raced \subseteq 1 .. made /\ ints \in Nat /\ others \in Nat
    /\ sent \in 0 .. MaxSignals /\ crashes \in 0 .. MaxCrashes /\ reboots \in 0 .. MaxReboots

\* The workers the loop can still reach.
Known == process_workers \cup old \cup next_workers \cup {target}

\* A process that was not sent SIGKILL is always held by a worker the loop
\* can reach or by the thread that forked it: reloads, reboots, scaling down
\* and crashes lose no child, unless a worker is stopped or booted again
\* while one of its boot threads is still at work.
NoLostChild ==
    raced = {} =>
        \A p \in Pids : proc[p] \in {"running", "asked"} =>
            \/ \E i \in DOMAIN boots : boots[i].pid = p
            \/ \E o \in Known : o # NoObj /\ child_pid[o] = p

\* When shutdown() has come to its end, for an exit or a re-exec, no child
\* is left that is neither dead nor killed, but for the same race.
GoneAtExit ==
    (master = "exited" /\ after = "exited") \/ master \in {"exec", "reexec"} =>
        raced # {} \/ \A p \in Pids : proc[p] \in {"free", "dead", "killed"}

Forced == master = "forced" \/ \E i \in DOMAIN queue : queue[i] = "ForceShutdown"

\* A forceful shutdown is asked for by two SIGINTs or SIGTERMs, as the manual
\* has it.  Every other signal lowers the eight-bit count of them, which wraps
\* around: this is what the code does not keep.
ForceNeedsTwo == Forced => ints >= 2

\* What it does keep: one SIGINT alone is forceful only after 130 other signals,
\* SIGCHLD among them.
ForceOnlyWrapped == Forced => ints >= 2 \/ others >= 130

\* The loop ends normally only when a shutdown was asked for, or the channel
\* overflowed: a restart that cannot exec keeps the master.
ExitOnRequest == master = "exited" => SHUTDOWN_REQUESTED \/ lagged

\* The loop waits for a boot thread that will never report.
Hung == \E b \in serving : b.awaited

\* A listed worker whose child died gets a new one, or is given up as a
\* crash loop, or the loop stops or replaces it, unless boot threads race or
\* a failed fork leaves the worker, the loop or the whole master behind.
DeadReplaced ==
    \A o \in Objs :
        (o \in process_workers /\ Dead(o))
            ~> (o \notin process_workers \/ is_alive(o) \/ master \in Ended
                \/ raced # {} \/ aborted \/ Hung \/ \E b \in serving : b.obj = o)

\* SIGINT and SIGTERM end the master, or meet its replacement by exec, unless
\* the loop waits for a boot whose fork failed.
StopHonoured ==
    SHUTDOWN_REQUESTED ~> (master \in {"exited", "forced", "reexec"} \/ aborted \/ Hung)
=============================================================================
