---------------------------- MODULE ClusterProofs ----------------------------
(***************************************************************************)
(* The cluster master for any number of workers, signals, crashes, reboots *)
(* and reloads and any capacity of the event channel: where every child    *)
(* process is held until it has ended, that shutdown() leaves none behind, *)
(* and what the end of the master and a forceful shutdown need.            *)
(***************************************************************************)
EXTENDS Cluster, TLAPS, FiniteSetTheorems

\* Where the workers are while the loop is in each of its phases.
Phases ==
    /\ next_workers # {} => RELOAD_IN_PROGRESS
    /\ old # {} => RELOAD_IN_PROGRESS \/ master = "shutting"
    /\ master = "shutting" => old \subseteq process_workers /\ after \in {"exec", "exited"}
    /\ master = "stopping" => after \in {"select", "reload", "reboot"}
    /\ master = "stopping" /\ after = "reboot" => target \in process_workers
    /\ after = "exited" => master \in {"shutting", "exited"}
    /\ \A o \in Objs : o > made => child_pid[o] = NoPid

\* The loop is in shutdown(), or has come through it.
Stopped == master \in {"shutting", "exec", "reexec"} \/ after = "exited"

Unharmed(p) == proc[p] \in {"running", "asked"}

Holds(o) == child_pid[o] # NoPid /\ Unharmed(child_pid[o])

BootThread(i) ==
    LET o == boots[i].obj IN
    /\ o \in process_workers \cup old \cup next_workers /\ o # target
    /\ boots[i].step \in {"read", "clear"} => ~Holds(o)
    /\ boots[i].step \in {"fork", "store"} => child_pid[o] = NoPid
    /\ boots[i].step # "store" => boots[i].pid = NoPid

Threads ==
    /\ \A i, k \in DOMAIN boots : boots[i].obj = boots[k].obj => i = k
    /\ \A i \in DOMAIN boots : BootThread(i)
    /\ Stopped => boots = <<>>

Draining == master = "shutting" => \A o \in process_workers \ old : ~is_alive(o)

\* A set of naturals that is not empty has a least element.
LEMMA LeastNat ==
    ASSUME NEW T \in SUBSET Nat, T # {} PROVE \E x \in T : \A y \in T : x <= y
<1> DEFINE R == OpToRel(<, Nat)
<1>1. IsWellFoundedOn(R, Nat)
    BY NatLessThanWellFounded, Zenon
<1>2. PICK x \in T : \A y \in T : ~(<<y, x>> \in R)
  <2> HIDE DEF R
  <2> QED
      BY <1>1, WFMin, Zenon
<1>3. \A y \in T : ~(y < x)
    BY <1>2 DEF OpToRel
<1> QED
    BY <1>3

\* Max and Min of a set of workers are members of it.
LEMMA Extremes ==
    ASSUME NEW n \in Nat, NEW S \in SUBSET (1 .. n), S # {}
    PROVE  Max(S) \in S /\ Min(S) \in S
<1>1. \E x \in S : \A y \in S : x <= y
    BY LeastNat
<1> DEFINE T == {n - x : x \in S}
<1>2. T \in SUBSET Nat /\ T # {}
  <2>1. \A x \in S : x \in 1 .. n
      OBVIOUS
  <2>2. \A x \in 1 .. n : n - x \in Nat
      OBVIOUS
  <2> QED
      BY <2>1, <2>2, Zenon
<1> HIDE DEF T
<1>3. PICK z \in T : \A y \in T : z <= y
    BY <1>2, LeastNat, Zenon
<1>4. PICK x \in S : z = n - x
    BY DEF T
<1>5. \A y \in S : n - y \in T /\ y \in Int
    BY DEF T
<1>6. \A y \in S : x >= y
    BY <1>3, <1>4, <1>5
<1>7. Max(S) \in S
    BY <1>6, Zenon DEF Max
<1>8. Min(S) \in S
    BY <1>1, Zenon DEF Min
<1> QED
    BY <1>7, <1>8, Zenon

\* SetToSeq lists the members of a finite set, each of them once.
LEMMA Listed ==
    ASSUME NEW S, IsFiniteSet(S)
    PROVE  /\ SetToSeq(S) \in Seq(S)
           /\ \A i, k \in DOMAIN SetToSeq(S) : SetToSeq(S)[i] = SetToSeq(S)[k] => i = k
<1> DEFINE n == Cardinality(S)
<1>1. n \in Nat /\ ExistsBijection(1 .. n, S)
    BY FS_CardinalityType, Zenon
<1> HIDE DEF n
<1>2. PICK f \in [1 .. n -> S] : \A a, b \in 1 .. n : f[a] = f[b] => a = b
    BY <1>1, Zenon DEF ExistsBijection, Bijection, Injection, IsInjective
<1>3. IsInjective(f)
    BY <1>2, Zenon DEF IsInjective
<1>4. SetToSeq(S) \in [1 .. n -> S] /\ IsInjective(SetToSeq(S))
    BY <1>3, Zenon DEF SetToSeq, n
<1>5. SetToSeq(S) \in Seq(S)
    BY <1>1, <1>4
<1> QED
    BY <1>4, <1>5, Zenon DEF IsInjective

\* What is left when one element of a sequence is removed.
LEMMA Removed ==
    ASSUME NEW S, NEW s \in Seq(S), NEW i \in DOMAIN s
    PROVE  /\ RemoveAt(s, i) \in Seq(S)
           /\ \A k \in DOMAIN RemoveAt(s, i) :
                LET m == IF k < i THEN k ELSE k + 1 IN
                m \in DOMAIN s /\ m # i /\ RemoveAt(s, i)[k] = s[m]
           /\ \A m \in DOMAIN s : m # i => \E k \in DOMAIN RemoveAt(s, i) : RemoveAt(s, i)[k] = s[m]
<1> DEFINE a == SubSeq(s, 1, i - 1)
           b == SubSeq(s, i + 1, Len(s))
<1>1. /\ Len(s) \in Nat /\ DOMAIN s = 1 .. Len(s) /\ i \in 1 .. Len(s)
    OBVIOUS
<1>2. /\ a \in Seq(S) /\ Len(a) = i - 1 /\ \A k \in 1 .. i - 1 : a[k] = s[k]
    BY <1>1
<1>3. /\ b \in Seq(S) /\ Len(b) = Len(s) - i /\ \A k \in 1 .. Len(s) - i : b[k] = s[k + i]
    BY <1>1
<1> HIDE DEF a, b
<1>4. RemoveAt(s, i) = a \o b
    BY Zenon DEF RemoveAt, a, b
<1>5. /\ a \o b \in Seq(S) /\ DOMAIN (a \o b) = 1 .. Len(s) - 1
      /\ \A k \in 1 .. Len(s) - 1 : (a \o b)[k] = IF k < i THEN s[k] ELSE s[k + 1]
  <2>1. a \o b \in Seq(S) /\ Len(a \o b) = Len(s) - 1
    <3>0. a \in Seq(S) /\ b \in Seq(S)
        BY <1>2, <1>3, Zenon
    <3>1. a \o b \in Seq(S) /\ Len(a \o b) = Len(a) + Len(b)
        BY <3>0
    <3> QED
        BY <1>1, <1>2, <1>3, <3>1
  <2>2. ASSUME NEW k \in 1 .. Len(s) - 1 PROVE (a \o b)[k] = IF k < i THEN s[k] ELSE s[k + 1]
    <3>1. CASE k < i
        BY <1>1, <1>2, <1>3, <3>1
    <3>2. CASE ~(k < i)
      <4>1. k - (i - 1) \in 1 .. Len(s) - i /\ (k - (i - 1)) + i = k + 1
          BY <1>1, <3>2
      <4>2. (a \o b)[k] = b[k - (i - 1)]
          BY <1>1, <1>2, <1>3, <3>2
      <4> QED
          BY <1>3, <3>2, <4>1, <4>2
    <3> QED
        BY <3>1, <3>2
  <2> QED
      BY <2>1, <2>2
<1>6. \A m \in DOMAIN s : m # i => \E k \in DOMAIN (a \o b) : (a \o b)[k] = s[m]
  <2> SUFFICES ASSUME NEW m \in DOMAIN s, m # i PROVE \E k \in DOMAIN (a \o b) : (a \o b)[k] = s[m]
      OBVIOUS
  <2>1. CASE m < i
    <3>1. m \in 1 .. Len(s) - 1
        BY <1>1, <2>1
    <3> QED
        BY <1>5, <2>1, <3>1, Zenon
  <2>2. CASE m > i
    <3>1. m - 1 \in 1 .. Len(s) - 1 /\ ~(m - 1 < i) /\ (m - 1) + 1 = m
        BY <1>1, <2>2
    <3>2. (a \o b)[m - 1] = s[(m - 1) + 1]
        BY <1>5, <3>1, Zenon
    <3> QED
        BY <1>5, <3>1, <3>2, Zenon
  <2> QED
      BY <1>1, <2>1, <2>2
<1>7. \A k \in 1 .. Len(s) - 1 : LET m == IF k < i THEN k ELSE k + 1 IN
         m \in DOMAIN s /\ m # i /\ (a \o b)[k] = s[m]
  <2> SUFFICES ASSUME NEW k \in 1 .. Len(s) - 1
               PROVE  LET m == IF k < i THEN k ELSE k + 1 IN
                      m \in DOMAIN s /\ m # i /\ (a \o b)[k] = s[m]
      OBVIOUS
  <2>1. (IF k < i THEN k ELSE k + 1) \in DOMAIN s /\ (IF k < i THEN k ELSE k + 1) # i
      BY <1>1
  <2>2. (a \o b)[k] = s[IF k < i THEN k ELSE k + 1]
      BY <1>5, Zenon
  <2> QED
      BY <2>1, <2>2, Zenon
<1> QED
    BY <1>4, <1>5, <1>6, <1>7, Zenon

Events == {Event[s] : s \in DOMAIN Event} \cup {"ForceShutdown"}

SigTypes ==
    /\ SIGINT_COUNT \in -128 .. 127 /\ SHUTDOWN_REQUESTED \in BOOLEAN
    /\ queue \in Seq(Events)
    /\ Len(queue) <= Capacity /\ lagged \in BOOLEAN /\ chld \in BOOLEAN

LoopTypes ==
    /\ process_workers \subseteq 1 .. made /\ old \subseteq 1 .. made /\ next_workers \subseteq 1 .. made
    /\ changed \in BOOLEAN
    /\ master \in {"select", "shutting", "stopping", "booting", "reload", "exec"} \cup Ended
    /\ target \in 0 .. made /\ (target # NoObj <=> master = "stopping")
    /\ after \in {"select", "reload", "reboot", "exec", "exited"}
    /\ to_load \in Nat /\ workers \in Nat

BootSet == [obj : 1 .. made, step : {"read", "clear", "fork", "store"}, pid : 0 .. forks, awaited : BOOLEAN]

ObjTypes ==
    /\ child_pid \in [Objs -> 0 .. forks] /\ just_started \in [Objs -> BOOLEAN]
    /\ made \in 0 .. MaxObjs /\ forks \in 0 .. MaxPids
    /\ boots \in Seq(BootSet)
    /\ proc \in [Pids -> {"free", "dead"} \cup Live]

HistTypes ==
    /\ \A b \in serving : b.obj \in 1 .. made
    /\ aborted \in BOOLEAN
    /\ raced \subseteq 1 .. made /\ ints \in Nat /\ others \in Nat
    /\ sent \in 0 .. MaxSignals /\ crashes \in 0 .. MaxCrashes /\ reboots \in 0 .. MaxReboots

\* The type invariant in four parts.
LEMMA TypeParts == TypeOK <=> SigTypes /\ LoopTypes /\ ObjTypes /\ HistTypes
    BY Zenon DEF TypeOK, SigTypes, LoopTypes, ObjTypes, HistTypes, Events, BootSet

\* Nothing but the end of the master may have happened.
Stays == UNCHANGED <<sigs, loop, objs, boots, procs, history, bounds>>

\* A step is one of the master and its children, or changes at most aborted.
LEMMA NextSteps == [Next]_vars => MasterStep \/ Stays
    BY Zenon DEF Next, Alive, ServeEnds, Stays, vars

\* The count stays an i8.
LEMMA WrapType == \A n \in Int : Wrap8(n) \in -128 .. 127
    BY DEF Wrap8

\* Sending an event keeps the channel within its capacity.
LEMMA SendTypes ==
    ASSUME queue \in Seq(Events), Len(queue) <= Capacity, lagged \in BOOLEAN,
           NEW e \in Events, send_lifecycle_event(e)
    PROVE  queue' \in Seq(Events) /\ Len(queue') <= Capacity /\ lagged' \in BOOLEAN
<1>1. Capacity \in Nat \ {0}
    BY ClusterAssumption
<1>2. queue' = Append(IF Len(queue) = Capacity THEN Tail(queue) ELSE queue, e)
      /\ lagged' = (lagged \/ Len(queue) = Capacity)
    BY Zenon DEF send_lifecycle_event
<1> HIDE DEF Events
<1>3. CASE Len(queue) = Capacity
  <2>1. queue # <<>>
      BY <1>1, <1>3
  <2>2. Tail(queue) \in Seq(Events) /\ Len(Tail(queue)) = Len(queue) - 1
      BY <2>1
  <2> DEFINE t == Tail(queue)
  <2>3. queue' = Append(t, e)
      BY <1>2, <1>3, Zenon
  <2> HIDE DEF t
  <2>4. queue' \in Seq(Events) /\ Len(queue') = Len(t) + 1
      BY <2>2, <2>3 DEF t
  <2> QED
      BY <1>1, <1>2, <1>3, <2>2, <2>4 DEF t
<1>4. CASE Len(queue) # Capacity
  <2>1. queue' = Append(queue, e)
      BY <1>2, <1>4, Zenon
  <2>2. queue' \in Seq(Events) /\ Len(queue') = Len(queue) + 1
      BY <2>1
  <2> QED
      BY <1>1, <1>2, <1>4, <2>2
<1> QED
    BY <1>3, <1>4, Zenon

\* What a signal handler does is well-typed.
LEMMA SignalTypes ==
    ASSUME SigTypes, ints \in Nat, others \in Nat, NEW sig \in Signals \cup {"CHLD"}, receive_signal(sig)
    PROVE  /\ SIGINT_COUNT' \in -128 .. 127 /\ SHUTDOWN_REQUESTED' \in BOOLEAN
           /\ queue' \in Seq(Events) /\ Len(queue') <= Capacity /\ lagged' \in BOOLEAN
           /\ ints' \in Nat /\ others' \in Nat
<1> DEFINE count == Wrap8(SIGINT_COUNT - 1)
<1>0. SIGINT_COUNT \in Int /\ sig \in {"INT", "HUP", "USR1", "USR2", "TTIN", "TTOU", "CHLD"}
    BY ClusterAssumption DEF SigTypes
<1>1. count \in -128 .. 127 /\ count \in Int /\ count + 2 \in Int
  <2>1. SIGINT_COUNT - 1 \in Int
      BY <1>0
  <2>2. count \in -128 .. 127
      BY <2>1, WrapType, Zenon
  <2> HIDE DEF count
  <2> QED
      BY <2>2
<1> HIDE DEF count
<1>2. sig \in DOMAIN Event /\ "INT" \in DOMAIN Event /\ Event["INT"] = "Shutdown"
    BY <1>0 DEF Event
<1>3. Event[sig] \in Events /\ "Shutdown" \in Events /\ "ForceShutdown" \in Events
    BY <1>2, Zenon DEF Events
<1>4. CASE sig = "INT"
  <2>1. /\ SHUTDOWN_REQUESTED' = TRUE /\ SIGINT_COUNT' = Wrap8(count + 2)
        /\ send_lifecycle_event(ShutdownEvent(SIGINT_COUNT'))
        /\ ints' = ints + 1 /\ others' = others
      BY <1>4, Zenon DEF receive_signal, count
  <2>2. ShutdownEvent(SIGINT_COUNT') \in Events
      BY <1>3, Zenon DEF ShutdownEvent
  <2>3. SIGINT_COUNT' \in -128 .. 127
      BY <1>1, <2>1, WrapType, Zenon
  <2>4. ints' \in Nat /\ others' \in Nat
      BY <2>1
  <2> QED
      BY <2>1, <2>2, <2>3, <2>4, SendTypes, Zenon DEF SigTypes
<1>5. CASE sig # "INT"
  <2>1. /\ SIGINT_COUNT' = count /\ send_lifecycle_event(Event[sig])
        /\ others' = others + 1 /\ UNCHANGED <<SHUTDOWN_REQUESTED, ints>>
      BY <1>5, Zenon DEF receive_signal, count
  <2>2. others' \in Nat
      BY <2>1
  <2> QED
      BY <1>1, <1>3, <2>1, <2>2, SendTypes, Zenon DEF SigTypes
<1> QED
    BY <1>4, <1>5, Zenon

\* Every step keeps the types of signal.rs.
LEMMA SigTypesStep ==
    ASSUME SigTypes, ints \in Nat, others \in Nat, [Next]_vars
    PROVE  SigTypes' /\ ints' \in Nat /\ others' \in Nat
<1>1. CASE OperatorSignals
  <2>1. PICK sig \in Signals : receive_signal(sig)
      BY <1>1, Zenon DEF OperatorSignals
  <2> QED
      BY <1>1, <2>1, SignalTypes, Zenon DEF OperatorSignals, SigTypes
<1>2. CASE ChildSignal
    BY <1>2, SignalTypes, Zenon DEF ChildSignal, SigTypes
<1>3. ASSUME NEW p \in Pids, ChildExits(p) PROVE SigTypes' /\ ints' \in Nat /\ others' \in Nat
    BY <1>3, Zenon DEF ChildExits, SigTypes, history
<1>4. ASSUME NEW e, Recv(e), UNCHANGED <<ints, others>> PROVE SigTypes' /\ ints' \in Nat /\ others' \in Nat
  <2>1. queue # <<>> /\ queue' = Tail(queue) /\ UNCHANGED <<SIGINT_COUNT, SHUTDOWN_REQUESTED, lagged, chld>>
      BY <1>4, Zenon DEF Recv
  <2>2. queue \in Seq(Events) /\ Len(queue) <= Capacity /\ Capacity \in Nat
      BY ClusterAssumption, Zenon DEF SigTypes
  <2> HIDE DEF Events
  <2>3. Tail(queue) \in Seq(Events) /\ Len(Tail(queue)) <= Capacity
      BY <2>1, <2>2
  <2> QED
      BY <1>4, <2>1, <2>3, Zenon DEF SigTypes
<1>5. CASE Handle
  <2>1. \E e : Recv(e) /\ UNCHANGED <<ints, others>>
      BY <1>5, Zenon DEF Handle, Shutdown, Restart, Reload, IncreaseWorkers,
         DecreaseWorkers, ForceShutdown,
                         ChildTerminated, PrintInfo, history
  <2> QED
      BY <1>4, <2>1, Zenon
<1>6. CASE \/ \E i \in DOMAIN boots : BootStep(i)
           \/ \E o \in Objs : Settle(o)
           \/ ChildChanged \/ MemoryCheck \/ RecvLagged
           \/ Stays
  <2>1. UNCHANGED <<sigs, ints, others>>
      BY <1>6, Zenon DEF BootStep, BootRead, BootClear, BootFork, BootForkFails, BootStore, Settle,
         ChildChanged, MemoryCheck,
                         RecvLagged, Stays, history
  <2> QED
      BY <2>1, Zenon DEF sigs, SigTypes
<1>7. CASE Progress
  <2>1. UNCHANGED <<sigs, ints, others>>
      BY <1>7, Zenon DEF Progress, StopPoll, StopTimeout, Rebooted, MonitorPoll,
         ShutdownTimeout, ReloadExec,
                         ReloadBoot, ReloadStopRest, ReloadDone, history
  <2> QED
      BY <2>1, Zenon DEF sigs, SigTypes
<1> QED
    BY <1>1, <1>2, <1>3, <1>5, <1>6, <1>7, NextSteps, Zenon DEF MasterStep

\* SIGTERM changes only processes that run.
LEMMA Requests ==
    \A os : /\ request_shutdown(os) = [p \in Pids |-> request_shutdown(os)[p]]
            /\ \A p \in Pids : \/ request_shutdown(os)[p] = proc[p]
                               \/ proc[p] = "running" /\ request_shutdown(os)[p] = "asked"
    BY Zenon DEF request_shutdown

\* SIGKILL reaches the live children of the given workers and no others.
LEMMA Kills ==
    \A os : /\ force_kill(os) = [p \in Pids |-> force_kill(os)[p]]
            /\ \A p \in Pids : \/ force_kill(os)[p] = proc[p]
                               \/ proc[p] \in Live /\ force_kill(os)[p] = "killed"
            /\ \A o \in os : is_alive(o) /\ child_pid[o] \in Pids => force_kill(os)[child_pid[o]] = "killed"
<1> SUFFICES ASSUME NEW os
             PROVE  /\ force_kill(os) = [p \in Pids |-> force_kill(os)[p]]
                    /\ \A p \in Pids : \/ force_kill(os)[p] = proc[p]
                                       \/ proc[p] \in Live /\ force_kill(os)[p] = "killed"
                    /\ \A o \in os : is_alive(o) /\ child_pid[o] \in Pids =>
                                        force_kill(os)[child_pid[o]] = "killed"
    BY Zenon
<1> DEFINE ps == {child_pid[o] : o \in {o \in os : is_alive(o)}}
<1>1. force_kill(os) = [p \in Pids |-> IF p \in ps THEN "killed" ELSE proc[p]]
    BY Zenon DEF force_kill
<1>2. \A p \in ps : proc[p] \in Live
    BY Zenon DEF is_alive
<1>3. \A o \in os : is_alive(o) => child_pid[o] \in ps
    BY Zenon
<1> HIDE DEF ps
<1> QED
    BY <1>1, <1>2, <1>3, Zenon

\* How one step may change the state of a child process.
Moves(p) ==
    \/ proc'[p] = proc[p]
    \/ proc[p] = "running" /\ proc'[p] = "asked"
    \/ proc[p] \in Live /\ proc'[p] \in {"killed", "dead"}
    \/ p = forks + 1 /\ forks' = p /\ proc'[p] = "running"

\* Children only go from running towards dead, and new ones are forked in turn.
LEMMA ProcStep ==
    ASSUME ObjTypes, [Next]_vars
    PROVE  /\ proc' = [p \in Pids |-> proc'[p]] /\ \A p \in Pids : Moves(p)
           /\ forks' = forks \/ forks' = forks + 1
<1>0. proc = [p \in Pids |-> proc[p]]
    BY Zenon DEF ObjTypes
<1>1. ASSUME NEW c \in Pids, ChildExits(c)
      PROVE  proc' = [p \in Pids |-> proc'[p]] /\ (\A q \in Pids : Moves(q)) /\ forks' = forks
    BY <1>0, <1>1, Zenon DEF ChildExits, Moves, Live
<1>2. ASSUME NEW i \in DOMAIN boots, BootFork(i)
      PROVE  proc' = [p \in Pids |-> proc'[p]] /\ (\A q \in Pids : Moves(q)) /\ forks' = forks + 1
    BY <1>0, <1>2, Zenon DEF BootFork, Moves
<1>3. ASSUME NEW os, proc' = request_shutdown(os)
      PROVE  proc' = [p \in Pids |-> proc'[p]] /\ \A q \in Pids : Moves(q)
    BY <1>3, Requests, Zenon DEF Moves
<1>4. ASSUME NEW os, proc' = force_kill(os)
      PROVE  proc' = [p \in Pids |-> proc'[p]] /\ \A q \in Pids : Moves(q)
    BY <1>4, Kills, Zenon DEF Moves
<1>5. ASSUME proc' = proc
      PROVE  proc' = [p \in Pids |-> proc'[p]] /\ \A q \in Pids : Moves(q)
    BY <1>0, <1>5, Zenon DEF Moves
<1>6. ASSUME NEW i \in DOMAIN boots, BootStep(i), ~BootFork(i)
      PROVE  forks' = forks /\ (proc' = proc \/ \E os : proc' = request_shutdown(os))
    BY <1>6, Zenon DEF BootStep, BootRead, BootClear, BootForkFails, BootStore, procs
<1>7. CASE \/ OperatorSignals \/ ChildSignal
           \/ \E o \in Objs : Settle(o)
           \/ ChildChanged \/ MemoryCheck \/ RecvLagged \/ Stays
  <2>1. forks' = forks /\ (proc' = proc \/ \E os : proc' = request_shutdown(os))
      BY <1>7, Zenon DEF OperatorSignals, ChildSignal, Settle, ChildChanged, MemoryCheck,
         RecvLagged, BeginStop,
                         Stays, procs
  <2> QED
      BY <1>3, <1>5, <2>1, Zenon
<1>8. CASE Handle
  <2>1. forks' = forks /\ (proc' = proc \/ (\E os : proc' = request_shutdown(os))
                                       \/ \E os : proc' = force_kill(os))
      BY <1>8, Zenon DEF Handle, Shutdown, Restart, Reload, IncreaseWorkers,
         DecreaseWorkers, ForceShutdown,
                         ChildTerminated, PrintInfo, BeginStop, BeginShutdown, procs
  <2> QED
      BY <1>3, <1>4, <1>5, <2>1, Zenon
<1>9. CASE Progress
  <2>1. forks' = forks /\ (proc' = proc \/ (\E os : proc' = request_shutdown(os))
                                       \/ \E os : proc' = force_kill(os))
      BY <1>9, Zenon DEF Progress, StopPoll, StopTimeout, Rebooted, MonitorPoll,
         ShutdownTimeout, ReloadExec,
                         ReloadBoot, ReloadStopRest, ReloadDone, BeginStop, Continue, procs
  <2> QED
      BY <1>3, <1>4, <1>5, <2>1, Zenon
<1> QED
    BY <1>1, <1>2, <1>3, <1>5, <1>6, <1>7, <1>8, <1>9, NextSteps, Zenon DEF MasterStep

\* The records of boot threads for workers up to m and processes up to f.
BootSetOf(m, f) == [obj : 1 .. m, step : {"read", "clear", "fork", "store"}, pid : 0 .. f, awaited : BOOLEAN]

\* Thread records stay well-typed when workers and processes are added.
LEMMA BootsGrow ==
    ASSUME NEW m \in Nat, NEW m1 \in Nat, NEW f \in Nat, NEW f1 \in Nat, m <= m1, f <= f1,
           NEW s \in Seq(BootSetOf(m, f))
    PROVE  s \in Seq(BootSetOf(m1, f1))
<1>1. \A b \in BootSetOf(m, f) : b \in BootSetOf(m1, f1)
    BY DEF BootSetOf
<1> QED
    BY <1>1

\* A thread record may go to its next step and learn a pid, and new records
\* may follow.
LEMMA BootsTypes ==
    ASSUME NEW m \in Nat, NEW f \in Nat, NEW s \in Seq(BootSetOf(m, f)), NEW i \in DOMAIN s
    PROVE  /\ \A t \in {"read", "clear", "fork", "store"} :
                 [s EXCEPT ![i].step = t] \in Seq(BootSetOf(m, f))
           /\ \A p \in 0 .. f : [s EXCEPT ![i].step = "store", ![i].pid = p] \in Seq(BootSetOf(m, f))
           /\ s[i].obj \in 1 .. m /\ s[i].pid \in 0 .. f /\ s[i].step \in {"read", "clear", "fork", "store"}
<1>1. s[i] \in BootSetOf(m, f)
    OBVIOUS
<1>2. /\ \A t \in {"read", "clear", "fork", "store"} : [s[i] EXCEPT !.step = t] \in BootSetOf(m, f)
      /\ \A p \in 0 .. f : [s[i] EXCEPT !.step = "store", !.pid = p] \in BootSetOf(m, f)
      /\ s[i].obj \in 1 .. m /\ s[i].pid \in 0 .. f /\ s[i].step \in {"read", "clear", "fork", "store"}
    BY <1>1 DEF BootSetOf
<1>3. \A b \in BootSetOf(m, f) : [s EXCEPT ![i] = b] \in Seq(BootSetOf(m, f))
    OBVIOUS
<1>4. \A t : [s EXCEPT ![i].step = t] = [s EXCEPT ![i] = [s[i] EXCEPT !.step = t]]
    OBVIOUS
<1>5. \A p : [s EXCEPT ![i].step = "store", ![i].pid = p] = [s EXCEPT ![i] = [s[i] EXCEPT !.step = "store", !.pid = p]]
    OBVIOUS
<1> QED
    BY <1>2, <1>3, <1>4, <1>5, Zenon

\* What the other lemmas use of the types.
LEMMA Ranges ==
    ASSUME LoopTypes, ObjTypes
    PROVE  /\ made \in Nat /\ forks \in Nat /\ made <= MaxObjs /\ forks <= MaxPids
           /\ 1 .. made \subseteq Objs /\ NoObj \notin Objs /\ NoPid \notin Pids
           /\ \A p \in 0 .. forks : p # NoPid => p \in Pids
           /\ DOMAIN child_pid = Objs /\ (\A o \in Objs : child_pid[o] \in 0 .. forks)
           /\ BootSet = BootSetOf(made, forks)
           /\ MaxObjs \in Nat /\ MaxPids \in Nat
           /\ process_workers \cup old \cup next_workers \subseteq Objs
           /\ \A i \in DOMAIN boots : /\ boots[i].obj \in 1 .. made /\ boots[i].pid \in 0 .. forks
                                      /\ boots[i].step \in {"read", "clear", "fork", "store"}
           /\ made + 1 # NoObj /\ made + 1 \notin 1 .. made
<1>1. MaxObjs \in Nat /\ MaxPids \in Nat
    BY ClusterAssumption, Zenon
<1>2. /\ made \in Nat /\ forks \in Nat /\ made <= MaxObjs /\ forks <= MaxPids
      /\ 1 .. made \subseteq Objs /\ NoObj \notin Objs /\ NoPid \notin Pids
      /\ \A p \in 0 .. forks : p # NoPid => p \in Pids
    BY <1>1 DEF ObjTypes, Objs, Pids, NoObj, NoPid
<1>3. DOMAIN child_pid = Objs /\ (\A o \in Objs : child_pid[o] \in 0 .. forks)
    BY Zenon DEF ObjTypes
<1>4. BootSet = BootSetOf(made, forks)
    BY Zenon DEF BootSet, BootSetOf
<1>5. process_workers \cup old \cup next_workers \subseteq Objs
    BY <1>2, Zenon DEF LoopTypes
<1>6. boots \in Seq(BootSetOf(made, forks))
    BY <1>4, Zenon DEF ObjTypes
<1>7. \A i \in DOMAIN boots : /\ boots[i].obj \in 1 .. made /\ boots[i].pid \in 0 .. forks
                              /\ boots[i].step \in {"read", "clear", "fork", "store"}
    BY <1>2, <1>6, BootsTypes, Zenon
<1>8. made + 1 # NoObj /\ made + 1 \notin 1 .. made
    BY <1>2 DEF NoObj
<1> QED
    BY <1>1, <1>2, <1>3, <1>4, <1>5, <1>7, <1>8, Zenon

\* A step takes the threads and the worker counts forward as follows.
BootsMove ==
    \/ boots' = boots
    \/ \E i \in DOMAIN boots : BootStep(i)
    \/ \E s \in Seq(BootSetOf(made', forks')) : boots' = boots \o s

\* New threads are well-typed, on existing workers or on the one just made.
LEMMA BootsStep ==
    ASSUME LoopTypes, ObjTypes, [Next]_vars
    PROVE  BootsMove /\ (made' = made \/ (made' = made + 1 /\ made' <= MaxObjs))
<1>0. made \in Nat /\ forks \in Nat /\ 1 .. made \subseteq Objs
    BY Ranges, Zenon
<1>1. ASSUME NEW o \in 1 .. made', NEW b \in BOOLEAN, forks' = forks, made' \in Nat
      PROVE  <<Boot(o, b)>> \in Seq(BootSetOf(made', forks')) /\ \A s : Append(s, Boot(o, b)) = s \o <<Boot(o, b)>>
  <2>1. Boot(o, b) \in BootSetOf(made', forks')
      BY <1>0, <1>1 DEF Boot, BootSetOf, NoPid
  <2> QED
      BY <2>1
<1>2. CASE StopPoll \/ StopTimeout
  <2>1. made' = made /\ forks' = forks /\ (boots' = boots \/ boots' = Append(boots, Boot(target, TRUE)))
        /\ target \in 1 .. made
    <3>1. target \in 0 .. made /\ target # NoObj
        BY <1>2, Zenon DEF LoopTypes, StopPoll, StopTimeout
    <3>2. target \in 1 .. made
        BY <1>0, <3>1 DEF NoObj
    <3> QED
        BY <1>2, <3>2, Zenon DEF StopPoll, StopTimeout, Continue, objs
  <2> QED
      BY <1>0, <1>1, <2>1, Zenon DEF BootsMove
<1>3. CASE ReloadBoot
  <2>1. made' = made + 1 /\ made < MaxObjs /\ forks' = forks /\ boots' = Append(boots, Boot(made', FALSE))
      BY <1>3, Zenon DEF ReloadBoot
  <2>2. made' \in Nat /\ made' \in 1 .. made' /\ made' <= MaxObjs
      BY <1>0, <2>1, Ranges
  <2> QED
      BY <1>1, <2>1, <2>2, Zenon DEF BootsMove
<1>4. CASE ChildChanged
  <2> DEFINE D == {o \in process_workers' : Dead(o)}
             dead == SetToSeq(D)
  <2>1. /\ made' = made /\ forks' = forks /\ boots' = boots \o [i \in DOMAIN dead |-> Boot(dead[i], FALSE)]
        /\ D \subseteq process_workers
      BY <1>4, Zenon DEF ChildChanged, objs, procs
  <2>2. IsFiniteSet(D) /\ D \subseteq 1 .. made
    <3>1. D \in SUBSET (1 .. made)
        BY <2>1, Zenon DEF LoopTypes
    <3>2. IsFiniteSet(1 .. made)
        BY <1>0, FS_Interval
    <3> QED
        BY <3>1, <3>2, FS_Subset, Zenon
  <2> HIDE DEF D
  <2>3. dead \in Seq(D)
      BY <2>2, Listed, Zenon
  <2> HIDE DEF dead
  <2>4. \A i \in DOMAIN dead : dead[i] \in 1 .. made
    <3>1. \A i \in DOMAIN dead : dead[i] \in D
        BY <2>3
    <3> QED
        BY <2>2, <3>1, Zenon
  <2>5. \A i \in DOMAIN dead : Boot(dead[i], FALSE) \in BootSetOf(made', forks')
    <3> SUFFICES ASSUME NEW i \in DOMAIN dead PROVE Boot(dead[i], FALSE) \in BootSetOf(made', forks')
        BY Zenon
    <3>1. dead[i] \in 1 .. made'
        BY <2>1, <2>4, Zenon
    <3> QED
        BY <1>0, <2>1, <3>1 DEF Boot, BootSetOf, NoPid
  <2>6. [i \in DOMAIN dead |-> Boot(dead[i], FALSE)] \in Seq(BootSetOf(made', forks'))
    <3>1. Len(dead) \in Nat /\ DOMAIN dead = 1 .. Len(dead)
        BY <2>3
    <3>2. [i \in DOMAIN dead |-> Boot(dead[i], FALSE)] \in [1 .. Len(dead) -> BootSetOf(made', forks')]
        BY <2>5, <3>1, Zenon
    <3>3. \A f \in [1 .. Len(dead) -> BootSetOf(made', forks')] : f \in Seq(BootSetOf(made', forks'))
        BY <3>1
    <3> QED
        BY <3>2, <3>3, Zenon
  <2> QED
      BY <2>1, <2>6, Zenon DEF BootsMove
<1>5. CASE \/ \E p \in Pids : ChildExits(p)
           \/ OperatorSignals \/ ChildSignal
           \/ \E o \in Objs : Settle(o)
           \/ MemoryCheck \/ RecvLagged \/ Stays
  <2>1. boots' = boots /\ made' = made
      BY <1>5, Zenon DEF ChildExits, OperatorSignals, ChildSignal, Settle, MemoryCheck,
         RecvLagged,
                         Stays, objs
  <2> QED
      BY <2>1, Zenon DEF BootsMove
<1>6. CASE \E i \in DOMAIN boots : BootStep(i)
  <2>1. made' = made
      BY <1>6, Zenon DEF BootStep, BootRead, BootClear, BootFork, BootForkFails, BootStore, objs
  <2> QED
      BY <1>6, <2>1, Zenon DEF BootsMove
<1>7. CASE Handle
  <2>1. boots' = boots /\ made' = made
      BY <1>7, Zenon DEF Handle, Shutdown, Restart, Reload, IncreaseWorkers,
         DecreaseWorkers, ForceShutdown,
                         ChildTerminated, PrintInfo, BeginStop, BeginShutdown, objs
  <2> QED
      BY <2>1, Zenon DEF BootsMove
<1>8. CASE Rebooted \/ MonitorPoll \/ ShutdownTimeout \/ ReloadExec \/ ReloadStopRest \/ ReloadDone
  <2>1. boots' = boots /\ made' = made
      BY <1>8, Zenon DEF Rebooted, MonitorPoll, ShutdownTimeout, ReloadExec,
         ReloadStopRest, ReloadDone, objs
  <2> QED
      BY <2>1, Zenon DEF BootsMove
<1> QED
    BY <1>2, <1>3, <1>4, <1>5, <1>6, <1>7, <1>8, NextSteps, Zenon DEF MasterStep, Progress

\* A thread record after a step of its thread.
LEMMA ThreadTypes ==
    ASSUME LoopTypes, ObjTypes, NEW i \in DOMAIN boots, BootStep(i)
    PROVE  boots' \in Seq(BootSetOf(made, forks'))
<1>0. made \in Nat /\ forks \in Nat /\ forks <= MaxPids /\ boots \in Seq(BootSetOf(made, forks))
    BY Ranges, Zenon DEF ObjTypes
<1>1. CASE BootFork(i)
  <2>1. forks' = forks + 1 /\ boots' = [boots EXCEPT ![i].step = "store", ![i].pid = forks']
      BY <1>1, Zenon DEF BootFork
  <2>2. forks' \in Nat /\ forks' \in 0 .. forks' /\ forks <= forks' /\ made <= made
      BY <1>0, <2>1
  <2>3. boots \in Seq(BootSetOf(made, forks'))
      BY <1>0, <2>2, BootsGrow, Zenon
  <2> QED
      BY <1>0, <2>1, <2>2, <2>3, BootsTypes, Zenon
<1>2. CASE BootRead(i) \/ BootClear(i)
  <2>1. forks' = forks /\ \E t \in {"read", "clear", "fork", "store"} : boots' = [boots EXCEPT ![i].step = t]
      BY <1>2, Zenon DEF BootRead, BootClear, Step, procs
  <2>2. \A t \in {"read", "clear", "fork", "store"} :
           [boots EXCEPT ![i].step = t] \in Seq(BootSetOf(made, forks))
      BY <1>0, BootsTypes, Zenon
  <2>3. boots' \in Seq(BootSetOf(made, forks))
      BY <2>1, <2>2, Zenon
  <2> QED
      BY <2>1, <2>3, Zenon
<1>3. CASE BootForkFails(i) \/ BootStore(i)
  <2>1. forks' = forks /\ boots' = RemoveAt(boots, i)
      BY <1>3, Zenon DEF BootForkFails, BootStore, procs
  <2> QED
      BY <1>0, <2>1, Removed, Zenon
<1> QED
    BY <1>1, <1>2, <1>3, Zenon DEF BootStep

\* Every step keeps the types of the workers and their processes.
LEMMA ObjTypesStep ==
    ASSUME LoopTypes, ObjTypes, [Next]_vars
    PROVE  ObjTypes'
<1>0. /\ made \in Nat /\ forks \in Nat /\ forks <= MaxPids /\ made <= MaxObjs /\ MaxPids \in Nat /\ MaxObjs \in Nat
      /\ boots \in Seq(BootSetOf(made, forks))
    BY Ranges, Zenon DEF ObjTypes
<1>1. BootsMove /\ (made' = made \/ (made' = made + 1 /\ made' <= MaxObjs))
    BY BootsStep, Zenon
<1>2. proc' = [p \in Pids |-> proc'[p]] /\ (\A p \in Pids : Moves(p)) /\ (forks' = forks \/ forks' = forks + 1)
    BY ProcStep, Zenon
<1>3. forks' = forks \/ \E i \in DOMAIN boots : BootFork(i)
  <2>1. CASE \E i \in DOMAIN boots : BootStep(i)
      BY <2>1, Zenon DEF BootStep, BootRead, BootClear, BootForkFails, BootStore, procs
  <2>2. CASE \/ \E p \in Pids : ChildExits(p)
             \/ OperatorSignals \/ ChildSignal
             \/ \E o \in Objs : Settle(o)
             \/ ChildChanged \/ MemoryCheck \/ RecvLagged \/ Stays
      BY <2>2, Zenon DEF ChildExits, OperatorSignals, ChildSignal, Settle, ChildChanged,
         MemoryCheck, RecvLagged,
                         Stays, procs
  <2>3. CASE Handle
      BY <2>3, Zenon DEF Handle, Shutdown, Restart, Reload, IncreaseWorkers,
         DecreaseWorkers, ForceShutdown,
                         ChildTerminated, PrintInfo, procs
  <2>4. CASE Progress
      BY <2>4, Zenon DEF Progress, StopPoll, StopTimeout, Rebooted, MonitorPoll,
         ShutdownTimeout, ReloadExec,
                         ReloadBoot, ReloadStopRest, ReloadDone, procs
  <2> QED
      BY <2>1, <2>2, <2>3, <2>4, NextSteps, Zenon DEF MasterStep
<1>4. forks' \in 0 .. MaxPids /\ forks' \in Nat /\ forks <= forks' /\ 0 .. forks \subseteq 0 .. forks'
  <2>1. forks' = forks \/ forks < MaxPids
      BY <1>3, Zenon DEF BootFork
  <2> QED
      BY <1>0, <1>2, <2>1
<1>5. made' \in 0 .. MaxObjs /\ made' \in Nat /\ made <= made'
    BY <1>0, <1>1
<1>6. boots' \in Seq(BootSet)'
  <2>1. BootSet' = BootSetOf(made', forks')
      BY Zenon DEF BootSet, BootSetOf
  <2>2. boots \in Seq(BootSetOf(made', forks'))
      BY <1>0, <1>4, <1>5, BootsGrow, Zenon
  <2>3. CASE boots' = boots
      BY <2>1, <2>2, <2>3, Zenon
  <2>4. CASE \E i \in DOMAIN boots : BootStep(i)
    <3>1. boots' \in Seq(BootSetOf(made, forks'))
        BY <2>4, ThreadTypes, Zenon
    <3>2. forks' <= forks'
        BY <1>4
    <3> QED
        BY <1>0, <1>4, <1>5, <2>1, <3>1, <3>2, BootsGrow, Zenon
  <2>5. CASE \E s \in Seq(BootSetOf(made', forks')) : boots' = boots \o s
      BY <2>1, <2>2, <2>5
  <2> QED
      BY <1>1, <2>3, <2>4, <2>5, Zenon DEF BootsMove
<1>7. proc' \in [Pids -> {"free", "dead"} \cup Live]
  <2>1. \A p \in Pids : proc'[p] \in {"free", "dead"} \cup Live
      BY <1>2, Zenon DEF Moves, Live, ObjTypes
  <2> QED
      BY <1>2, <2>1, Zenon
<1>8. child_pid' \in [Objs -> 0 .. forks'] /\ just_started' \in [Objs -> BOOLEAN]
  <2>1. /\ child_pid \in [Objs -> 0 .. forks'] /\ just_started \in [Objs -> BOOLEAN]
        /\ \A i \in DOMAIN boots : boots[i].pid \in 0 .. forks' /\ NoPid \in 0 .. forks'
    <3>1. NoPid \in 0 .. forks'
        BY <1>4 DEF NoPid
    <3> QED
        BY <1>4, <3>1, Ranges, Zenon DEF ObjTypes
  <2>2. CASE \E i \in DOMAIN boots : BootStep(i)
    <3>1. PICK i \in DOMAIN boots : BootStep(i)
        BY <2>2, Zenon
    <3>2. just_started' = just_started /\ \/ child_pid' = child_pid
                                          \/ child_pid' = [child_pid EXCEPT ![boots[i].obj] = NoPid]
                                          \/ child_pid' = [child_pid EXCEPT ![boots[i].obj] = boots[i].pid]
        BY <3>1, Zenon DEF BootStep, BootRead, BootClear, BootFork, BootForkFails, BootStore, objs
    <3> QED
        BY <2>1, <3>2, Zenon
  <2>3. CASE \E o \in Objs : Settle(o)
      BY <2>1, <2>3, Zenon DEF Settle
  <2>4. CASE \/ \E p \in Pids : ChildExits(p)
             \/ OperatorSignals \/ ChildSignal
             \/ ChildChanged \/ MemoryCheck \/ RecvLagged \/ Stays
    <3>1. UNCHANGED <<child_pid, just_started>>
        BY <2>4, Zenon DEF ChildExits, OperatorSignals, ChildSignal, ChildChanged,
           MemoryCheck, RecvLagged,
                           Stays, objs
    <3> QED
        BY <2>1, <3>1, Zenon
  <2>5. CASE Handle
    <3>1. UNCHANGED <<child_pid, just_started>>
        BY <2>5, Zenon DEF Handle, Shutdown, Restart, Reload, IncreaseWorkers,
           DecreaseWorkers, ForceShutdown,
                           ChildTerminated, PrintInfo, objs
    <3> QED
        BY <2>1, <3>1, Zenon
  <2>6. CASE Progress
    <3>1. UNCHANGED <<child_pid, just_started>>
        BY <2>6, Zenon DEF Progress, StopPoll, StopTimeout, Rebooted, MonitorPoll,
           ShutdownTimeout, ReloadExec,
                           ReloadBoot, ReloadStopRest, ReloadDone, objs
    <3> QED
        BY <2>1, <3>1, Zenon
  <2> QED
      BY <2>2, <2>3, <2>4, <2>5, <2>6, NextSteps, Zenon DEF MasterStep
<1> QED
    BY <1>4, <1>5, <1>6, <1>7, <1>8, Zenon DEF ObjTypes, Objs, Pids, Live

\* The loop takes a last or first worker only from a list that has one.
LEMMA Picked ==
    ASSUME LoopTypes, ObjTypes
    PROVE  /\ process_workers # {} => Max(process_workers) \in process_workers
           /\ old # {} => Max(old) \in old /\ Min(old) \in old
<1>1. made \in Nat /\ process_workers \in SUBSET (1 .. made) /\ old \in SUBSET (1 .. made)
    BY Ranges, Zenon DEF LoopTypes
<1> QED
    BY <1>1, Extremes, Zenon

\* Every step keeps the types of the event loop.
LEMMA LoopTypesStep ==
    ASSUME LoopTypes, ObjTypes, Phases, [Next]_vars
    PROVE  LoopTypes'
<1>0. /\ made \in Nat /\ 0 \in 0 .. made /\ NoObj = 0 /\ (\A o \in 1 .. made : o \in 0 .. made /\ o # NoObj)
      /\ to_load \in Nat /\ (\A n \in Sizes : n \in Nat)
      /\ "select" \notin {"stopping"} /\ after \in {"select", "reload", "reboot", "exec", "exited"}
  <2>1. made \in Nat
      BY Ranges, Zenon
  <2>2. 0 \in 0 .. made /\ \A o \in 1 .. made : o \in 0 .. made /\ o # 0
      BY <2>1
  <2> QED
      BY <2>1, <2>2, ClusterAssumption, Zenon DEF NoObj, LoopTypes
<1>1. CASE ReloadBoot
  <2>1. made' = made + 1 /\ master = "reload" /\ to_load > 0 /\ to_load' = to_load - 1
        /\ next_workers' = next_workers \cup {made'} /\ UNCHANGED <<process_workers, changed, workers>>
      BY <1>1, Zenon DEF ReloadBoot
  <2>2. 1 .. made \subseteq 1 .. made' /\ 0 .. made \subseteq 0 .. made' /\ made' \in 1 .. made' /\ to_load' \in Nat
      BY <1>0, <2>1
  <2>3. \/ old = {} /\ UNCHANGED <<old, master, target, after>>
        \/ /\ old # {} /\ old' = old \ {Max(old)} /\ target' = Max(old) /\ master' = "stopping" /\ after' = "reload"
      BY <1>1, Zenon DEF ReloadBoot, BeginStop
  <2>4. old # {} => Max(old) \in old
      BY Picked, Zenon
  <2>5. /\ process_workers' \subseteq 1 .. made' /\ old' \subseteq 1 .. made' /\ next_workers' \subseteq 1 .. made'
        /\ target' \in 0 .. made' /\ (target' # NoObj <=> master' = "stopping")
        /\ after' \in {"select", "reload", "reboot", "exec", "exited"}
        /\ master' \in {"reload", "stopping"}
      BY <1>0, <2>1, <2>2, <2>3, <2>4, Zenon DEF LoopTypes
  <2> QED
      BY <2>1, <2>2, <2>5, Zenon DEF LoopTypes
<1>2. made' = made \/ ReloadBoot
  <2>1. CASE \E i \in DOMAIN boots : BootStep(i)
      BY <2>1, Zenon DEF BootStep, BootRead, BootClear, BootFork, BootForkFails, BootStore, objs
  <2>2. CASE \/ \E p \in Pids : ChildExits(p)
             \/ OperatorSignals \/ ChildSignal
             \/ \E o \in Objs : Settle(o)
             \/ ChildChanged \/ MemoryCheck \/ RecvLagged \/ Stays
      BY <2>2, Zenon DEF ChildExits, OperatorSignals, ChildSignal, Settle, ChildChanged,
         MemoryCheck, RecvLagged,
                         Stays, objs
  <2>3. CASE Handle
      BY <2>3, Zenon DEF Handle, Shutdown, Restart, Reload, IncreaseWorkers,
         DecreaseWorkers, ForceShutdown,
                         ChildTerminated, PrintInfo, objs
  <2>4. CASE Progress
      BY <2>4, Zenon DEF Progress, StopPoll, StopTimeout, Rebooted, MonitorPoll,
         ShutdownTimeout, ReloadExec,
                         ReloadStopRest, ReloadDone, objs
  <2> QED
      BY <2>1, <2>2, <2>3, <2>4, NextSteps, Zenon DEF MasterStep
<1> DEFINE Kept == /\ process_workers' \subseteq 1 .. made /\ old' \subseteq 1 .. made
                   /\ next_workers' \subseteq 1 .. made
                   /\ changed' \in BOOLEAN
                   /\ master' \in {"select", "shutting", "stopping", "booting", "reload", "exec"} \cup Ended
                   /\ target' \in 0 .. made /\ (target' # NoObj <=> master' = "stopping")
                   /\ after' \in {"select", "reload", "reboot", "exec", "exited"}
                   /\ to_load' \in Nat /\ workers' \in Nat
<1>3. ASSUME made' = made, Kept PROVE LoopTypes'
    BY <1>3, Zenon DEF LoopTypes, Ended
<1>4. CASE \/ \E p \in Pids : ChildExits(p)
           \/ OperatorSignals \/ ChildSignal
           \/ \E i \in DOMAIN boots : BootStep(i)
           \/ \E o \in Objs : Settle(o)
           \/ PrintInfo \/ Stays
  <2>1. UNCHANGED <<loop, made>>
      BY <1>4, Zenon DEF ChildExits, OperatorSignals, ChildSignal, Settle, PrintInfo,
         BootStep, BootRead,
                         BootClear, BootFork, BootForkFails, BootStore, Stays, objs
  <2> QED
      BY <2>1, Zenon DEF LoopTypes, loop, Ended
<1>5. CASE StopPoll \/ StopTimeout
  <2>1. /\ UNCHANGED <<process_workers, changed, after, old, next_workers, to_load, workers>>
        /\ target' = NoObj /\ made' = made
        /\ master' = "booting" \/ (after # "reboot" /\ master' = after)
      BY <1>0, <1>5, Zenon DEF StopPoll, StopTimeout, Continue, objs
  <2>2. master' # "stopping" /\ master' \in {"select", "shutting", "stopping", "booting", "reload", "exec"} \cup Ended
      BY <1>0, <2>1, Zenon DEF Ended
  <2> QED
      BY <1>0, <1>3, <2>1, <2>2, Zenon DEF LoopTypes
<1>6. CASE ChildChanged \/ MemoryCheck
  <2>1. CASE ChildChanged
      BY <1>0, <1>3, <2>1, Zenon DEF ChildChanged, LoopTypes, objs
  <2>2. CASE MemoryCheck
      BY <1>0, <1>3, <2>2, Zenon DEF MemoryCheck, BeginStop, LoopTypes, objs
  <2> QED
      BY <1>6, <2>1, <2>2, Zenon
<1>7. CASE RecvLagged \/ Rebooted \/ ReloadExec \/ IncreaseWorkers
    BY <1>0, <1>3, <1>7, Zenon DEF RecvLagged, Rebooted, ReloadExec, IncreaseWorkers, Recv,
       LoopTypes, Ended, objs
<1>8. CASE Shutdown \/ Restart
    BY <1>0, <1>3, <1>8, Zenon DEF Shutdown, Restart, Recv, BeginShutdown, ShutdownThen,
       RestartThen, LoopTypes,
                                   loop, objs
<1>9. CASE Reload
    BY <1>0, <1>3, <1>9, Zenon DEF Reload, Recv, BeginShutdown, RestartThen, LoopTypes,
       loop, objs
<1>10. CASE DecreaseWorkers
  <2>1. process_workers # {} => Max(process_workers) \in process_workers
      BY Picked, Zenon
  <2> QED
      BY <1>0, <1>3, <1>10, <2>1, Zenon DEF DecreaseWorkers, Recv, BeginStop, LoopTypes, objs
<1>11. CASE ForceShutdown \/ ChildTerminated
    BY <1>0, <1>3, <1>11, Zenon DEF ForceShutdown, ChildTerminated, Recv, LoopTypes, Ended, objs
<1>12. CASE MonitorPoll \/ ShutdownTimeout
  <2>1. /\ UNCHANGED <<process_workers, changed, after, target, next_workers, to_load, workers, made>>
        /\ old' \subseteq old /\ master = "shutting" /\ (master' = after \/ master' = "shutting")
        /\ after \in {"exec", "exited"}
      BY <1>12, Zenon DEF MonitorPoll, ShutdownTimeout, objs, Phases
  <2>2. master' # "stopping" /\ master' \in {"select", "shutting", "stopping", "booting", "reload", "exec"} \cup Ended
      BY <1>0, <2>1, Zenon DEF Ended
  <2> QED
      BY <1>0, <1>3, <2>1, <2>2, Zenon DEF LoopTypes
<1>13. CASE ReloadStopRest
  <2>1. old # {} => Min(old) \in old
      BY Picked, Zenon
  <2> QED
      BY <1>0, <1>3, <1>13, <2>1, Zenon DEF ReloadStopRest, BeginStop, LoopTypes, objs
<1>14. CASE ReloadDone
    BY <1>0, <1>3, <1>14, Zenon DEF ReloadDone, ReloadKeeps, LoopTypes, objs
<1> QED
    BY <1>1, <1>4, <1>5, <1>6, <1>7, <1>8, <1>9, <1>10, <1>11, <1>12, <1>13, <1>14, NextSteps, Zenon
    DEF MasterStep, Handle, Progress

\* Every step keeps the types of the history and the bounds.
LEMMA HistTypesStep ==
    ASSUME LoopTypes, ObjTypes, HistTypes, [Next]_vars
    PROVE  raced' \subseteq 1 .. made' /\ aborted' \in BOOLEAN
           /\ (\A b \in serving' : b.obj \in 1 .. made')
           /\ sent' \in 0 .. MaxSignals /\ crashes' \in 0 .. MaxCrashes /\ reboots' \in 0 .. MaxReboots
<1>0. /\ \A n \in {MaxSignals, MaxCrashes, MaxReboots} : n \in Nat
      /\ sent \in 0 .. MaxSignals /\ crashes \in 0 .. MaxCrashes /\ reboots \in 0 .. MaxReboots
    BY ClusterAssumption, Zenon DEF HistTypes
<1>1. sent' = sent \/ (sent < MaxSignals /\ sent' = sent + 1)
  <2>1. CASE \/ \E p \in Pids : ChildExits(p)
             \/ OperatorSignals \/ ChildSignal
             \/ \E i \in DOMAIN boots : BootStep(i)
             \/ \E o \in Objs : Settle(o)
             \/ ChildChanged \/ MemoryCheck \/ RecvLagged \/ Stays
      BY <2>1, Zenon DEF ChildExits, OperatorSignals, ChildSignal, Settle, ChildChanged,
         MemoryCheck, RecvLagged,
                         BootStep, BootRead, BootClear, BootFork, BootForkFails, BootStore, Stays, bounds
  <2>2. CASE Handle
      BY <2>2, Zenon DEF Handle, Shutdown, Restart, Reload, IncreaseWorkers,
         DecreaseWorkers, ForceShutdown,
                         ChildTerminated, PrintInfo, bounds
  <2>3. CASE Progress
      BY <2>3, Zenon DEF Progress, StopPoll, StopTimeout, Rebooted, MonitorPoll,
         ShutdownTimeout, ReloadExec,
                         ReloadBoot, ReloadStopRest, ReloadDone, bounds
  <2> QED
      BY <2>1, <2>2, <2>3, NextSteps, Zenon DEF MasterStep
<1>2. crashes' = crashes \/ (crashes < MaxCrashes /\ crashes' = crashes + 1)
  <2>1. CASE \/ \E p \in Pids : ChildExits(p)
             \/ OperatorSignals \/ ChildSignal
             \/ \E i \in DOMAIN boots : BootStep(i)
             \/ \E o \in Objs : Settle(o)
             \/ ChildChanged \/ MemoryCheck \/ RecvLagged \/ Stays
      BY <2>1, Zenon DEF ChildExits, OperatorSignals, ChildSignal, Settle, ChildChanged,
         MemoryCheck, RecvLagged,
                         BootStep, BootRead, BootClear, BootFork, BootForkFails, BootStore, Stays, bounds
  <2>2. CASE Handle
      BY <2>2, Zenon DEF Handle, Shutdown, Restart, Reload, IncreaseWorkers,
         DecreaseWorkers, ForceShutdown,
                         ChildTerminated, PrintInfo, bounds
  <2>3. CASE Progress
      BY <2>3, Zenon DEF Progress, StopPoll, StopTimeout, Rebooted, MonitorPoll,
         ShutdownTimeout, ReloadExec,
                         ReloadBoot, ReloadStopRest, ReloadDone, bounds
  <2> QED
      BY <2>1, <2>2, <2>3, NextSteps, Zenon DEF MasterStep
<1>3. reboots' = reboots \/ (reboots < MaxReboots /\ reboots' = reboots + 1)
  <2>1. CASE \/ \E p \in Pids : ChildExits(p)
             \/ OperatorSignals \/ ChildSignal
             \/ \E i \in DOMAIN boots : BootStep(i)
             \/ \E o \in Objs : Settle(o)
             \/ ChildChanged \/ MemoryCheck \/ RecvLagged \/ Stays
      BY <2>1, Zenon DEF ChildExits, OperatorSignals, ChildSignal, Settle, ChildChanged,
         MemoryCheck, RecvLagged,
                         BootStep, BootRead, BootClear, BootFork, BootForkFails, BootStore, Stays, bounds
  <2>2. CASE Handle
      BY <2>2, Zenon DEF Handle, Shutdown, Restart, Reload, IncreaseWorkers,
         DecreaseWorkers, ForceShutdown,
                         ChildTerminated, PrintInfo, bounds
  <2>3. CASE Progress
      BY <2>3, Zenon DEF Progress, StopPoll, StopTimeout, Rebooted, MonitorPoll,
         ShutdownTimeout, ReloadExec,
                         ReloadBoot, ReloadStopRest, ReloadDone, bounds
  <2> QED
      BY <2>1, <2>2, <2>3, NextSteps, Zenon DEF MasterStep
<1>4. sent' \in 0 .. MaxSignals /\ crashes' \in 0 .. MaxCrashes /\ reboots' \in 0 .. MaxReboots
    BY <1>0, <1>1, <1>2, <1>3
<1>5. raced' \subseteq raced \cup {boots[i].obj : i \in DOMAIN boots}
  <2>0. \A os : Racing(os) => raced' \subseteq raced \cup {boots[i].obj : i \in DOMAIN boots}
      BY Zenon DEF Racing, Booting
  <2>1. CASE \/ \E p \in Pids : ChildExits(p)
             \/ OperatorSignals \/ ChildSignal
             \/ \E i \in DOMAIN boots : BootStep(i)
             \/ \E o \in Objs : Settle(o)
             \/ ChildChanged \/ MemoryCheck \/ RecvLagged \/ Stays
      BY <2>0, <2>1, Zenon DEF ChildExits, OperatorSignals, ChildSignal, Settle,
         ChildChanged, MemoryCheck,
                         RecvLagged, BootStep, BootRead, BootClear, BootFork, BootForkFails, BootStore,
                         BeginStop, Stays, history
  <2>2. CASE Handle
      BY <2>0, <2>2, Zenon DEF Handle, Shutdown, Restart, Reload, IncreaseWorkers,
         DecreaseWorkers, ForceShutdown,
                         ChildTerminated, PrintInfo, BeginStop, BeginShutdown, history
  <2>3. CASE Progress
      BY <2>0, <2>3, Zenon DEF Progress, StopPoll, StopTimeout, Rebooted, MonitorPoll,
         ShutdownTimeout, ReloadExec,
                         ReloadBoot, ReloadStopRest, ReloadDone, BeginStop, history
  <2> QED
      BY <2>1, <2>2, <2>3, NextSteps, Zenon DEF MasterStep
<1>6. 1 .. made \subseteq 1 .. made'
  <2>1. made \in Nat /\ (made' = made \/ (made' = made + 1 /\ made' <= MaxObjs))
      BY BootsStep, Ranges, Zenon
  <2> QED
      BY <2>1
<1>7. raced' \subseteq 1 .. made'
    BY <1>5, <1>6, Ranges, Zenon DEF HistTypes
<1>8. \A b \in serving' : b.obj \in 1 .. made'
  <2>0. ASSUME serving' = serving PROVE \A b \in serving' : b.obj \in 1 .. made'
      BY <1>6, <2>0, Zenon DEF HistTypes
  <2>1. CASE \E i \in DOMAIN boots : BootStep(i)
    <3>1. PICK i \in DOMAIN boots : BootStep(i)
        BY <2>1, Zenon
    <3>2. serving' = serving \/ serving' = serving \cup {boots[i]}
        BY <3>1, Zenon DEF BootStep, BootRead, BootClear, BootFork, BootForkFails, BootStore, objs
    <3> QED
        BY <1>6, <2>0, <3>2, Ranges, Zenon DEF HistTypes
  <2>2. CASE \/ \E p \in Pids : ChildExits(p)
             \/ OperatorSignals \/ ChildSignal
             \/ \E o \in Objs : Settle(o)
             \/ ChildChanged \/ MemoryCheck \/ RecvLagged \/ Stays
      BY <2>0, <2>2, Zenon DEF ChildExits, OperatorSignals, ChildSignal, Settle, ChildChanged,
         MemoryCheck, RecvLagged, Stays, objs
  <2>3. CASE Handle
      BY <2>0, <2>3, Zenon DEF Handle, Shutdown, Restart, Reload, IncreaseWorkers,
         DecreaseWorkers, ForceShutdown, ChildTerminated, PrintInfo, objs
  <2>4. CASE Progress
      BY <2>0, <2>4, Zenon DEF Progress, StopPoll, StopTimeout, Rebooted, MonitorPoll,
         ShutdownTimeout, ReloadExec, ReloadBoot, ReloadStopRest, ReloadDone, objs
  <2> QED
      BY <2>1, <2>2, <2>3, <2>4, NextSteps, Zenon DEF MasterStep
<1>9. aborted' \in BOOLEAN
    BY Zenon DEF Next, Alive, ServeEnds, vars, HistTypes
<1> QED
    BY <1>4, <1>7, <1>8, <1>9, Zenon

\* Every step keeps the type invariant.
LEMMA TypeStep == TypeOK /\ Phases /\ [Next]_vars => TypeOK'
<1> SUFFICES ASSUME SigTypes, LoopTypes, ObjTypes, HistTypes, Phases, [Next]_vars
             PROVE  SigTypes' /\ LoopTypes' /\ ObjTypes' /\ HistTypes'
  <2>1. TypeOK' <=> SigTypes' /\ LoopTypes' /\ ObjTypes' /\ HistTypes'
      BY Zenon DEF TypeOK, SigTypes, LoopTypes, ObjTypes, HistTypes, Events, BootSet
  <2> QED
      BY <2>1, TypeParts, Zenon
<1>1. ints \in Nat /\ others \in Nat
    BY Zenon DEF HistTypes
<1> QED
    BY <1>1, SigTypesStep, LoopTypesStep, ObjTypesStep, HistTypesStep, Zenon DEF HistTypes

\* The type invariant holds at the start.
LEMMA TypeInit == Init => TypeOK
<1> SUFFICES ASSUME Init PROVE SigTypes /\ LoopTypes /\ ObjTypes /\ HistTypes
    BY TypeParts, Zenon
<1>0. /\ Initial \in Nat \ {0} /\ Initial <= MaxObjs /\ Initial <= MaxPids
      /\ \A n \in {MaxObjs, MaxPids, MaxSignals, MaxCrashes, MaxReboots} : n \in Nat
      /\ Earlier \subseteq Nat /\ Capacity \in Nat
    BY ClusterAssumption, Zenon
<1>1. SigTypes
  <2>1. \A n \in Earlier : Wrap8(-n) \in -128 .. 127
    <3>1. \A n \in Earlier : -n \in Int
        BY <1>0
    <3> QED
        BY <3>1, WrapType, Zenon
  <2>2. <<>> \in Seq(Events) /\ Len(<<>>) <= Capacity
      BY <1>0
  <2> QED
      BY <2>1, <2>2, Zenon DEF Init, SigTypes
<1>2. LoopTypes
  <2>1. 0 \in 0 .. Initial /\ 0 \in Nat /\ Initial \in Nat
      BY <1>0
  <2> QED
      BY <2>1, Zenon DEF Init, LoopTypes, NoObj
<1>3. ObjTypes
    BY <1>0 DEF Init, ObjTypes, Objs, Pids, NoPid, Live
<1>4. HistTypes
  <2>1. 0 \in Nat /\ 0 \in 0 .. MaxSignals /\ 0 \in 0 .. MaxCrashes /\ 0 \in 0 .. MaxReboots
      BY <1>0
  <2>2. others \in Nat
      BY <1>0, Zenon DEF Init
  <2> QED
      BY <2>1, <2>2, Zenon DEF Init, HistTypes
<1> QED
    BY <1>1, <1>2, <1>3, <1>4, Zenon

\* Every step keeps where the workers are in each phase.
LEMMA PhasesStep == TypeOK /\ Phases /\ [Next]_vars => Phases'
<1> SUFFICES ASSUME SigTypes, LoopTypes, ObjTypes, HistTypes, Phases, [Next]_vars PROVE Phases'
    BY TypeParts, Zenon
<1> DEFINE LoopPhases ==
        /\ next_workers # {} => RELOAD_IN_PROGRESS
        /\ old # {} => RELOAD_IN_PROGRESS \/ master = "shutting"
        /\ master = "shutting" => old \subseteq process_workers /\ after \in {"exec", "exited"}
        /\ master = "stopping" => after \in {"select", "reload", "reboot"}
        /\ master = "stopping" /\ after = "reboot" => target \in process_workers
        /\ after = "exited" => master \in {"shutting", "exited"}
<1>1. \A o \in Objs : o > made' => child_pid'[o] = NoPid
  <2>0. /\ \A o \in Objs : o > made => child_pid[o] = NoPid
        /\ made' = made \/ made' = made + 1
        /\ made \in Nat /\ \A o \in Objs : o \in Nat
    <3>1. made \in Nat /\ (made' = made \/ made' = made + 1)
        BY BootsStep, Ranges, Zenon
    <3>2. \A o \in Objs : o \in Nat
        BY ClusterAssumption DEF Objs
    <3> QED
        BY <3>1, <3>2, Zenon DEF Phases
  <2>1. \A o \in Objs : o > made' => o > made
      BY <2>0
  <2>2. ASSUME child_pid' = child_pid PROVE \A o \in Objs : o > made' => child_pid'[o] = NoPid
      BY <2>0, <2>1, <2>2, Zenon
  <2>3. CASE \E i \in DOMAIN boots : BootStep(i)
    <3>1. PICK i \in DOMAIN boots : BootStep(i)
        BY <2>3, Zenon
    <3>2. boots[i].obj \in Objs /\ boots[i].obj \in 1 .. made
        BY Ranges, Zenon
    <3>3. ~(boots[i].obj > made)
        BY <3>2, <2>0
    <3>4. CASE BootClear(i) \/ BootStore(i)
      <4>1. \A o \in Objs : child_pid'[o] = child_pid[o] \/ o = boots[i].obj
          BY <3>4, Zenon DEF BootClear, BootForkFails, BootStore, ObjTypes
      <4> QED
          BY <4>1, <3>3, <2>0, <2>1, Zenon
    <3>5. CASE BootRead(i) \/ BootFork(i) \/ BootForkFails(i)
        BY <3>5, <2>2, Zenon DEF BootRead, BootFork, BootForkFails, objs
    <3> QED
        BY <3>1, <3>4, <3>5, Zenon DEF BootStep
  <2>4. CASE \/ \E p \in Pids : ChildExits(p)
             \/ OperatorSignals \/ ChildSignal
             \/ \E o \in Objs : Settle(o)
             \/ ChildChanged \/ MemoryCheck \/ RecvLagged \/ Stays
      BY <2>2, <2>4, Zenon DEF ChildExits, OperatorSignals, ChildSignal, Settle,
         ChildChanged, MemoryCheck,
                         RecvLagged, Stays, objs
  <2>5. CASE Handle
      BY <2>2, <2>5, Zenon DEF Handle, Shutdown, Restart, Reload, IncreaseWorkers,
         DecreaseWorkers, ForceShutdown,
                         ChildTerminated, PrintInfo, objs
  <2>6. CASE Progress
      BY <2>2, <2>6, Zenon DEF Progress, StopPoll, StopTimeout, Rebooted, MonitorPoll,
         ShutdownTimeout, ReloadExec,
                         ReloadBoot, ReloadStopRest, ReloadDone, objs
  <2> QED
      BY <2>3, <2>4, <2>5, <2>6, NextSteps, Zenon DEF MasterStep
<1>2. ASSUME LoopPhases' PROVE Phases'
    BY <1>1, <1>2, Zenon DEF Phases
<1>3. CASE \/ \E p \in Pids : ChildExits(p)
           \/ OperatorSignals \/ ChildSignal
           \/ \E i \in DOMAIN boots : BootStep(i)
           \/ \E o \in Objs : Settle(o)
           \/ PrintInfo \/ Stays
  <2>1. UNCHANGED loop
      BY <1>3, Zenon DEF ChildExits, OperatorSignals, ChildSignal, Settle, PrintInfo,
         BootStep, BootRead,
                         BootClear, BootFork, BootForkFails, BootStore, Stays, objs
  <2> QED
      BY <1>2, <2>1, Zenon DEF Phases, loop, RELOAD_IN_PROGRESS
<1>4. CASE ChildChanged \/ MemoryCheck
  <2>1. CASE ChildChanged
      BY <1>2, <2>1, Zenon DEF ChildChanged, Phases, RELOAD_IN_PROGRESS
  <2>2. CASE MemoryCheck
      BY <1>2, <2>2, Zenon DEF MemoryCheck, BeginStop, Phases, RELOAD_IN_PROGRESS
  <2> QED
      BY <1>4, <2>1, <2>2, Zenon
<1>5. CASE StopPoll \/ StopTimeout
  <2>1. /\ UNCHANGED <<process_workers, after, old, next_workers>>
        /\ master = "stopping" /\ (master' = "booting" \/ (after # "reboot" /\ master' = after))
        /\ after = "reboot" => master' = "booting"
      BY <1>5, Zenon DEF StopPoll, StopTimeout, Continue
  <2>2. after \in {"select", "reload", "reboot"} /\ (after # "reboot" => master' = after)
      BY <1>5, <2>1, Zenon DEF Phases, StopPoll, StopTimeout, Continue
  <2> QED
      BY <1>2, <2>1, <2>2, Zenon DEF Phases, RELOAD_IN_PROGRESS
<1>6. CASE RecvLagged \/ Rebooted \/ ReloadExec \/ IncreaseWorkers \/ ForceShutdown \/ ChildTerminated
    BY <1>2, <1>6, Zenon DEF RecvLagged, Rebooted, ReloadExec, IncreaseWorkers,
       ForceShutdown, ChildTerminated,
                             Recv, Phases, RELOAD_IN_PROGRESS
<1>7. CASE Shutdown \/ Restart
    BY <1>2, <1>7, Zenon DEF Shutdown, Restart, Recv, BeginShutdown, ShutdownThen,
       RestartThen, Phases,
                             RELOAD_IN_PROGRESS, loop
<1>8. CASE Reload
    BY <1>2, <1>8, Zenon DEF Reload, Recv, BeginShutdown, RestartThen, Phases,
       RELOAD_IN_PROGRESS, loop
<1>9. CASE DecreaseWorkers
    BY <1>2, <1>9, Zenon DEF DecreaseWorkers, Recv, BeginStop, Phases, RELOAD_IN_PROGRESS
<1>10. CASE MonitorPoll
    BY <1>2, <1>10, Zenon DEF MonitorPoll, Phases, RELOAD_IN_PROGRESS
<1>11. CASE ShutdownTimeout
    BY <1>2, <1>11, Zenon DEF ShutdownTimeout, Phases, RELOAD_IN_PROGRESS
<1>12. CASE ReloadBoot
  <2>1. CASE old = {}
      BY <1>2, <1>12, <2>1, Zenon DEF ReloadBoot, Phases, RELOAD_IN_PROGRESS
  <2>2. CASE old # {}
      BY <1>2, <1>12, <2>2, Zenon DEF ReloadBoot, BeginStop, Phases, RELOAD_IN_PROGRESS
  <2> QED
      BY <2>1, <2>2, Zenon
<1>13. CASE ReloadStopRest
    BY <1>2, <1>13, Zenon DEF ReloadStopRest, BeginStop, Phases, RELOAD_IN_PROGRESS
<1>14. CASE ReloadDone
    BY <1>2, <1>14, Zenon DEF ReloadDone, Phases, RELOAD_IN_PROGRESS
<1> QED
    BY <1>3, <1>4, <1>5, <1>6, <1>7, <1>8, <1>9, <1>10, <1>11, <1>12, <1>13, <1>14, NextSteps, Zenon
       DEF MasterStep, Handle, Progress

\* The phases at the start.
LEMMA PhasesInit == Init => Phases
<1> SUFFICES ASSUME Init PROVE Phases
    OBVIOUS
<1>1. \A o \in Objs : o > made => child_pid[o] = NoPid
    BY ClusterAssumption DEF Init, Objs, NoPid
<1> QED
    BY <1>1, Zenon DEF Init, Phases

\* Types and phases hold throughout (TypeOK of the cluster).
THEOREM TypeOKCorrect == Spec => [](TypeOK /\ Phases)
<1>1. Init => TypeOK /\ Phases
    BY TypeInit, PhasesInit, Zenon
<1>2. TypeOK /\ Phases /\ [Next]_vars => TypeOK' /\ Phases'
    BY TypeStep, PhasesStep, Zenon
<1> QED
    BY <1>1, <1>2, PTL DEF Spec

\* A shutdown event is waiting in the channel.
Asked == \E i \in DOMAIN queue : queue[i] \in {"Shutdown", "ForceShutdown"}

\* Shutdown events and the exit they lead to come only from SIGINT or SIGTERM.
ReqInv ==
    /\ Asked => SHUTDOWN_REQUESTED
    /\ after = "exited" => SHUTDOWN_REQUESTED
    /\ ExitOnRequest

\* After a send the channel holds the event and events it held before.
LEMMA SentRange ==
    ASSUME queue \in Seq(Events), NEW e \in Events, send_lifecycle_event(e)
    PROVE  \A i \in DOMAIN queue' : queue'[i] = e \/ \E k \in DOMAIN queue : queue[k] = queue'[i]
<1>1. queue' = Append(IF Len(queue) = Capacity THEN Tail(queue) ELSE queue, e)
    BY Zenon DEF send_lifecycle_event
<1>2. Capacity \in Nat \ {0}
    BY ClusterAssumption, Zenon
<1> HIDE DEF Events
<1>3. ASSUME NEW q \in Seq(Events), \A i \in DOMAIN q : \E k \in DOMAIN queue : queue[k] = q[i], queue' = Append(q, e)
      PROVE  \A i \in DOMAIN queue' : queue'[i] = e \/ \E k \in DOMAIN queue : queue[k] = queue'[i]
  <2>1. \A i \in DOMAIN Append(q, e) : (i \in DOMAIN q /\ Append(q, e)[i] = q[i]) \/ Append(q, e)[i] = e
      OBVIOUS
  <2> QED
      BY <1>3, <2>1, Zenon
<1>4. CASE Len(queue) = Capacity
  <2>1. queue # <<>>
      BY <1>2, <1>4
  <2>2. Tail(queue) \in Seq(Events)
      BY <2>1
  <2>3. \A i \in DOMAIN Tail(queue) : i + 1 \in DOMAIN queue /\ queue[i + 1] = Tail(queue)[i]
      BY <2>1
  <2> QED
      BY <1>1, <1>3, <1>4, <2>2, <2>3, Zenon
<1> QED
    BY <1>1, <1>3, <1>4, Zenon

\* After a receive the channel holds only events it held before.
LEMMA RecvRange ==
    ASSUME queue \in Seq(Events), NEW e, Recv(e)
    PROVE  /\ \A i \in DOMAIN queue' : \E k \in DOMAIN queue : queue[k] = queue'[i]
           /\ \E k \in DOMAIN queue : queue[k] = e
<1>1. queue # <<>> /\ Head(queue) = e /\ queue' = Tail(queue)
    BY Zenon DEF Recv
<1> HIDE DEF Events
<1>2. \A i \in DOMAIN Tail(queue) : i + 1 \in DOMAIN queue /\ queue[i + 1] = Tail(queue)[i]
    BY <1>1
<1>3. 1 \in DOMAIN queue /\ queue[1] = e
    BY <1>1
<1> QED
    BY <1>1, <1>2, <1>3, Zenon

\* What a step may put into the channel, and why.
LEMMA QueueStep ==
    ASSUME SigTypes, [Next]_vars
    PROVE  \/ /\ \A i \in DOMAIN queue' : \E k \in DOMAIN queue : queue[k] = queue'[i]
              /\ UNCHANGED SHUTDOWN_REQUESTED /\ (lagged => lagged')
              /\ UNCHANGED <<SIGINT_COUNT, ints, others>>
           \/ \E sig \in Signals \cup {"CHLD"} :
              /\ receive_signal(sig) /\ (lagged => lagged') /\ UNCHANGED loop
              /\ \A i \in DOMAIN queue' :
                    \/ \E k \in DOMAIN queue : queue[k] = queue'[i]
                    \/ sig = "INT" /\ queue'[i] = ShutdownEvent(SIGINT_COUNT')
                    \/ sig # "INT" /\ queue'[i] = Event[sig]
<1>0. queue \in Seq(Events)
    BY Zenon DEF SigTypes
<1>1. ASSUME NEW sig \in Signals \cup {"CHLD"}, receive_signal(sig)
      PROVE  /\ lagged => lagged'
             /\ \A i \in DOMAIN queue' :
                    \/ \E k \in DOMAIN queue : queue[k] = queue'[i]
                    \/ sig = "INT" /\ queue'[i] = ShutdownEvent(SIGINT_COUNT')
                    \/ sig # "INT" /\ queue'[i] = Event[sig]
  <2>1. CASE sig = "INT"
    <3>1. send_lifecycle_event(ShutdownEvent(SIGINT_COUNT'))
        BY <1>1, <2>1, Zenon DEF receive_signal
    <3>2. ShutdownEvent(SIGINT_COUNT') \in Events
        BY DEF ShutdownEvent, Events, Event
    <3> QED
        BY <1>0, <2>1, <3>1, <3>2, SentRange, Zenon DEF send_lifecycle_event
  <2>2. CASE sig # "INT"
    <3>1. send_lifecycle_event(Event[sig])
        BY <1>1, <2>2, Zenon DEF receive_signal
    <3>2. Event[sig] \in Events
      <4>1. sig \in DOMAIN Event
          BY ClusterAssumption DEF Event
      <4> QED
          BY <4>1, Zenon DEF Events
    <3> QED
        BY <1>0, <2>2, <3>1, <3>2, SentRange, Zenon DEF send_lifecycle_event
  <2> QED
      BY <2>1, <2>2, Zenon
<1>2. CASE OperatorSignals \/ ChildSignal
  <2>1. UNCHANGED loop /\ \E sig \in Signals \cup {"CHLD"} : receive_signal(sig)
      BY <1>2, Zenon DEF OperatorSignals, ChildSignal
  <2> QED
      BY <1>1, <2>1, Zenon
<1>3. CASE Handle
  <2>1. \E e : Recv(e) /\ UNCHANGED <<ints, others>>
      BY <1>3, Zenon DEF Handle, Shutdown, Restart, Reload, IncreaseWorkers,
         DecreaseWorkers, ForceShutdown,
                         ChildTerminated, PrintInfo, history
  <2> QED
      BY <1>0, <2>1, RecvRange, Zenon DEF Recv
<1>4. CASE \/ \E p \in Pids : ChildExits(p)
           \/ \E i \in DOMAIN boots : BootStep(i)
           \/ \E o \in Objs : Settle(o)
           \/ ChildChanged \/ MemoryCheck \/ RecvLagged \/ Stays
  <2>1. UNCHANGED <<queue, SHUTDOWN_REQUESTED, lagged, SIGINT_COUNT, ints, others>>
      BY <1>4, Zenon DEF ChildExits, Settle, ChildChanged, MemoryCheck, RecvLagged,
         BootStep, BootRead,
                         BootClear, BootFork, BootForkFails, BootStore, Stays, sigs, history
  <2> QED
      BY <2>1, Zenon
<1>5. CASE Progress
  <2>1. UNCHANGED <<queue, SHUTDOWN_REQUESTED, lagged, SIGINT_COUNT, ints, others>>
      BY <1>5, Zenon DEF Progress, StopPoll, StopTimeout, Rebooted, MonitorPoll,
         ShutdownTimeout, ReloadExec,
                         ReloadBoot, ReloadStopRest, ReloadDone, sigs, history
  <2> QED
      BY <2>1, Zenon
<1> QED
    BY <1>2, <1>3, <1>4, <1>5, NextSteps, Zenon DEF MasterStep

\* Where an exit comes from.
LEMMA ExitStep ==
    ASSUME Phases, [Next]_vars
    PROVE  /\ after' = "exited" => after = "exited" \/ Shutdown
           /\ master' = "exited" => master = "exited" \/ (after = "exited" /\ after' = after) \/ RecvLagged
<1>1. CASE \/ \E p \in Pids : ChildExits(p)
           \/ OperatorSignals \/ ChildSignal
           \/ \E i \in DOMAIN boots : BootStep(i)
           \/ \E o \in Objs : Settle(o)
           \/ ChildChanged \/ MemoryCheck \/ RecvLagged \/ Stays
    BY <1>1, Zenon DEF ChildExits, OperatorSignals, ChildSignal, Settle, ChildChanged,
       MemoryCheck, RecvLagged,
                       BootStep, BootRead, BootClear, BootFork, BootForkFails, BootStore, BeginStop, Stays, loop
<1>2. CASE Handle
    BY <1>2, Zenon DEF Handle, Restart, Reload, IncreaseWorkers, DecreaseWorkers,
       ForceShutdown, Shutdown,
                       ChildTerminated, PrintInfo, BeginStop, BeginShutdown, RestartThen, loop
<1>3. CASE StopPoll \/ StopTimeout
    BY <1>3, Zenon DEF StopPoll, StopTimeout, Continue
<1>4. CASE MonitorPoll \/ ShutdownTimeout
    BY <1>4, Zenon DEF MonitorPoll, ShutdownTimeout
<1>5. CASE Rebooted \/ ReloadExec \/ ReloadBoot \/ ReloadStopRest \/ ReloadDone
    BY <1>5, Zenon DEF Rebooted, ReloadExec, ReloadBoot, ReloadStopRest, ReloadDone, BeginStop
<1> QED
    BY <1>1, <1>2, <1>3, <1>4, <1>5, NextSteps, Zenon DEF MasterStep, Progress

\* Every step keeps what an exit needs.
LEMMA ReqStep == TypeOK /\ Phases /\ ReqInv /\ [Next]_vars => ReqInv'
<1> SUFFICES ASSUME SigTypes, Phases, ReqInv, [Next]_vars PROVE ReqInv'
    BY TypeParts, Zenon
<1>1. (SHUTDOWN_REQUESTED => SHUTDOWN_REQUESTED') /\ (lagged => lagged') /\ (Asked' => SHUTDOWN_REQUESTED')
  <2>1. CASE /\ \A i \in DOMAIN queue' : \E k \in DOMAIN queue : queue[k] = queue'[i]
             /\ UNCHANGED SHUTDOWN_REQUESTED /\ (lagged => lagged')
      BY <2>1, Zenon DEF ReqInv, Asked
  <2>2. ASSUME NEW sig \in Signals \cup {"CHLD"},
               receive_signal(sig) /\ (lagged => lagged'),
               \A i \in DOMAIN queue' :
                    \/ \E k \in DOMAIN queue : queue[k] = queue'[i]
                    \/ sig = "INT" /\ queue'[i] = ShutdownEvent(SIGINT_COUNT')
                    \/ sig # "INT" /\ queue'[i] = Event[sig]
        PROVE  (SHUTDOWN_REQUESTED => SHUTDOWN_REQUESTED') /\ (lagged => lagged') /\ (Asked' => SHUTDOWN_REQUESTED')
    <3>1. CASE sig = "INT"
        BY <2>2, <3>1, Zenon DEF receive_signal
    <3>2. CASE sig # "INT"
      <4>1. SHUTDOWN_REQUESTED' = SHUTDOWN_REQUESTED
          BY <2>2, <3>2, Zenon DEF receive_signal
      <4>2. Event[sig] \notin {"Shutdown", "ForceShutdown"}
          BY <3>2, ClusterAssumption DEF Event
      <4>3. Asked' => Asked
          BY <2>2, <3>2, <4>2, Zenon DEF Asked
      <4> QED
          BY <2>2, <4>1, <4>3, Zenon DEF ReqInv
    <3> QED
        BY <3>1, <3>2, Zenon
  <2> QED
      BY <2>1, <2>2, QueueStep, Zenon
<1>2. Shutdown => SHUTDOWN_REQUESTED
  <2>1. ASSUME Shutdown PROVE Asked
      BY <2>1, RecvRange, Zenon DEF Shutdown, Asked, SigTypes
  <2> QED
      BY <2>1, Zenon DEF ReqInv
<1>3. RecvLagged => lagged
    BY Zenon DEF RecvLagged
<1> QED
    BY <1>1, <1>2, <1>3, ExitStep, Zenon DEF ReqInv, ExitOnRequest

\* Every process that was not sent SIGKILL is within reach (NoLostChild
\* without the exception).
Reached ==
    \A p \in Pids : Unharmed(p) =>
        \/ \E i \in DOMAIN boots : boots[i].pid = p
        \/ \E o \in Known : o # NoObj /\ child_pid[o] = p

\* shutdown() has come to its end.
AtEnd == (master = "exited" /\ after = "exited") \/ master \in {"exec", "reexec"}

\* GoneAtExit without the exception.
Gone == AtEnd => \A p \in Pids : ~Unharmed(p)

\* What holds as long as nothing raced.
Calm == Threads /\ Draining /\ Reached /\ Gone

\* The two invariants are what is left of calm.
LEMMA CalmMeans ==
    ASSUME ObjTypes
    PROVE  /\ NoLostChild <=> (raced = {} => Reached)
           /\ GoneAtExit <=> (raced = {} => Gone)
<1>1. \A p \in Pids : ~Unharmed(p) <=> proc[p] \in {"free", "dead", "killed"}
    BY Zenon DEF Unharmed, ObjTypes, Live
<1> QED
    BY <1>1, Zenon DEF NoLostChild, Reached, Unharmed, GoneAtExit, Gone, AtEnd

\* What raced once is not forgotten.
LEMMA RacedGrows == [Next]_vars => raced \subseteq raced'
<1> SUFFICES ASSUME [Next]_vars PROVE raced \subseteq raced'
    OBVIOUS
<1>0. \A os : Racing(os) => raced \subseteq raced'
    BY Zenon DEF Racing
<1>1. CASE \/ \E p \in Pids : ChildExits(p)
           \/ OperatorSignals \/ ChildSignal
           \/ \E i \in DOMAIN boots : BootStep(i)
           \/ \E o \in Objs : Settle(o)
           \/ ChildChanged \/ MemoryCheck \/ RecvLagged \/ Stays
    BY <1>0, <1>1, Zenon DEF ChildExits, OperatorSignals, ChildSignal, Settle,
       ChildChanged, MemoryCheck,
                       RecvLagged, BootStep, BootRead, BootClear, BootFork, BootForkFails, BootStore,
                       BeginStop, Stays, history
<1>2. CASE Handle
    BY <1>0, <1>2, Zenon DEF Handle, Shutdown, Restart, Reload, IncreaseWorkers,
       DecreaseWorkers, ForceShutdown,
                       ChildTerminated, PrintInfo, BeginStop, BeginShutdown, history
<1>3. CASE Progress
    BY <1>0, <1>3, Zenon DEF Progress, StopPoll, StopTimeout, Rebooted, MonitorPoll,
       ShutdownTimeout, ReloadExec,
                       ReloadBoot, ReloadStopRest, ReloadDone, BeginStop, history
<1> QED
    BY <1>1, <1>2, <1>3, NextSteps, Zenon DEF MasterStep

\* When no process is forked, processes only get worse.
LEMMA Worse ==
    ASSUME ObjTypes, [Next]_vars, forks' = forks, forks \in Nat
    PROVE  \A p \in Pids : (Unharmed(p)' => Unharmed(p)) /\ (proc'[p] \in Live => proc[p] \in Live)
<1>1. forks + 1 # forks
    OBVIOUS
<1>2. \A p \in Pids : Moves(p)
    BY ProcStep, Zenon
<1> QED
    BY <1>1, <1>2, Zenon DEF Moves, Live, Unharmed

\* The same, seen from the workers: none gets a live child that had none.
LEMMA WorseHeld ==
    ASSUME ObjTypes, LoopTypes, [Next]_vars, forks' = forks, child_pid' = child_pid
    PROVE  \A o \in Objs : (Holds(o)' => Holds(o)) /\ (is_alive(o)' => is_alive(o))
<1>0. forks \in Nat /\ (\A o \in Objs : child_pid[o] # NoPid => child_pid[o] \in Pids)
    BY Ranges, Zenon
<1>1. \A p \in Pids : (Unharmed(p)' => Unharmed(p)) /\ (proc'[p] \in Live => proc[p] \in Live)
    BY <1>0, Worse, Zenon
<1> QED
    BY <1>0, <1>1, Zenon DEF Holds, Unharmed, is_alive

\* A step that leaves the loop, the workers and the threads alone keeps calm.
LEMMA IdleCalm ==
    ASSUME ObjTypes, LoopTypes, Calm, [Next]_vars, forks' = forks, UNCHANGED <<loop, boots, child_pid>>
    PROVE  Calm'
<1>0. forks \in Nat /\ process_workers \cup old \cup next_workers \subseteq Objs /\ 1 .. made \subseteq Objs
    BY Ranges, Zenon
<1>1. \A p \in Pids : (Unharmed(p)' => Unharmed(p)) /\ (proc'[p] \in Live => proc[p] \in Live)
    BY <1>0, Worse, Zenon
<1>2. \A o \in Objs : (Holds(o)' => Holds(o)) /\ (is_alive(o)' => is_alive(o))
    BY WorseHeld, Zenon
<1>3. Threads'
  <2>1. \A i \in DOMAIN boots : BootThread(i)'
    <3> SUFFICES ASSUME NEW i \in DOMAIN boots PROVE BootThread(i)'
        BY Zenon
    <3>1. BootThread(i) /\ boots[i].obj \in Objs
        BY <1>0, Ranges, Zenon DEF Calm, Threads
    <3> QED
        BY <1>2, <3>1, Zenon DEF BootThread, loop
  <2> QED
      BY <2>1, Zenon DEF Calm, Threads, Stopped, loop
<1>4. Draining'
    BY <1>0, <1>2, Zenon DEF Calm, Draining, loop
<1>5. Reached'
    BY <1>1, Zenon DEF Calm, Reached, Known, loop
<1>6. Gone'
    BY <1>1, Zenon DEF Calm, Gone, AtEnd, loop
<1> QED
    BY <1>3, <1>4, <1>5, <1>6, Zenon DEF Calm

\* A boot thread works only while shutdown() has not begun.
LEMMA BootingEarly ==
    ASSUME Calm, NEW i \in DOMAIN boots, UNCHANGED loop
    PROVE  ~Stopped /\ Draining' /\ Gone' /\ (Stopped' => boots' = <<>>)
<1>1. ~Stopped
  <2>1. boots # <<>>
      OBVIOUS
  <2> QED
      BY <2>1, Zenon DEF Calm, Threads
<1> QED
    BY <1>1, Zenon DEF Stopped, Draining, Gone, AtEnd, loop

\* A thread's record after it has gone to another step.
LEMMA Stepped ==
    ASSUME ObjTypes, LoopTypes, NEW i \in DOMAIN boots, NEW t,
           boots' = [boots EXCEPT ![i].step = t]
    PROVE  /\ DOMAIN boots' = DOMAIN boots
           /\ \A k \in DOMAIN boots : boots'[k].obj = boots[k].obj /\ boots'[k].pid = boots[k].pid
           /\ \A k \in DOMAIN boots : k # i => boots'[k] = boots[k]
           /\ boots'[i].step = t
<1>1. boots \in Seq(BootSetOf(made, forks))
    BY Ranges, Zenon DEF ObjTypes
<1>2. boots[i] \in BootSetOf(made, forks)
    BY <1>1
<1> DEFINE b == [boots[i] EXCEPT !.step = t]
<1>3. b.obj = boots[i].obj /\ b.pid = boots[i].pid /\ b.step = t
    BY <1>2 DEF BootSetOf
<1>4. DOMAIN boots' = DOMAIN boots /\ boots'[i] = b /\ \A k \in DOMAIN boots : k # i => boots'[k] = boots[k]
    BY <1>1
<1> HIDE DEF b
<1> QED
    BY <1>3, <1>4, Zenon

\* A thread whose worker is left alone stays in order.
LEMMA ThreadKept ==
    ASSUME NEW k, NEW m, NEW c, BootThread(k), boots'[m] = boots[k], c = boots[k].obj,
           child_pid'[c] = child_pid[c], Holds(c)' => Holds(c),
           c \in (process_workers \cup old \cup next_workers)', c # target'
    PROVE  BootThread(m)'
    BY Zenon DEF BootThread

\* What the loop can reach are workers.
LEMMA KnownObjs ==
    ASSUME ObjTypes, LoopTypes
    PROVE  (\A c \in Known : c # NoObj => c \in Objs)
           /\ (master = "stopping" => target \in 1 .. made /\ target \in Objs)
<1>1. target # NoObj => target \in 1 .. made
  <2>1. target \in 0 .. made /\ made \in Nat
      BY Ranges, Zenon DEF LoopTypes
  <2> QED
      BY <2>1 DEF NoObj
<1>2. 1 .. made \subseteq Objs /\ process_workers \cup old \cup next_workers \subseteq Objs
    BY Ranges, Zenon
<1> QED
    BY <1>1, <1>2, Zenon DEF Known, LoopTypes

\* The read of boot keeps calm: SIGTERM does not make a child unreachable.
LEMMA ReadCalm ==
    ASSUME ObjTypes, LoopTypes, Calm, [Next]_vars, NEW i \in DOMAIN boots, BootRead(i),
           NEW o, o = boots[i].obj
    PROVE  Calm'
<1>0. /\ forks \in Nat /\ forks' = forks /\ child_pid' = child_pid /\ UNCHANGED loop /\ boots[i].step = "read"
      /\ boots' = [boots EXCEPT ![i].step = IF child_pid[o] = NoPid THEN "fork" ELSE "clear"]
    BY Ranges, Zenon DEF BootRead, Step, objs
<1>1. \A p \in Pids : (Unharmed(p)' => Unharmed(p)) /\ (proc'[p] \in Live => proc[p] \in Live)
    BY <1>0, Worse, Zenon
<1>2. \A c \in Objs : (Holds(c)' => Holds(c)) /\ (is_alive(c)' => is_alive(c))
    BY <1>0, WorseHeld, Zenon
<1>3. /\ DOMAIN boots' = DOMAIN boots
      /\ \A k \in DOMAIN boots : boots'[k].obj = boots[k].obj /\ boots'[k].pid = boots[k].pid
      /\ \A k \in DOMAIN boots : k # i => boots'[k] = boots[k]
      /\ boots'[i].step = IF child_pid[o] = NoPid THEN "fork" ELSE "clear"
    BY <1>0, Stepped, Zenon
<1>4. \A k \in DOMAIN boots' : BootThread(k)'
  <2> SUFFICES ASSUME NEW k \in DOMAIN boots PROVE BootThread(k)'
      BY <1>3, Zenon
  <2>1. BootThread(k) /\ BootThread(i) /\ boots[k].obj \in Objs /\ boots[i].obj \in Objs
      BY Ranges, Zenon DEF Calm, Threads
  <2>2. UNCHANGED <<process_workers, old, next_workers, target>>
      BY <1>0, Zenon DEF loop
  <2>3. CASE k = i
    <3>1. boots'[i].obj = o /\ boots'[i].pid = boots[i].pid
        BY <1>3, Zenon
    <3>2. boots'[i].step \in {"clear", "fork"} /\ (boots'[i].step = "fork" => child_pid'[o] = NoPid)
      <4>1. CASE child_pid[o] = NoPid
          BY <1>0, <1>3, <4>1, Zenon
      <4>2. CASE child_pid[o] # NoPid
        <5>1. boots'[i].step = "clear"
            BY <1>3, <4>2, Zenon
        <5> QED
            BY <5>1, Zenon
      <4> QED
          BY <4>1, <4>2, Zenon
    <3>3. ~Holds(o) /\ ~Holds(o)'
        BY <1>0, <1>2, <2>1, Zenon DEF BootThread
    <3> QED
        BY <1>0, <1>2, <2>1, <2>2, <2>3, <3>1, <3>2, <3>3, Zenon DEF BootThread
  <2>4. CASE k # i
    <3>1. boots'[k] = boots[k] /\ child_pid'[boots[k].obj] = child_pid[boots[k].obj]
        BY <1>0, <1>3, <2>1, <2>4, Zenon
    <3> QED
        BY <1>2, <2>1, <2>2, <3>1, ThreadKept, Zenon DEF BootThread
  <2> QED
      BY <2>3, <2>4, Zenon
<1>5. Threads' /\ Draining' /\ Gone'
  <2>1. Draining' /\ Gone' /\ (Stopped' => boots' = <<>>)
      BY <1>0, BootingEarly, Zenon
  <2>2. \A k, m \in DOMAIN boots' : boots'[k].obj = boots'[m].obj => k = m
      BY <1>3, Zenon DEF Calm, Threads
  <2> QED
      BY <1>4, <2>1, <2>2, Zenon DEF Threads
<1>6. Reached'
    BY <1>0, <1>1, <1>3, Zenon DEF Calm, Reached, Known, loop
<1> QED
    BY <1>5, <1>6, Zenon DEF Calm

\* Clearing the pid keeps calm: what it named has ended or been killed.
LEMMA ClearCalm ==
    ASSUME ObjTypes, LoopTypes, Calm, [Next]_vars, NEW i \in DOMAIN boots, BootClear(i),
           NEW o, o = boots[i].obj
    PROVE  Calm'
<1>0. /\ UNCHANGED loop /\ proc' = proc /\ boots[i].step = "clear" /\ o \in Objs
      /\ boots' = [boots EXCEPT ![i].step = "fork"] /\ boots \in Seq(BootSetOf(made, forks))
      /\ child_pid' = [child_pid EXCEPT ![o] = NoPid]
      /\ child_pid'[o] = NoPid /\ \A c \in Objs : c # o => child_pid'[c] = child_pid[c]
    BY Ranges, Zenon DEF BootClear, Step, procs, ObjTypes
<1>1. \A p \in Pids : Unharmed(p)' <=> Unharmed(p)
    BY <1>0, Zenon DEF Unharmed
<1>2. \A c \in Objs : Holds(c)' => Holds(c)
    BY <1>0, Zenon DEF Holds, Unharmed
<1>3. /\ DOMAIN boots' = DOMAIN boots
      /\ \A k \in DOMAIN boots : boots'[k].obj = boots[k].obj /\ boots'[k].pid = boots[k].pid
      /\ \A k \in DOMAIN boots : k # i => boots'[k] = boots[k]
      /\ boots'[i].step = "fork"
    BY <1>0, Stepped, Zenon
<1>4. \A k \in DOMAIN boots' : BootThread(k)'
  <2> SUFFICES ASSUME NEW k \in DOMAIN boots PROVE BootThread(k)'
      BY <1>3, Zenon
  <2>1. BootThread(k) /\ BootThread(i) /\ boots[k].obj \in Objs /\ (boots[k].obj = o => k = i)
      BY Ranges, Zenon DEF Calm, Threads
  <2>2. UNCHANGED <<process_workers, old, next_workers, target>>
      BY <1>0, Zenon DEF loop
  <2>3. CASE k = i
    <3>1. boots'[i].obj = o /\ boots'[i].pid = boots[i].pid
        BY <1>3, Zenon
    <3>2. boots'[i].step \in {"clear", "fork"} /\ (boots'[i].step = "fork" => child_pid'[o] = NoPid)
        BY <1>0, <1>3, Zenon
    <3>3. ~Holds(o) /\ ~Holds(o)'
        BY <1>0, <1>2, <2>1, Zenon DEF BootThread
    <3> QED
        BY <1>0, <1>2, <2>1, <2>2, <2>3, <3>1, <3>2, <3>3, Zenon DEF BootThread
  <2>4. CASE k # i
    <3>1. boots'[k] = boots[k] /\ child_pid'[boots[k].obj] = child_pid[boots[k].obj]
        BY <1>0, <1>3, <2>1, <2>4, Zenon
    <3> QED
        BY <1>2, <2>1, <2>2, <3>1, ThreadKept, Zenon DEF BootThread
  <2> QED
      BY <2>3, <2>4, Zenon
<1>5. Threads' /\ Draining' /\ Gone'
  <2>1. Draining' /\ Gone' /\ (Stopped' => boots' = <<>>)
      BY <1>0, BootingEarly, Zenon
  <2>2. \A k, m \in DOMAIN boots' : boots'[k].obj = boots'[m].obj => k = m
      BY <1>3, Zenon DEF Calm, Threads
  <2> QED
      BY <1>4, <2>1, <2>2, Zenon DEF Threads
<1>6. Reached'
  <2> SUFFICES ASSUME NEW p \in Pids, Unharmed(p)
               PROVE  \/ \E k \in DOMAIN boots' : boots'[k].pid = p
                      \/ \E c \in Known' : c # NoObj /\ child_pid'[c] = p
      BY <1>1, Zenon DEF Reached
  <2>1. \/ \E k \in DOMAIN boots : boots[k].pid = p
        \/ \E c \in Known : c # NoObj /\ child_pid[c] = p
      BY Zenon DEF Calm, Reached
  <2>2. child_pid[o] # p
    <3>1. ~Holds(o)
        BY <1>0, Zenon DEF Calm, Threads, BootThread
    <3>2. p # NoPid
        BY Ranges, Zenon
    <3> QED
        BY <3>1, <3>2, Zenon DEF Holds
  <2>3. Known' = Known /\ \A c \in Known : c # NoObj => c \in Objs
      BY <1>0, KnownObjs, Zenon DEF Known, loop
  <2> QED
      BY <1>0, <1>3, <2>1, <2>2, <2>3, Zenon
<1> QED
    BY <1>5, <1>6, Zenon DEF Calm

\* A fork keeps calm: the thread holds the pid of the new child.
LEMMA ForkCalm ==
    ASSUME ObjTypes, LoopTypes, Calm, [Next]_vars, NEW i \in DOMAIN boots, BootFork(i),
           NEW o, o = boots[i].obj
    PROVE  Calm'
<1>0. /\ UNCHANGED loop /\ child_pid' = child_pid /\ boots[i].step = "fork" /\ o \in Objs
      /\ forks \in Nat /\ forks < MaxPids /\ forks' = forks + 1
      /\ proc' = [proc EXCEPT ![forks'] = "running"]
      /\ boots' = [boots EXCEPT ![i].step = "store", ![i].pid = forks'] /\ boots \in Seq(BootSetOf(made, forks))
    BY Ranges, Zenon DEF BootFork, objs, ObjTypes
<1>1. \A p \in Pids : p # forks' => (Unharmed(p)' <=> Unharmed(p))
    BY <1>0, Zenon DEF Unharmed, ObjTypes
<1>2. \A c \in Objs : Holds(c)' => Holds(c)
  <2>1. \A c \in Objs : child_pid[c] \in 0 .. forks
      BY Ranges, Zenon
  <2>2. \A q \in 0 .. forks : q # forks'
      BY <1>0
  <2>3. \A c \in Objs : child_pid[c] # NoPid => child_pid[c] \in Pids
      BY Ranges, Zenon
  <2> QED
      BY <1>0, <1>1, <2>1, <2>2, <2>3, Zenon DEF Holds, Unharmed
<1>3. /\ DOMAIN boots' = DOMAIN boots
      /\ \A k \in DOMAIN boots : k # i => boots'[k] = boots[k]
      /\ boots'[i].step = "store" /\ boots'[i].obj = o /\ boots'[i].pid = forks'
  <2>1. boots[i] \in BootSetOf(made, forks)
      BY <1>0
  <2> DEFINE b == [boots[i] EXCEPT !.step = "store", !.pid = forks']
  <2>2. b.obj = boots[i].obj /\ b.pid = forks' /\ b.step = "store"
      BY <2>1 DEF BootSetOf
  <2>3. DOMAIN boots' = DOMAIN boots /\ boots'[i] = b /\ \A k \in DOMAIN boots : k # i => boots'[k] = boots[k]
      BY <1>0
  <2> HIDE DEF b
  <2> QED
      BY <2>2, <2>3, Zenon
<1>4. \A k \in DOMAIN boots' : BootThread(k)'
  <2> SUFFICES ASSUME NEW k \in DOMAIN boots PROVE BootThread(k)'
      BY <1>3, Zenon
  <2>1. BootThread(k) /\ BootThread(i) /\ boots[k].obj \in Objs
      BY Ranges, Zenon DEF Calm, Threads
  <2>2. UNCHANGED <<process_workers, old, next_workers, target>>
      BY <1>0, Zenon DEF loop
  <2>3. CASE k = i
      BY <1>0, <1>3, <2>1, <2>2, <2>3, Zenon DEF BootThread
  <2>4. CASE k # i
    <3>1. boots'[k] = boots[k] /\ child_pid'[boots[k].obj] = child_pid[boots[k].obj]
        BY <1>0, <1>3, <2>1, <2>4, Zenon
    <3> QED
        BY <1>2, <2>1, <2>2, <3>1, ThreadKept, Zenon DEF BootThread
  <2> QED
      BY <2>3, <2>4, Zenon
<1>5. Threads' /\ Draining' /\ Gone'
  <2>1. Draining' /\ Gone' /\ (Stopped' => boots' = <<>>)
      BY <1>0, BootingEarly, Zenon
  <2>2. \A k, m \in DOMAIN boots' : boots'[k].obj = boots'[m].obj => k = m
    <3>1. \A k \in DOMAIN boots : boots'[k].obj = boots[k].obj
        BY <1>3, Zenon
    <3> QED
        BY <1>3, <3>1, Zenon DEF Calm, Threads
  <2> QED
      BY <1>4, <2>1, <2>2, Zenon DEF Threads
<1>6. Reached'
  <2> SUFFICES ASSUME NEW p \in Pids, Unharmed(p)'
               PROVE  \/ \E k \in DOMAIN boots' : boots'[k].pid = p
                      \/ \E c \in Known' : c # NoObj /\ child_pid'[c] = p
      BY Zenon DEF Reached
  <2>1. CASE p = forks'
      BY <1>3, <2>1, Zenon
  <2>2. CASE p # forks'
    <3>1. \/ \E k \in DOMAIN boots : boots[k].pid = p
          \/ \E c \in Known : c # NoObj /\ child_pid[c] = p
        BY <1>1, <2>2, Zenon DEF Calm, Reached
    <3>2. boots[i].pid # p
      <4>1. BootThread(i)
          BY Zenon DEF Calm, Threads
      <4>2. boots[i].pid = NoPid /\ p # NoPid
          BY <1>0, <4>1, Ranges, Zenon DEF BootThread
      <4> QED
          BY <4>2, Zenon
    <3>3. Known' = Known
        BY <1>0, Zenon DEF Known, loop
    <3> QED
        BY <1>0, <1>3, <3>1, <3>2, <3>3, Zenon
  <2> QED
      BY <2>1, <2>2, Zenon
<1> QED
    BY <1>5, <1>6, Zenon DEF Calm

\* What is left of a sequence keeps its distinct places.
LEMMA RemovedApart ==
    ASSUME NEW S, NEW s \in Seq(S), NEW i \in DOMAIN s, NEW r, r = RemoveAt(s, i)
    PROVE  /\ r \in Seq(S)
           /\ \A k \in DOMAIN r : \E m \in DOMAIN s : m # i /\ r[k] = s[m]
           /\ \A m \in DOMAIN s : m # i => \E k \in DOMAIN r : r[k] = s[m]
           /\ \A k, n \in DOMAIN r : k # n => \E a, b \in DOMAIN s : a # b /\ r[k] = s[a] /\ r[n] = s[b]
<1> DEFINE at(k) == IF k < i THEN k ELSE k + 1
<1>1. /\ r \in Seq(S)
      /\ \A k \in DOMAIN r : at(k) \in DOMAIN s /\ at(k) # i /\ r[k] = s[at(k)]
      /\ \A m \in DOMAIN s : m # i => \E k \in DOMAIN r : r[k] = s[m]
    BY Removed
<1>2. \A k, n \in DOMAIN r : k # n => at(k) # at(n)
  <2>1. \A k \in DOMAIN r : k \in Nat
      BY <1>1
  <2>2. i \in Nat
      OBVIOUS
  <2> QED
      BY <2>1, <2>2
<1> HIDE DEF at
<1>3. \A k, n \in DOMAIN r : k # n => \E a, b \in DOMAIN s : a # b /\ r[k] = s[a] /\ r[n] = s[b]
  <2> SUFFICES ASSUME NEW k \in DOMAIN r, NEW n \in DOMAIN r, k # n
               PROVE  \E a, b \in DOMAIN s : a # b /\ r[k] = s[a] /\ r[n] = s[b]
      BY Zenon
  <2>1. at(k) \in DOMAIN s /\ at(n) \in DOMAIN s /\ at(k) # at(n) /\ r[k] = s[at(k)] /\ r[n] = s[at(n)]
      BY <1>1, <1>2, Zenon
  <2> QED
      BY <2>1, Zenon
<1>4. \A k \in DOMAIN r : \E m \in DOMAIN s : m # i /\ r[k] = s[m]
    BY <1>1, Zenon
<1> QED
    BY <1>1, <1>3, <1>4, Zenon

\* The threads that are left when one ends.
LEMMA OthersLeft ==
    ASSUME ObjTypes, LoopTypes, Calm, NEW i \in DOMAIN boots, boots' = RemoveAt(boots, i)
    PROVE  /\ \A k \in DOMAIN boots' : \E m \in DOMAIN boots : m # i /\ boots'[k] = boots[m]
           /\ \A m \in DOMAIN boots : m # i => \E k \in DOMAIN boots' : boots'[k] = boots[m]
           /\ \A k, n \in DOMAIN boots' : boots'[k].obj = boots'[n].obj => k = n
<1> DEFINE B == BootSetOf(made, forks)
<1>0. boots \in Seq(B)
    BY Ranges, Zenon DEF ObjTypes
<1> HIDE DEF B
<1>1. /\ \A k \in DOMAIN boots' : \E m \in DOMAIN boots : m # i /\ boots'[k] = boots[m]
      /\ \A m \in DOMAIN boots : m # i => \E k \in DOMAIN boots' : boots'[k] = boots[m]
      /\ \A k, n \in DOMAIN boots' : k # n =>
            \E a, b \in DOMAIN boots : a # b /\ boots'[k] = boots[a] /\ boots'[n] = boots[b]
    BY <1>0, RemovedApart
<1>2. \A k, n \in DOMAIN boots : boots[k].obj = boots[n].obj => k = n
    BY Zenon DEF Calm, Threads
<1>3. ASSUME NEW k \in DOMAIN boots', NEW n \in DOMAIN boots', boots'[k].obj = boots'[n].obj, k # n
      PROVE  FALSE
  <2>1. PICK a \in DOMAIN boots, b \in DOMAIN boots : a # b /\ boots'[k] = boots[a] /\ boots'[n] = boots[b]
      BY <1>1, <1>3, Zenon
  <2> QED
      BY <1>2, <1>3, <2>1, Zenon
<1> QED
    BY <1>1, <1>3, Zenon

\* A failed fork keeps calm: the thread held no process.
LEMMA ForkFailsCalm ==
    ASSUME ObjTypes, LoopTypes, Calm, [Next]_vars, NEW i \in DOMAIN boots, BootForkFails(i)
    PROVE  Calm'
<1>0. /\ UNCHANGED <<loop, child_pid, proc>> /\ boots[i].step = "fork"
      /\ boots' = RemoveAt(boots, i)
    BY Zenon DEF BootForkFails, procs
<1>1. /\ \A p \in Pids : Unharmed(p)' <=> Unharmed(p)
      /\ \A c \in Objs : Holds(c)' => Holds(c)
    BY <1>0, Zenon DEF Holds, Unharmed
<1>2. /\ \A k \in DOMAIN boots' : \E m \in DOMAIN boots : m # i /\ boots'[k] = boots[m]
      /\ \A m \in DOMAIN boots : m # i => \E k \in DOMAIN boots' : boots'[k] = boots[m]
      /\ \A k, n \in DOMAIN boots' : boots'[k].obj = boots'[n].obj => k = n
    BY <1>0, OthersLeft, Zenon
<1>3. \A k \in DOMAIN boots' : BootThread(k)'
  <2> SUFFICES ASSUME NEW k \in DOMAIN boots' PROVE BootThread(k)'
      BY Zenon
  <2>1. PICK m \in DOMAIN boots : m # i /\ boots'[k] = boots[m]
      BY <1>2, Zenon
  <2>2. BootThread(m) /\ boots[m].obj \in Objs
      BY Ranges, Zenon DEF Calm, Threads
  <2>3. UNCHANGED <<process_workers, old, next_workers, target>>
      BY <1>0, Zenon DEF loop
  <2>4. child_pid'[boots[m].obj] = child_pid[boots[m].obj]
      BY <1>0, Zenon
  <2> QED
      BY <1>1, <2>1, <2>2, <2>3, <2>4, ThreadKept, Zenon DEF BootThread
<1>4. Threads' /\ Draining' /\ Gone'
  <2>1. Draining' /\ Gone' /\ (Stopped' => boots' = <<>>)
      BY <1>0, BootingEarly, Zenon
  <2> QED
      BY <1>2, <1>3, <2>1, Zenon DEF Threads
<1>5. Reached'
  <2> SUFFICES ASSUME NEW p \in Pids, Unharmed(p)
               PROVE  \/ \E k \in DOMAIN boots' : boots'[k].pid = p
                      \/ \E c \in Known' : c # NoObj /\ child_pid'[c] = p
      BY <1>1, Zenon DEF Reached
  <2>1. Known' = Known
      BY <1>0, Zenon DEF Known, loop
  <2>2. boots[i].pid # p
      BY <1>0, Ranges, Zenon DEF Calm, Threads, BootThread
  <2>3. CASE \E k \in DOMAIN boots : boots[k].pid = p
    <3>1. PICK k \in DOMAIN boots : boots[k].pid = p
        BY <2>3, Zenon
    <3>2. \E m \in DOMAIN boots' : boots'[m] = boots[k]
        BY <1>2, <2>2, <3>1, Zenon
    <3> QED
        BY <3>1, <3>2, Zenon
  <2>4. CASE \E c \in Known : c # NoObj /\ child_pid[c] = p
      BY <1>0, <2>1, <2>4, Zenon
  <2> QED
      BY <2>3, <2>4, Zenon DEF Calm, Reached
<1> QED
    BY <1>4, <1>5, Zenon DEF Calm

\* The last step of boot keeps calm: the worker takes over the pid.
LEMMA StoreCalm ==
    ASSUME ObjTypes, LoopTypes, Calm, [Next]_vars, NEW i \in DOMAIN boots, BootStore(i),
           NEW o, o = boots[i].obj
    PROVE  Calm'
<1>0. /\ UNCHANGED loop /\ proc' = proc /\ boots[i].step = "store" /\ o \in Objs
      /\ boots' = RemoveAt(boots, i) /\ boots \in Seq(BootSetOf(made, forks))
      /\ child_pid' = [child_pid EXCEPT ![o] = boots[i].pid]
      /\ child_pid'[o] = boots[i].pid /\ \A c \in Objs : c # o => child_pid'[c] = child_pid[c]
    BY Ranges, Zenon DEF BootStore, procs, ObjTypes
<1>1. \A p \in Pids : Unharmed(p)' <=> Unharmed(p)
    BY <1>0, Zenon DEF Unharmed
<1>2. \A c \in Objs : c # o => (Holds(c)' => Holds(c))
    BY <1>0, Zenon DEF Holds, Unharmed
<1>3. /\ \A k \in DOMAIN boots' : \E m \in DOMAIN boots : m # i /\ boots'[k] = boots[m]
      /\ \A m \in DOMAIN boots : m # i => \E k \in DOMAIN boots' : boots'[k] = boots[m]
      /\ \A k, n \in DOMAIN boots' : boots'[k].obj = boots'[n].obj => k = n
    BY <1>0, OthersLeft, Zenon
<1>4. \A k \in DOMAIN boots' : BootThread(k)'
  <2> SUFFICES ASSUME NEW k \in DOMAIN boots' PROVE BootThread(k)'
      BY Zenon
  <2>0. PICK m \in DOMAIN boots : m # i /\ boots'[k] = boots[m]
      BY <1>3, Zenon
  <2>1. BootThread(m) /\ boots[m].obj \in Objs /\ boots[m].obj # o
      BY <2>0, Ranges, Zenon DEF Calm, Threads
  <2>2. UNCHANGED <<process_workers, old, next_workers, target>>
      BY <1>0, Zenon DEF loop
  <2>3. child_pid'[boots[m].obj] = child_pid[boots[m].obj]
      BY <1>0, <2>1, Zenon
  <2> QED
      BY <1>2, <2>0, <2>1, <2>2, <2>3, ThreadKept, Zenon DEF BootThread
<1>5. Threads' /\ Draining' /\ Gone'
  <2>1. Draining' /\ Gone' /\ (Stopped' => boots' = <<>>)
      BY <1>0, BootingEarly, Zenon
  <2> QED
      BY <1>3, <1>4, <2>1, Zenon DEF Threads
<1>6. Reached'
  <2> SUFFICES ASSUME NEW p \in Pids, Unharmed(p)
               PROVE  \/ \E k \in DOMAIN boots' : boots'[k].pid = p
                      \/ \E c \in Known' : c # NoObj /\ child_pid'[c] = p
      BY <1>1, Zenon DEF Reached
  <2>1. \/ \E k \in DOMAIN boots : boots[k].pid = p
        \/ \E c \in Known : c # NoObj /\ child_pid[c] = p
      BY Zenon DEF Calm, Reached
  <2>2. BootThread(i)
      BY Zenon DEF Calm, Threads
  <2>3. child_pid[o] # p
      BY <1>0, <2>2, Ranges, Zenon DEF BootThread
  <2>4. Known' = Known /\ o \in Known /\ o # NoObj
    <3>1. o \in process_workers \cup old \cup next_workers
        BY <2>2, Zenon DEF BootThread
    <3> QED
        BY <1>0, <3>1, Ranges, Zenon DEF Known, loop
  <2>5. \A c \in Known : c # NoObj => c \in Objs
      BY KnownObjs, Zenon
  <2>6. CASE boots[i].pid = p
      BY <1>0, <2>4, <2>6, Zenon
  <2>7. CASE boots[i].pid # p
    <3>1. CASE \E k \in DOMAIN boots : boots[k].pid = p
      <4>1. PICK k \in DOMAIN boots : boots[k].pid = p
          BY <3>1, Zenon
      <4>2. \E m \in DOMAIN boots' : boots'[m] = boots[k]
          BY <1>3, <2>7, <4>1, Zenon
      <4> QED
          BY <4>1, <4>2, Zenon
    <3>2. CASE \E c \in Known : c # NoObj /\ child_pid[c] = p
        BY <1>0, <2>3, <2>4, <2>5, <3>2, Zenon
    <3> QED
        BY <2>1, <3>1, <3>2, Zenon
  <2> QED
      BY <2>6, <2>7, Zenon
<1> QED
    BY <1>5, <1>6, Zenon DEF Calm

\* So does every step of a boot thread.
LEMMA BootCalm ==
    ASSUME ObjTypes, LoopTypes, Calm, [Next]_vars, NEW i \in DOMAIN boots, BootStep(i)
    PROVE  Calm'
    BY ReadCalm, ClearCalm, ForkCalm, ForkFailsCalm, StoreCalm, Zenon DEF BootStep

\* What the phases say of a loop that is not busy with its workers.
LEMMA Quiet ==
    ASSUME LoopTypes, Phases
    PROVE  /\ master \notin {"stopping", "reload"} => next_workers = {}
           /\ master \notin {"stopping", "reload", "shutting"} => old = {}
           /\ master # "stopping" => target = NoObj
           /\ master \notin {"shutting", "exited"} => after # "exited"
    BY Zenon DEF LoopTypes, Phases, RELOAD_IN_PROGRESS

\* A stop that races with no boot thread stops workers without one.
LEMMA NoRacing ==
    ASSUME NEW os, Racing(os), raced' = {}
    PROVE  \A o \in os : \A i \in DOMAIN boots : boots[i].obj # o
    BY Zenon DEF Racing, Booting

\* Before shutdown() two of the conditions say nothing.
LEMMA NotStopped == ~Stopped' => Draining' /\ Gone'
    BY Zenon DEF Stopped, Draining, Gone, AtEnd

\* The loop moves its workers around and starts no thread.
LEMMA MoveCalm ==
    ASSUME ObjTypes, LoopTypes, Calm, [Next]_vars, forks' = forks, UNCHANGED <<boots, child_pid>>,
           \A i \in DOMAIN boots : boots[i].obj \in (process_workers \cup old \cup next_workers)',
           \A i \in DOMAIN boots : boots[i].obj # target',
           \A o \in Known : o # NoObj => o \in Known' \/ ~Holds(o)',
           Stopped' => boots = <<>>
    PROVE  Threads' /\ Reached'
<1>0. forks \in Nat /\ 1 .. made \subseteq Objs
    BY Ranges, Zenon
<1>1. \A p \in Pids : Unharmed(p)' => Unharmed(p)
    BY <1>0, Worse, Zenon
<1>2. \A c \in Objs : Holds(c)' => Holds(c)
    BY WorseHeld, Zenon
<1>3. Threads'
  <2>1. \A k \in DOMAIN boots : BootThread(k)'
    <3> SUFFICES ASSUME NEW k \in DOMAIN boots PROVE BootThread(k)'
        BY Zenon
    <3>1. BootThread(k) /\ boots[k].obj \in Objs
        BY <1>0, Ranges, Zenon DEF Calm, Threads
    <3>2. boots'[k] = boots[k] /\ child_pid'[boots[k].obj] = child_pid[boots[k].obj]
        BY Zenon
    <3> QED
        BY <1>2, <3>1, <3>2, ThreadKept, Zenon
  <2> QED
      BY <2>1, Zenon DEF Calm, Threads
<1>4. Reached'
  <2> SUFFICES ASSUME NEW p \in Pids, Unharmed(p)'
               PROVE  \/ \E k \in DOMAIN boots : boots[k].pid = p
                      \/ \E c \in Known' : c # NoObj /\ child_pid[c] = p
      BY Zenon DEF Reached
  <2>1. \/ \E k \in DOMAIN boots : boots[k].pid = p
        \/ \E c \in Known : c # NoObj /\ child_pid[c] = p
      BY <1>1, Zenon DEF Calm, Reached
  <2>2. ASSUME NEW c \in Known, c # NoObj, child_pid[c] = p PROVE Holds(c)'
      BY <2>2, Ranges, Zenon DEF Holds, Unharmed
  <2> QED
      BY <2>1, <2>2, Zenon
<1> QED
    BY <1>3, <1>4, Zenon

\* Where the threads of a longer sequence come from.
LEMMA BootsJoined ==
    ASSUME ObjTypes, NEW T, NEW s \in Seq(T), boots' = boots \o s
    PROVE  /\ \A k \in DOMAIN boots : k \in DOMAIN boots' /\ boots'[k] = boots[k]
           /\ \A k \in DOMAIN boots' : \/ k \in DOMAIN boots /\ boots'[k] = boots[k]
                                       \/ \E j \in DOMAIN s : k = Len(boots) + j /\ boots'[k] = s[j]
<1> DEFINE B == BootSet
           n == Len(boots)
<1>1. boots \in Seq(B)
    BY Zenon DEF ObjTypes
<1> HIDE DEF B
<1>2. /\ n \in Nat /\ Len(s) \in Nat /\ DOMAIN boots = 1 .. n /\ DOMAIN s = 1 .. Len(s)
      /\ DOMAIN boots' = 1 .. n + Len(s)
      /\ \A k \in 1 .. n + Len(s) : boots'[k] = IF k <= n THEN boots[k] ELSE s[k - n]
    BY <1>1
<1> HIDE DEF n
<1>3. \A k \in DOMAIN boots : k \in DOMAIN boots' /\ boots'[k] = boots[k]
    BY <1>2
<1>4. ASSUME NEW k \in DOMAIN boots', k \notin DOMAIN boots
      PROVE  \E j \in DOMAIN s : k = n + j /\ boots'[k] = s[j]
  <2>1. k - n \in DOMAIN s /\ k = n + (k - n) /\ boots'[k] = s[k - n]
      BY <1>2, <1>4
  <2> QED
      BY <2>1, Zenon
<1> QED
    BY <1>3, <1>4, Zenon DEF n

\* The loop also starts threads, for workers that have neither a thread nor a
\* child that could be lost.
LEMMA StartCalm ==
    ASSUME ObjTypes, LoopTypes, Calm, [Next]_vars, forks' = forks, UNCHANGED child_pid,
           NEW T, NEW s \in Seq(T), boots' = boots \o s,
           \A j \in DOMAIN s : /\ s[j].step = "read" /\ s[j].pid = NoPid
                               /\ s[j].obj \in (process_workers \cup old \cup next_workers)'
                               /\ s[j].obj # target' /\ ~Holds(s[j].obj)'
                               /\ \A i \in DOMAIN boots : boots[i].obj # s[j].obj,
           \A j, k \in DOMAIN s : s[j].obj = s[k].obj => j = k,
           \A i \in DOMAIN boots : boots[i].obj \in (process_workers \cup old \cup next_workers)',
           \A i \in DOMAIN boots : boots[i].obj # target',
           \A o \in Known : o # NoObj => o \in Known' \/ ~Holds(o)',
           ~Stopped'
    PROVE  Calm'
<1>0. forks \in Nat /\ 1 .. made \subseteq Objs
    BY Ranges, Zenon
<1>1. \A p \in Pids : Unharmed(p)' => Unharmed(p)
    BY <1>0, Worse, Zenon
<1>2. \A c \in Objs : Holds(c)' => Holds(c)
    BY WorseHeld, Zenon
<1>3. /\ \A k \in DOMAIN boots : k \in DOMAIN boots' /\ boots'[k] = boots[k]
      /\ \A k \in DOMAIN boots' : \/ k \in DOMAIN boots /\ boots'[k] = boots[k]
                                  \/ \E j \in DOMAIN s : k = Len(boots) + j /\ boots'[k] = s[j]
    BY BootsJoined, Zenon
<1>4. \A k \in DOMAIN boots' : BootThread(k)'
  <2> SUFFICES ASSUME NEW k \in DOMAIN boots' PROVE BootThread(k)'
      BY Zenon
  <2>1. CASE k \in DOMAIN boots /\ boots'[k] = boots[k]
    <3>1. BootThread(k) /\ boots[k].obj \in Objs
        BY <1>0, <2>1, Ranges, Zenon DEF Calm, Threads
    <3>2. child_pid'[boots[k].obj] = child_pid[boots[k].obj]
        BY Zenon
    <3> QED
        BY <1>2, <2>1, <3>1, <3>2, ThreadKept, Zenon
  <2>2. CASE \E j \in DOMAIN s : boots'[k] = s[j]
      BY <2>2, Zenon DEF BootThread
  <2> QED
      BY <1>3, <2>1, <2>2, Zenon
<1>5. \A k, m \in DOMAIN boots' : boots'[k].obj = boots'[m].obj => k = m
  <2> SUFFICES ASSUME NEW k \in DOMAIN boots', NEW m \in DOMAIN boots', boots'[k].obj = boots'[m].obj
               PROVE  k = m
      BY Zenon
  <2>1. \/ k \in DOMAIN boots /\ boots'[k] = boots[k]
        \/ \E j \in DOMAIN s : k = Len(boots) + j /\ boots'[k] = s[j]
      BY <1>3, Zenon
  <2>2. \/ m \in DOMAIN boots /\ boots'[m] = boots[m]
        \/ \E j \in DOMAIN s : m = Len(boots) + j /\ boots'[m] = s[j]
      BY <1>3, Zenon
  <2>3. \A a, b \in DOMAIN boots : boots[a].obj = boots[b].obj => a = b
      BY Zenon DEF Calm, Threads
  <2>4. CASE k \in DOMAIN boots /\ boots'[k] = boots[k]
    <3>1. \A j \in DOMAIN s : boots[k].obj # s[j].obj
        BY <2>4, Zenon
    <3> QED
        BY <2>2, <2>3, <2>4, <3>1, Zenon
  <2>5. CASE \E j \in DOMAIN s : k = Len(boots) + j /\ boots'[k] = s[j]
    <3>1. PICK j \in DOMAIN s : k = Len(boots) + j /\ boots'[k] = s[j]
        BY <2>5, Zenon
    <3>2. PICK j2 \in DOMAIN s : m = Len(boots) + j2 /\ boots'[m] = s[j2]
        BY <2>2, <3>1, Zenon
    <3>3. j = j2
        BY <3>1, <3>2, Zenon
    <3> QED
        BY <3>1, <3>2, <3>3, Zenon
  <2> QED
      BY <2>1, <2>4, <2>5, Zenon
<1>6. Reached'
  <2> SUFFICES ASSUME NEW p \in Pids, Unharmed(p)'
               PROVE  \/ \E k \in DOMAIN boots' : boots'[k].pid = p
                      \/ \E c \in Known' : c # NoObj /\ child_pid[c] = p
      BY Zenon DEF Reached
  <2>1. \/ \E k \in DOMAIN boots : boots[k].pid = p
        \/ \E c \in Known : c # NoObj /\ child_pid[c] = p
      BY <1>1, Zenon DEF Calm, Reached
  <2>2. ASSUME NEW c \in Known, c # NoObj, child_pid[c] = p PROVE Holds(c)'
      BY <2>2, Ranges, Zenon DEF Holds, Unharmed
  <2>3. (\E k \in DOMAIN boots : boots[k].pid = p) => \E k \in DOMAIN boots' : boots'[k].pid = p
      BY <1>3, Zenon
  <2> QED
      BY <2>1, <2>2, <2>3, Zenon
<1> QED
    BY <1>4, <1>5, <1>6, NotStopped, Zenon DEF Calm, Threads

\* The step takes the loop from one phase to another and moves no worker.
LEMMA TurnCalm ==
    ASSUME ObjTypes, LoopTypes, Phases, Calm, [Next]_vars,
           \/ RecvLagged \/ Rebooted \/ IncreaseWorkers \/ ForceShutdown \/ ChildTerminated
           \/ ReloadExec
    PROVE  Calm'
<1>1. /\ UNCHANGED <<process_workers, target, after, old, next_workers, boots, child_pid, forks>>
      /\ \/ master \in {"select", "booting"} /\ master' \notin {"shutting", "exec", "reexec"}
         \/ master = "exec" /\ master' \in {"reexec", "select"} /\ proc' = proc
    BY Zenon DEF RecvLagged, Rebooted, IncreaseWorkers, ForceShutdown, ChildTerminated,
       ReloadExec, Recv, objs, procs
<1>2. after # "exited" /\ (Stopped' => boots = <<>>)
    BY <1>1, Quiet, Zenon DEF Calm, Threads, Stopped
<1>3. \A i \in DOMAIN boots : boots[i].obj \in process_workers \cup old \cup next_workers /\ boots[i].obj # target
    BY Zenon DEF Calm, Threads, BootThread
<1>4. Threads' /\ Reached'
    BY <1>1, <1>2, <1>3, MoveCalm, Zenon DEF Known
<1>5. Draining' /\ Gone'
  <2>1. CASE master = "exec"
      BY <1>1, <1>2, <2>1, Zenon DEF Calm, Draining, Gone, AtEnd, Unharmed
  <2>2. CASE master # "exec"
      BY <1>1, <1>2, <2>2, NotStopped, Zenon DEF Stopped
  <2> QED
      BY <2>1, <2>2, Zenon
<1> QED
    BY <1>4, <1>5, Zenon DEF Calm

\* shutdown() begins.
LEMMA ShuttingCalm ==
    ASSUME ObjTypes, LoopTypes, Phases, Calm, [Next]_vars, raced' = {}, master = "select", NEW then,
           BeginShutdown(then), UNCHANGED <<process_workers, next_workers, target, boots, child_pid, forks>>
    PROVE  Calm'
<1>1. /\ old = {} /\ next_workers = {} /\ old' = process_workers /\ master' = "shutting"
      /\ Racing(process_workers)
    BY Quiet, Zenon DEF BeginShutdown
<1>2. \A i \in DOMAIN boots : boots[i].obj \in process_workers /\ boots[i].obj # target
    BY <1>1, Zenon DEF Calm, Threads, BootThread
<1>3. boots = <<>>
  <2>1. DOMAIN boots = {}
      BY <1>1, <1>2, NoRacing, Zenon
  <2>2. boots \in Seq(BootSet)
      BY Zenon DEF ObjTypes
  <2> QED
      BY <2>1, <2>2
<1>4. Threads' /\ Reached'
    BY <1>1, <1>2, <1>3, MoveCalm, Zenon DEF Known
<1>5. Draining' /\ Gone'
    BY <1>1, Zenon DEF Draining, Gone, AtEnd
<1> QED
    BY <1>4, <1>5, Zenon DEF Calm

\* Every event the loop handles keeps calm.
LEMMA HandleCalm ==
    ASSUME ObjTypes, LoopTypes, Phases, Calm, [Next]_vars, raced' = {}, Handle
    PROVE  Calm'
<1>0. /\ master = "select" /\ old = {} /\ next_workers = {} /\ target = NoObj /\ after # "exited"
      /\ UNCHANGED <<boots, child_pid, forks>>
      /\ \A i \in DOMAIN boots : boots[i].obj \in process_workers
  <2>1. master = "select" /\ UNCHANGED <<boots, child_pid, forks>>
      BY Zenon DEF Handle, Shutdown, Restart, Reload, IncreaseWorkers, DecreaseWorkers,
         ForceShutdown,
                   ChildTerminated, PrintInfo, Recv, objs, procs
  <2>2. old = {} /\ next_workers = {} /\ target = NoObj /\ after # "exited"
      BY <2>1, Quiet, Zenon
  <2> QED
      BY <2>1, <2>2, Zenon DEF Calm, Threads, BootThread
<1>1. CASE IncreaseWorkers \/ ForceShutdown \/ ChildTerminated
    BY <1>1, TurnCalm, Zenon
<1>2. CASE UNCHANGED loop
    BY <1>0, <1>2, IdleCalm, Zenon
<1>3. CASE Shutdown
    BY <1>0, <1>3, ShuttingCalm, Zenon DEF Shutdown
<1>4. CASE Restart
  <2>1. UNCHANGED loop \/ (BeginShutdown(RestartThen) /\ UNCHANGED <<process_workers, next_workers, target>>)
      BY <1>4, Zenon DEF Restart
  <2> QED
      BY <1>0, <1>2, <2>1, ShuttingCalm, Zenon
<1>5. CASE Reload
  <2>1. \/ UNCHANGED loop
        \/ BeginShutdown(RestartThen) /\ UNCHANGED <<process_workers, next_workers, target>>
        \/ UNCHANGED <<proc, old, master, after, raced, process_workers, next_workers, target>>
        \/ /\ master' = "reload" /\ old' = process_workers /\ process_workers' = {} /\ next_workers' = {}
           /\ UNCHANGED <<target, after>>
      BY <1>5, Zenon DEF Reload
  <2>2. CASE UNCHANGED <<proc, old, master, after, raced, process_workers, next_workers, target>>
    <3>1. ~Stopped'
        BY <1>0, <2>2, Zenon DEF Stopped
    <3>2. Threads' /\ Reached'
        BY <1>0, <2>2, <3>1, MoveCalm, Zenon DEF Known, Calm, Threads, BootThread
    <3> QED
        BY <3>1, <3>2, NotStopped, Zenon DEF Calm
  <2>3. CASE /\ master' = "reload" /\ old' = process_workers /\ process_workers' = {} /\ next_workers' = {}
             /\ UNCHANGED <<target, after>>
    <3>1. ~Stopped'
        BY <1>0, <2>3, Zenon DEF Stopped
    <3>2. (\A o \in Known : o \in Known') /\ \A i \in DOMAIN boots : boots[i].obj # target'
        BY <1>0, <2>3, Zenon DEF Known, Calm, Threads, BootThread
    <3>3. Threads' /\ Reached'
        BY <1>0, <2>3, <3>1, <3>2, MoveCalm, Zenon
    <3> QED
        BY <3>1, <3>3, NotStopped, Zenon DEF Calm
  <2> QED
      BY <1>0, <1>2, <2>1, <2>2, <2>3, ShuttingCalm, Zenon
<1>6. CASE DecreaseWorkers
  <2>1. CASE process_workers = {}
    <3>1. UNCHANGED <<master, after, process_workers, old, next_workers, target>>
        BY <1>6, <2>1, Zenon DEF DecreaseWorkers
    <3>2. ~Stopped'
        BY <1>0, <3>1, Zenon DEF Stopped
    <3>3. Threads' /\ Reached'
        BY <1>0, <3>1, <3>2, MoveCalm, Zenon DEF Known, Calm, Threads, BootThread
    <3> QED
        BY <3>2, <3>3, NotStopped, Zenon DEF Calm
  <2>2. CASE process_workers # {}
    <3> DEFINE m == Max(process_workers)
    <3>1. /\ process_workers' = process_workers \ {m} /\ target' = m /\ master' = "stopping" /\ after' = "select"
          /\ Racing({m}) /\ UNCHANGED <<old, next_workers>>
        BY <1>6, <2>2, Zenon DEF DecreaseWorkers, BeginStop
    <3> HIDE DEF m
    <3>2. ~Stopped'
        BY <3>1, Zenon DEF Stopped
    <3>3. \A i \in DOMAIN boots : boots[i].obj # m
        BY <3>1, NoRacing, Zenon
    <3>4. \A o \in Known : o # NoObj => o \in Known'
        BY <1>0, <3>1, Zenon DEF Known
    <3>5. Threads' /\ Reached'
        BY <1>0, <3>1, <3>2, <3>3, <3>4, MoveCalm, Zenon
    <3> QED
        BY <3>2, <3>5, NotStopped, Zenon DEF Calm
  <2> QED
      BY <2>1, <2>2, Zenon
<1>7. CASE PrintInfo
    BY <1>2, <1>7, Zenon DEF PrintInfo
<1> QED
    BY <1>1, <1>3, <1>4, <1>5, <1>6, <1>7, Zenon DEF Handle

\* The end of shutdown() keeps calm: no child is left that was not killed.
LEMMA DrainCalm ==
    ASSUME ObjTypes, LoopTypes, Phases, Calm, [Next]_vars, MonitorPoll \/ ShutdownTimeout
    PROVE  Calm'
<1>0. /\ master = "shutting" /\ boots = <<>> /\ next_workers = {} /\ target = NoObj
      /\ old \subseteq process_workers /\ old' \subseteq old
      /\ UNCHANGED <<process_workers, next_workers, target, after, boots, child_pid, forks>>
      /\ master' \in {after, "shutting"}
  <2>1. /\ master = "shutting" /\ old' \subseteq old /\ master' \in {after, "shutting"}
        /\ UNCHANGED <<process_workers, next_workers, target, after, boots, child_pid, forks>>
      BY Zenon DEF MonitorPoll, ShutdownTimeout, objs, procs
  <2> QED
      BY <2>1, Quiet, Zenon DEF Calm, Threads, Stopped, Phases
<1>1. forks \in Nat /\ process_workers \subseteq Objs /\ (\A o \in Objs : child_pid[o] # NoPid => child_pid[o] \in Pids)
    BY Ranges, Zenon
<1>2. \A o \in Objs : is_alive(o)' => is_alive(o)
    BY <1>0, WorseHeld, Zenon
<1>3. \A p \in Pids : (Unharmed(p)' => Unharmed(p))
    BY <1>0, <1>1, Worse, Zenon
<1>4. DOMAIN boots = {}
    BY <1>0
<1>5. Threads' /\ Reached'
  <2>1. \A o \in Known : o # NoObj => o \in Known'
      BY <1>0, Zenon DEF Known
  <2> QED
      BY <1>0, <1>4, <2>1, MoveCalm, Zenon
<1>6. Draining'
  <2>1. CASE MonitorPoll
    <3>1. old' = {o \in old : is_alive(o)}
        BY <2>1, Zenon DEF MonitorPoll
    <3>2. \A o \in process_workers \ old' : ~is_alive(o)
        BY <1>0, <3>1, Zenon DEF Calm, Draining
    <3> QED
        BY <1>0, <1>1, <1>2, <3>2, Zenon DEF Draining
  <2>2. CASE ShutdownTimeout
    <3>1. master' = after /\ after # "shutting"
        BY <1>0, <2>2, Zenon DEF ShutdownTimeout, Phases
    <3> QED
        BY <1>0, <3>1, Zenon DEF Draining
  <2> QED
      BY <2>1, <2>2, Zenon
<1>7. Gone'
  <2> SUFFICES ASSUME AtEnd', NEW p \in Pids, Unharmed(p)' PROVE FALSE
      BY Zenon DEF Gone
  <2>1. Unharmed(p) /\ p # NoPid
      BY <1>3, Ranges, Zenon
  <2>2. PICK o \in process_workers : child_pid[o] = p
    <3>1. \E c \in Known : c # NoObj /\ child_pid[c] = p
        BY <1>4, <2>1, Zenon DEF Calm, Reached
    <3> QED
        BY <1>0, <3>1, Zenon DEF Known
  <2>3. is_alive(o)
      BY <2>1, <2>2, Zenon DEF is_alive, Unharmed, Live
  <2>4. o \in old
      BY <1>0, <2>3, Zenon DEF Calm, Draining
  <2>5. CASE MonitorPoll
    <3>1. old' = {}
        BY <1>0, <2>5, Zenon DEF MonitorPoll, AtEnd
    <3> QED
        BY <2>3, <2>4, <2>5, <3>1, Zenon DEF MonitorPoll
  <2>6. CASE ShutdownTimeout
    <3>1. proc' = force_kill(process_workers)
        BY <2>6, Zenon DEF ShutdownTimeout
    <3>2. proc'[p] = "killed"
        BY <2>2, <2>3, <3>1, Kills, Zenon
    <3> QED
        BY <3>2, Zenon DEF Unharmed
  <2> QED
      BY <2>5, <2>6, Zenon
<1> QED
    BY <1>5, <1>6, <1>7, Zenon DEF Calm

\* A stop that ends, with SIGKILL if need be, leaves the worker no child that
\* could be lost.
LEMMA StoppedHolds ==
    ASSUME ObjTypes, LoopTypes, StopPoll \/ StopTimeout, NEW o, o = target
    PROVE  ~Holds(o)' /\ o \in Objs /\ child_pid' = child_pid
<1>0. o \in Objs /\ child_pid' = child_pid /\ (child_pid[o] # NoPid => child_pid[o] \in Pids)
  <2>1. o \in Objs
      BY KnownObjs, Zenon DEF StopPoll, StopTimeout
  <2> QED
      BY <2>1, Ranges, Zenon DEF StopPoll, StopTimeout, objs
<1>1. CASE StopPoll
    BY <1>0, <1>1, Zenon DEF StopPoll, Continue, is_alive, Holds, Unharmed, Live
<1>2. CASE StopTimeout
  <2>1. is_alive(o) /\ proc' = force_kill({o})
      BY <1>2, Zenon DEF StopTimeout, Continue
  <2>2. child_pid[o] \in Pids
      BY <1>0, <2>1, Zenon DEF is_alive
  <2>3. proc'[child_pid[o]] = "killed"
      BY <2>1, <2>2, Kills, Zenon
  <2> QED
      BY <1>0, <2>3, Zenon DEF Holds, Unharmed
<1> QED
    BY <1>0, <1>1, <1>2, Zenon

\* One new thread.
LEMMA OneBoot ==
    ASSUME NEW r
    PROVE  \E s \in Seq({r}) : (\A t : Append(t, r) = t \o s) /\ \A j \in DOMAIN s : j = 1 /\ s[j] = r
<1>1. <<r>> \in Seq({r}) /\ (\A t : Append(t, r) = t \o <<r>>) /\ \A j \in DOMAIN <<r>> : j = 1 /\ <<r>>[j] = r
    OBVIOUS
<1> QED
    BY <1>1, Zenon

\* The end of a stop keeps calm, and so does the boot that may follow it.
LEMMA StopCalm ==
    ASSUME ObjTypes, LoopTypes, Phases, Calm, [Next]_vars, StopPoll \/ StopTimeout, NEW o, o = target
    PROVE  Calm'
<1>0. /\ ~Holds(o)' /\ o \in Objs
      /\ UNCHANGED <<process_workers, next_workers, old, after, child_pid, forks>>
      /\ master = "stopping" /\ target' = NoObj /\ after \in {"select", "reload", "reboot"}
      /\ \/ after = "reboot" /\ master' = "booting" /\ boots' = Append(boots, Boot(o, TRUE))
         \/ after # "reboot" /\ master' = after /\ boots' = boots
  <2>1. ~Holds(o)' /\ o \in Objs /\ child_pid' = child_pid
      BY StoppedHolds, Zenon
  <2> QED
      BY <2>1, Zenon DEF StopPoll, StopTimeout, Continue, Phases
<1>1. ~Stopped'
    BY <1>0, Zenon DEF Stopped
<1>2. \A i \in DOMAIN boots : /\ boots[i].obj \in process_workers \cup old \cup next_workers
                              /\ boots[i].obj # o /\ boots[i].obj # target'
  <2>1. \A i \in DOMAIN boots : boots[i].obj \in Objs /\ NoObj \notin Objs
      BY Ranges, Zenon
  <2> QED
      BY <1>0, <2>1, Zenon DEF Calm, Threads, BootThread
<1>3. \A c \in Known : c # NoObj => c \in Known' \/ ~Holds(c)'
    BY <1>0, Zenon DEF Known
<1>4. CASE after # "reboot"
  <2>1. Threads' /\ Reached'
      BY <1>0, <1>1, <1>2, <1>3, <1>4, MoveCalm, Zenon
  <2> QED
      BY <1>1, <2>1, NotStopped, Zenon DEF Calm
<1>5. CASE after = "reboot"
  <2>1. o \in process_workers' /\ o # target'
      BY <1>0, <1>5, Ranges, Zenon DEF Phases
  <2> DEFINE r == Boot(o, TRUE)
  <2>2. PICK s \in Seq({r}) :
             /\ boots' = boots \o s
             /\ \A j \in DOMAIN s : j = 1 /\ s[j].obj = o /\ s[j].step = "read" /\ s[j].pid = NoPid
    <3>1. boots' = Append(boots, r)
        BY <1>0, <1>5, Zenon
    <3>2. r.obj = o /\ r.step = "read" /\ r.pid = NoPid
        BY DEF Boot
    <3> HIDE DEF r
    <3> QED
        BY <3>1, <3>2, OneBoot, Zenon
  <2> HIDE DEF r
  <2> QED
      BY <1>0, <1>1, <1>2, <1>3, <2>1, <2>2, StartCalm, Zenon
<1> QED
    BY <1>4, <1>5, Zenon

\* A phased restart keeps calm.
LEMMA ReloadCalm ==
    ASSUME ObjTypes, LoopTypes, Phases, Calm, [Next]_vars, raced' = {}, ReloadBoot \/ ReloadStopRest \/ ReloadDone
    PROVE  Calm'
<1>0. /\ master = "reload" /\ target = NoObj /\ after # "exited" /\ NoObj \notin Objs
      /\ UNCHANGED <<child_pid, forks>>
      /\ \A i \in DOMAIN boots : /\ boots[i].obj \in process_workers \cup old \cup next_workers
                                 /\ boots[i].obj \in Objs /\ boots[i].obj \in 1 .. made
  <2>1. master = "reload" /\ UNCHANGED <<child_pid, forks>>
      BY Zenon DEF ReloadBoot, ReloadStopRest, ReloadDone, objs, procs
  <2>2. \A i \in DOMAIN boots : boots[i].obj \in process_workers \cup old \cup next_workers
      BY Zenon DEF Calm, Threads, BootThread
  <2>3. NoObj \notin Objs /\ \A i \in DOMAIN boots : boots[i].obj \in Objs /\ boots[i].obj \in 1 .. made
      BY Ranges, Zenon
  <2> QED
      BY <2>1, <2>2, <2>3, Quiet, Zenon
<1>1. CASE ReloadDone
  <2>1. /\ process_workers' = process_workers \cup next_workers /\ next_workers' = {} /\ master' = "select"
        /\ UNCHANGED <<old, target, after, boots>>
      BY <1>1, Zenon DEF ReloadDone, ReloadKeeps
  <2>2. ~Stopped'
      BY <1>0, <2>1, Zenon DEF Stopped
  <2>3. (\A c \in Known : c \in Known')
        /\ \A i \in DOMAIN boots : boots[i].obj \in (process_workers \cup old \cup next_workers)' /\ boots[i].obj # target'
      BY <1>0, <2>1, Zenon DEF Known
  <2>4. Threads' /\ Reached'
      BY <1>0, <2>1, <2>2, <2>3, MoveCalm, Zenon
  <2> QED
      BY <2>2, <2>4, NotStopped, Zenon DEF Calm
<1>2. CASE ReloadStopRest
  <2> DEFINE m == Min(old)
  <2>1. /\ old' = old \ {m} /\ target' = m /\ master' = "stopping" /\ after' = "reload"
        /\ Racing({m}) /\ UNCHANGED <<process_workers, next_workers, boots>>
      BY <1>2, Zenon DEF ReloadStopRest, BeginStop
  <2> HIDE DEF m
  <2>2. ~Stopped'
      BY <2>1, Zenon DEF Stopped
  <2>3. \A i \in DOMAIN boots : boots[i].obj # m
      BY <2>1, NoRacing, Zenon
  <2>4. (\A c \in Known : c # NoObj => c \in Known')
        /\ \A i \in DOMAIN boots : boots[i].obj \in (process_workers \cup old \cup next_workers)'
      BY <1>0, <2>1, <2>3, Zenon DEF Known
  <2>5. Threads' /\ Reached'
      BY <1>0, <2>1, <2>2, <2>3, <2>4, MoveCalm, Zenon
  <2> QED
      BY <2>2, <2>5, NotStopped, Zenon DEF Calm
<1>3. CASE ReloadBoot
  <2>1. PICK n : n = made + 1
      BY Zenon
  <2>2. /\ next_workers' = next_workers \cup {n} /\ boots' = Append(boots, Boot(n, FALSE))
        /\ made' = n /\ made < MaxObjs /\ process_workers' = process_workers
      BY <1>3, <2>1, Zenon DEF ReloadBoot
  <2>3. n \in Objs /\ n \notin 1 .. made /\ n > made /\ child_pid[n] = NoPid
    <3>1. n \in Objs /\ n \notin 1 .. made /\ n > made
        BY <2>1, <2>2, Ranges DEF Objs
    <3> QED
        BY <3>1, Zenon DEF Phases
  <2>4. \/ old = {} /\ UNCHANGED <<old, master, target, after>>
        \/ \E m \in old : /\ old' = old \ {m} /\ target' = m /\ master' = "stopping" /\ after' = "reload"
                          /\ Racing({m})
    <3>1. old # {} => Max(old) \in old
        BY Picked, Zenon
    <3> QED
        BY <1>3, <3>1, Zenon DEF ReloadBoot, BeginStop
  <2>5. ~Stopped'
      BY <1>0, <2>4, Zenon DEF Stopped
  <2>6. /\ \A i \in DOMAIN boots : boots[i].obj # target'
        /\ n # target'
        /\ \A i \in DOMAIN boots : boots[i].obj \in (process_workers \cup old \cup next_workers)'
        /\ \A c \in Known : c # NoObj => c \in Known'
    <3>1. CASE old = {} /\ UNCHANGED <<old, master, target, after>>
        BY <1>0, <2>2, <2>3, <3>1, Zenon DEF Known
    <3>2. CASE \E m \in old : old' = old \ {m} /\ target' = m /\ Racing({m})
      <4>1. PICK m \in old : old' = old \ {m} /\ target' = m /\ Racing({m})
          BY <3>2, Zenon
      <4>2. \A i \in DOMAIN boots : boots[i].obj # m
          BY <4>1, NoRacing, Zenon
      <4>3. m \in 1 .. made
          BY <4>1, Zenon DEF LoopTypes
      <4> QED
          BY <1>0, <2>2, <2>3, <4>1, <4>2, <4>3, Zenon DEF Known
    <3> QED
        BY <2>4, <3>1, <3>2, Zenon
  <2> DEFINE r == Boot(n, FALSE)
  <2>7. PICK s \in Seq({r}) :
             /\ boots' = boots \o s
             /\ \A j \in DOMAIN s : j = 1 /\ s[j].obj = n /\ s[j].step = "read" /\ s[j].pid = NoPid
    <3>1. boots' = Append(boots, r)
        BY <2>2, Zenon
    <3>2. r.obj = n /\ r.step = "read" /\ r.pid = NoPid
        BY DEF Boot
    <3> HIDE DEF r
    <3> QED
        BY <3>1, <3>2, OneBoot, Zenon
  <2> HIDE DEF r
  <2>8. ~Holds(n)' /\ (\A i \in DOMAIN boots : boots[i].obj # n)
        /\ n \in (process_workers \cup old \cup next_workers)'
      BY <1>0, <2>2, <2>3, Zenon DEF Holds
  <2> QED
      BY <1>0, <2>5, <2>6, <2>7, <2>8, StartCalm, Zenon
<1> QED
    BY <1>1, <1>2, <1>3, Zenon

\* The loop looks after dead workers.
LEMMA ReviveCalm ==
    ASSUME ObjTypes, LoopTypes, Phases, Calm, [Next]_vars, raced' = {}, ChildChanged
    PROVE  Calm'
<1>1. PICK D, dead, s :
         /\ D = {o \in process_workers' : Dead(o)} /\ dead = SetToSeq(D)
         /\ s = [i \in DOMAIN dead |-> Boot(dead[i], FALSE)]
    BY Zenon
<1>2. /\ master = "select" /\ boots' = boots \o s /\ UNCHANGED <<master, target, after, old, next_workers>>
      /\ UNCHANGED <<child_pid, proc, forks, made>>
      /\ process_workers' = {o \in process_workers : ~CrashLoop(o)}
      /\ Racing({o \in process_workers : Dead(o)})
    BY <1>1, Zenon DEF ChildChanged, objs, procs
<1>3. target = NoObj /\ after # "exited" /\ ~Stopped' /\ process_workers \subseteq Objs /\ NoObj \notin Objs
      /\ made \in Nat
    BY <1>2, Quiet, Ranges, Zenon DEF Stopped
<1>4. \A i \in DOMAIN boots : \A o \in process_workers : Dead(o) => boots[i].obj # o
    BY <1>2, NoRacing, Zenon
<1>5. \A o : ~Dead(o) \/ (~Holds(o) /\ ~Holds(o)')
    BY <1>2, Zenon DEF Dead, Holds, is_alive, Unharmed, Live
<1>6. /\ \A i \in DOMAIN boots : boots[i].obj \in (process_workers \cup old \cup next_workers)' /\ boots[i].obj # target'
      /\ \A c \in Known : c # NoObj => c \in Known' \/ ~Holds(c)'
  <2>1. \A i \in DOMAIN boots : boots[i].obj \in process_workers \cup old \cup next_workers /\ boots[i].obj # target
      BY Zenon DEF Calm, Threads, BootThread
  <2>2. \A o \in process_workers : o \in process_workers' \/ Dead(o)
      BY <1>2, Zenon DEF CrashLoop
  <2> QED
      BY <1>2, <1>3, <1>4, <1>5, <2>1, <2>2, Zenon DEF Known
<1>7. D \subseteq process_workers' /\ D \subseteq process_workers /\ IsFiniteSet(D)
  <2>1. D \subseteq process_workers' /\ D \subseteq process_workers
      BY <1>1, <1>2, Zenon
  <2>2. IsFiniteSet(1 .. made)
      BY <1>3, FS_Interval
  <2>3. D \in SUBSET (1 .. made)
      BY <2>1, Zenon DEF LoopTypes
  <2> QED
      BY <2>1, <2>2, <2>3, FS_Subset, Zenon
<1>8. dead \in Seq(D) /\ \A i, k \in DOMAIN dead : dead[i] = dead[k] => i = k
    BY <1>1, <1>7, Listed, Zenon
<1>9. /\ DOMAIN s = DOMAIN dead /\ (\A i \in DOMAIN dead : dead[i] \in D)
      /\ \A i \in DOMAIN dead : s[i].obj = dead[i] /\ s[i].step = "read" /\ s[i].pid = NoPid
  <2>1. \A o : Boot(o, FALSE).obj = o /\ Boot(o, FALSE).step = "read" /\ Boot(o, FALSE).pid = NoPid
      BY DEF Boot
  <2>2. \A i \in DOMAIN dead : dead[i] \in D
      BY <1>8
  <2> QED
      BY <1>1, <2>1, <2>2, Zenon
<1>10. \E T : s \in Seq(T)
  <2> DEFINE T == {Boot(o, FALSE) : o \in D}
  <2>1. Len(dead) \in Nat /\ DOMAIN dead = 1 .. Len(dead)
      BY <1>8
  <2>2. s \in [1 .. Len(dead) -> T]
      BY <1>1, <1>9, <2>1, Zenon
  <2> HIDE DEF T
  <2>3. s \in Seq(T)
      BY <2>1, <2>2
  <2> QED
      BY <2>3, Zenon
<1>11. \A j \in DOMAIN s : /\ s[j].step = "read" /\ s[j].pid = NoPid
                           /\ s[j].obj \in (process_workers \cup old \cup next_workers)'
                           /\ s[j].obj # target' /\ ~Holds(s[j].obj)'
                           /\ \A i \in DOMAIN boots : boots[i].obj # s[j].obj
  <2> SUFFICES ASSUME NEW j \in DOMAIN s, NEW o \in D, s[j].obj = o, s[j].step = "read" /\ s[j].pid = NoPid
               PROVE  /\ o \in (process_workers \cup old \cup next_workers)'
                      /\ o # target' /\ ~Holds(o)' /\ \A i \in DOMAIN boots : boots[i].obj # o
      BY <1>9, Zenon
  <2>1. Dead(o) /\ o \in process_workers /\ o \in process_workers'
      BY <1>1, <1>7, Zenon
  <2> QED
      BY <1>2, <1>3, <1>4, <1>5, <2>1, Zenon
<1>12. \A j, k \in DOMAIN s : s[j].obj = s[k].obj => j = k
    BY <1>8, <1>9, Zenon
<1>13. forks' = forks /\ UNCHANGED child_pid /\ boots' = boots \o s
    BY <1>2, Zenon
<1> QED
    BY <1>3, <1>6, <1>10, <1>11, <1>12, <1>13, StartCalm, Zenon

\* Every step of the system keeps calm unless it races.
LEMMA CalmStep ==
    ASSUME ObjTypes, LoopTypes, Phases, Calm, [Next]_vars, raced' = {}
    PROVE  Calm'
<1>1. CASE \/ \E p \in Pids : ChildExits(p)
           \/ OperatorSignals \/ ChildSignal
           \/ \E o \in Objs : Settle(o)
           \/ Stays
  <2>1. forks' = forks /\ UNCHANGED <<loop, boots, child_pid>>
      BY <1>1, Zenon DEF ChildExits, OperatorSignals, ChildSignal, Settle, Stays, objs, procs
  <2> QED
      BY <2>1, IdleCalm, Zenon
<1>2. CASE \E i \in DOMAIN boots : BootStep(i)
    BY <1>2, BootCalm, Zenon
<1>3. CASE MemoryCheck
  <2>1. PICK o \in process_workers :
             /\ target' = o /\ master' = "stopping" /\ after' = "reboot" /\ Racing({o}) /\ master = "select"
             /\ UNCHANGED <<process_workers, old, next_workers, boots, child_pid, forks>>
      BY <1>3, Zenon DEF MemoryCheck, BeginStop, objs
  <2>2. ~Stopped' /\ target = NoObj
      BY <2>1, Quiet, Zenon DEF Stopped
  <2>3. \A i \in DOMAIN boots : boots[i].obj # o /\ boots[i].obj \in process_workers \cup old \cup next_workers
      BY <2>1, NoRacing, Zenon DEF Calm, Threads, BootThread
  <2>4. \A c \in Known : c # NoObj => c \in Known'
      BY <2>1, <2>2, Zenon DEF Known
  <2>5. Threads' /\ Reached'
      BY <2>1, <2>2, <2>3, <2>4, MoveCalm, Zenon
  <2> QED
      BY <2>2, <2>5, NotStopped, Zenon DEF Calm
<1>4. CASE ChildChanged \/ RecvLagged \/ Handle
    BY <1>4, ReviveCalm, TurnCalm, HandleCalm, Zenon
<1>5. CASE Progress
    BY <1>5, StopCalm, TurnCalm, DrainCalm, ReloadCalm, Zenon DEF Progress
<1> QED
    BY <1>1, <1>2, <1>3, <1>4, <1>5, NextSteps, Zenon DEF MasterStep

\* The inductive invariant.
RaceInv == TypeOK /\ Phases /\ (raced = {} => Calm)

\* It holds at the start and is kept by every step.
LEMMA RaceInvHolds == Spec => []RaceInv
<1>1. Init => RaceInv
  <2> SUFFICES ASSUME Init PROVE Calm
      BY TypeInit, PhasesInit, Zenon DEF RaceInv
  <2>0. Initial \in Nat /\ DOMAIN boots = {}
      BY ClusterAssumption DEF Init
  <2>1. Threads /\ Draining /\ Gone
      BY <2>0, Zenon DEF Init, Threads, Draining, Gone, AtEnd, Stopped
  <2>2. Reached
    <3> SUFFICES ASSUME NEW p \in Pids, Unharmed(p) PROVE \E o \in Known : o # NoObj /\ child_pid[o] = p
        BY Zenon DEF Reached
    <3>1. p \in 1 .. Initial /\ p \in Objs
      <4>1. p <= Initial
          BY DEF Init, Unharmed
      <4> QED
          BY <2>0, <4>1, ClusterAssumption DEF Pids, Objs
    <3>2. p # NoObj /\ p <= Initial
        BY <2>0, <3>1 DEF NoObj
    <3> QED
        BY <3>1, <3>2, Zenon DEF Init, Known
  <2> QED
      BY <2>1, <2>2, Zenon DEF Calm
<1>2. RaceInv /\ [Next]_vars => RaceInv'
  <2> SUFFICES ASSUME TypeOK, Phases, raced = {} => Calm, [Next]_vars PROVE RaceInv'
      BY Zenon DEF RaceInv
  <2>1. TypeOK' /\ Phases'
      BY TypeStep, PhasesStep, Zenon
  <2>2. ASSUME raced' = {} PROVE Calm'
    <3>1. raced = {}
        BY <2>2, RacedGrows, Zenon
    <3> QED
        BY <2>2, <3>1, TypeParts, CalmStep, Zenon
  <2> QED
      BY <2>1, <2>2, Zenon DEF RaceInv
<1> QED
    BY <1>1, <1>2, PTL DEF Spec

\* No child process is lost: NoLostChild holds for any number of workers,
\* signals, crashes and reloads.
THEOREM NoLostChildCorrect == Spec => []NoLostChild
<1>1. RaceInv => NoLostChild
    BY TypeParts, CalmMeans, Zenon DEF RaceInv, Calm
<1> QED
    BY <1>1, RaceInvHolds, PTL

\* When shutdown() is over no child runs on: GoneAtExit.
THEOREM GoneAtExitCorrect == Spec => []GoneAtExit
<1>1. RaceInv => GoneAtExit
    BY TypeParts, CalmMeans, Zenon DEF RaceInv, Calm
<1> QED
    BY <1>1, RaceInvHolds, PTL

\* The loop ends normally only on request or on an overflow of its channel:
\* ExitOnRequest.
THEOREM ExitOnRequestCorrect == Spec => []ExitOnRequest
<1>1. Init => ReqInv
  <2> SUFFICES ASSUME Init PROVE ReqInv
      OBVIOUS
  <2>1. DOMAIN queue = {}
      BY DEF Init
  <2> QED
      BY <2>1, Zenon DEF Init, ReqInv, Asked, ExitOnRequest
<1>2. TypeOK /\ Phases /\ ReqInv /\ [Next]_vars => ReqInv'
    BY ReqStep
<1>3. ReqInv => ExitOnRequest
    BY Zenon DEF ReqInv
<1>4. Spec => [](TypeOK /\ Phases)
    BY TypeOKCorrect
<1> QED
    BY <1>1, <1>2, <1>3, <1>4, PTL DEF Spec

\* A forced end comes from a ForceShutdown event.
LEMMA ForcedStep ==
    ASSUME [Next]_vars, LoopTypes, Phases PROVE master' = "forced" => master = "forced" \/ ForceShutdown
<1>1. CASE \/ \E p \in Pids : ChildExits(p)
           \/ OperatorSignals \/ ChildSignal
           \/ \E i \in DOMAIN boots : BootStep(i)
           \/ \E o \in Objs : Settle(o)
           \/ ChildChanged \/ MemoryCheck \/ RecvLagged \/ Stays
    BY <1>1, Zenon DEF ChildExits, OperatorSignals, ChildSignal, Settle, ChildChanged,
       MemoryCheck, RecvLagged,
                       BootStep, BootRead, BootClear, BootFork, BootForkFails, BootStore, BeginStop, Stays, loop
<1>2. CASE Handle
    BY <1>2, Zenon DEF Handle, Restart, Reload, IncreaseWorkers, DecreaseWorkers, Shutdown,
                       ChildTerminated, PrintInfo, BeginStop, BeginShutdown, loop
<1>3. CASE StopPoll \/ StopTimeout
    BY <1>3, Zenon DEF StopPoll, StopTimeout, Continue, Phases
<1>4. CASE MonitorPoll \/ ShutdownTimeout
    BY <1>4, Zenon DEF MonitorPoll, ShutdownTimeout, Phases
<1>5. CASE Rebooted \/ ReloadExec \/ ReloadBoot \/ ReloadStopRest \/ ReloadDone
    BY <1>5, Zenon DEF Rebooted, ReloadExec, ReloadBoot, ReloadStopRest, ReloadDone, BeginStop
<1> QED
    BY <1>1, <1>2, <1>3, <1>4, <1>5, NextSteps, Zenon DEF MasterStep, Progress

\* What the count is, and what it asked for.
CountInv == SIGINT_COUNT = Wrap8(ints - others) /\ ForceOnlyWrapped

\* i8 arithmetic is integer arithmetic seen through Wrap8.
LEMMA WrapMoves ==
    \A n \in Int : Wrap8(Wrap8(n) - 1) = Wrap8(n - 1) /\ Wrap8(Wrap8(Wrap8(n) - 1) + 2) = Wrap8(n + 1)
    BY DEF Wrap8

\* After the first SIGINT the count is 2 or more only if it wrapped around.
LEMMA WrapHigh ==
    \A n, m \in Nat : n >= 1 /\ Wrap8(n - m) >= 2 => n >= 2 \/ m >= 130
<1> SUFFICES ASSUME NEW m \in Nat, m < 130 PROVE ~(Wrap8(1 - m) >= 2)
    OBVIOUS
<1>1. (1 - m) + 128 \in 0 .. 129
    OBVIOUS
<1>2. \A x \in 0 .. 129 : x % 256 = x
    OBVIOUS
<1> QED
    BY <1>1, <1>2 DEF Wrap8

\* Every step keeps the meaning of the count.
LEMMA CountStep ==
    ASSUME TypeOK, Phases, CountInv, [Next]_vars
    PROVE  CountInv'
<1>0. SigTypes /\ LoopTypes /\ HistTypes
    BY TypeParts, Zenon
<1>1. ints \in Nat /\ others \in Nat /\ ints' \in Nat /\ others' \in Nat
    BY <1>0, SigTypesStep, Zenon DEF HistTypes
<1>2. \/ UNCHANGED <<SIGINT_COUNT, ints, others>>
      \/ /\ SIGINT_COUNT' = Wrap8(Wrap8(SIGINT_COUNT - 1) + 2)
         /\ ints' = ints + 1 /\ others' = others
      \/ SIGINT_COUNT' = Wrap8(SIGINT_COUNT - 1) /\ ints' = ints /\ others' = others + 1
    BY <1>0, QueueStep, Zenon DEF receive_signal
<1>3. SIGINT_COUNT' = Wrap8(ints' - others')
  <2>1. ints - others \in Int
      BY <1>1
  <2>2. \A n, m \in Nat : (n + 1) - m = (n - m) + 1 /\ n - (m + 1) = (n - m) - 1
      OBVIOUS
  <2>3. SIGINT_COUNT = Wrap8(ints - others)
      BY Zenon DEF CountInv
  <2> QED
      BY <1>1, <1>2, <2>1, <2>2, <2>3, WrapMoves, Zenon
<1>4. ForceOnlyWrapped'
  <2> DEFINE Forcing == \E i \in DOMAIN queue : queue[i] = "ForceShutdown"
             Excused == ints >= 2 \/ others >= 130
  <2>1. Excused => Excused'
      BY <1>1, <1>2
  <2>2. SIGINT_COUNT' >= 2 /\ ints' = ints + 1 => Excused'
    <3>1. ints' = ints + 1 => ints' >= 1
        BY <1>1
    <3> QED
        BY <1>1, <1>3, <3>1, WrapHigh, Zenon
  <2>3. master = "forced" \/ Forcing => Excused
      BY Zenon DEF CountInv, ForceOnlyWrapped, Forced
  <2>4. Forcing' => Forcing \/ (SIGINT_COUNT' >= 2 /\ ints' = ints + 1)
    <3>0. SIGINT_COUNT' \in Int
        BY <1>1, <1>3 DEF Wrap8
    <3>1. ~(SIGINT_COUNT' >= 2) => ShutdownEvent(SIGINT_COUNT') # "ForceShutdown"
        BY <3>0 DEF ShutdownEvent
    <3>2. \A sig \in Signals \cup {"CHLD"} : Event[sig] # "ForceShutdown"
        BY ClusterAssumption DEF Event
    <3> QED
        BY <1>0, <3>1, <3>2, QueueStep, Zenon DEF receive_signal
  <2>5. master' = "forced" => master = "forced" \/ Forcing
    <3>1. ForceShutdown => Forcing
        BY <1>0, RecvRange, Zenon DEF ForceShutdown, SigTypes
    <3> QED
        BY <1>0, <3>1, ForcedStep, Zenon
  <2>6. (master' = "forced" \/ Forcing') => Excused'
      BY <2>1, <2>2, <2>3, <2>4, <2>5, Zenon
  <2> QED
      BY <2>6, Zenon DEF ForceOnlyWrapped, Forced
<1> QED
    BY <1>3, <1>4, Zenon DEF CountInv

\* However many signals come and in whatever order, a forceful shutdown is
\* asked for only after two SIGINTs or SIGTERMs, or after the 130 other signals
\* that wrap the count of them around: ForceOnlyWrapped.
THEOREM ForceOnlyWrappedCorrect == Spec => []ForceOnlyWrapped
<1>1. Init => CountInv
  <2> SUFFICES ASSUME Init PROVE CountInv
      OBVIOUS
  <2>1. others \in Nat /\ SIGINT_COUNT = Wrap8(-others) /\ ints = 0
      BY ClusterAssumption DEF Init
  <2>2. ints - others = -others
      BY <2>1
  <2>3. DOMAIN queue = {} /\ master = "select"
      BY DEF Init
  <2> QED
      BY <2>1, <2>2, <2>3, Zenon DEF CountInv, ForceOnlyWrapped, Forced
<1>2. TypeOK /\ Phases /\ CountInv /\ [Next]_vars => CountInv'
    BY CountStep, Zenon
<1>3. CountInv => ForceOnlyWrapped
    BY Zenon DEF CountInv
<1>4. Spec => [](TypeOK /\ Phases)
    BY TypeOKCorrect
<1> QED
    BY <1>1, <1>2, <1>3, <1>4, PTL DEF Spec

==============================================================================
