-------------------------- MODULE WorkerPoolProofs --------------------------
(***************************************************************************)
(* The worker pool for any number of workers and requests and any capacity *)
(* of the channels: the handshake of a fiber worker with its waker thread, *)
(* where each request is, what a shutdown that needed no force has         *)
(* answered, and that the Shutdown messages suffice for the workers.       *)
(***************************************************************************)
EXTENDS WorkerPool, TLAPS, FiniteSetTheorems

\* The shape of what the two threads share.
SharedTypes ==
    /\ DOMAIN wpc = Workers /\ DOMAIN leader = FiberWorkers
    /\ permits \in [FiberWorkers -> Nat]
    /\ changed \in [FiberWorkers -> BOOLEAN] /\ stop \in [FiberWorkers -> BOOLEAN]
    /\ waker \in [FiberWorkers -> {"idle", "armed", "unblock", "ended"}]

\* The waker is told to stop, and stops, only after the last turn of the loop.
StopsLast ==
    \A w \in FiberWorkers : stop[w] \/ waker[w] = "ended" => wpc[w] \in {"draining", "dead"}

IInv == SharedTypes /\ StopsLast /\ Handshake

\* Every step keeps the shape.
LEMMA TypesStep == SharedTypes /\ [Next]_vars => SharedTypes'
<1> SUFFICES ASSUME SharedTypes, [Next]_vars PROVE SharedTypes'
    BY Zenon
<1> USE DEF SharedTypes
<1>0. /\ FiberWorkers \subseteq Workers /\ ThreadWorkers \subseteq Workers
      /\ ThreadWorkers \cap FiberWorkers = {}
    BY PoolAssumption, Zenon DEF Workers
<1>1. ASSUME NEW w \in FiberWorkers, TakeLeader(w) PROVE SharedTypes'
    BY <1>0, <1>1, Zenon DEF TakeLeader, Signal, Goto
<1>2. ASSUME NEW w \in FiberWorkers, FillBatch(w) PROVE SharedTypes'
    BY <1>0, <1>2, Zenon DEF FillBatch, Goto, wakers
<1>3. ASSUME NEW w \in FiberWorkers, BatchFilled(w) PROVE SharedTypes'
    BY <1>0, <1>3, Zenon DEF BatchFilled, Goto, wakers
<1>4. ASSUME NEW w \in FiberWorkers, ScheduleBatch(w) PROVE SharedTypes'
    BY <1>0, <1>4, ZenonT(30) DEF ScheduleBatch, Signal, Goto
<1>5. ASSUME NEW w \in FiberWorkers, CheckEmpty(w) PROVE SharedTypes'
    BY <1>0, <1>5, Zenon DEF CheckEmpty, Goto, wakers
<1>6. ASSUME NEW w \in FiberWorkers, SignalWaker(w) PROVE SharedTypes'
    BY <1>0, <1>6, Zenon DEF SignalWaker, Signal, Goto
<1>7. ASSUME NEW w \in FiberWorkers, Resume(w) PROVE SharedTypes'
    BY <1>0, <1>7 DEF Resume, Goto, Unblocked
<1>8. ASSUME NEW w \in FiberWorkers, SchedulerExits(w) PROVE SharedTypes'
    BY <1>0, <1>8, Zenon DEF SchedulerExits, Goto, wakers
<1>9. ASSUME NEW w \in FiberWorkers, FiberAnswers(w) PROVE SharedTypes'
    BY <1>0, <1>9, Zenon DEF FiberAnswers, wakers
<1>10. ASSUME NEW w \in FiberWorkers, WakerSeesChange(w) PROVE SharedTypes'
    BY <1>0, <1>10, Zenon DEF WakerSeesChange
<1>11. ASSUME NEW w \in FiberWorkers, WakerReceives(w) PROVE SharedTypes'
    BY <1>0, <1>11, Zenon DEF WakerReceives
<1>12. ASSUME NEW w \in FiberWorkers, WakerUnblocks(w) PROVE SharedTypes'
    BY <1>0, <1>12 DEF WakerUnblocks
<1>13. ASSUME NEW w \in ThreadWorkers, ThreadStep(w) PROVE SharedTypes'
    BY <1>0, <1>13, Zenon DEF ThreadStep, RecvBlocking, ProcessOne, AppReturns, DrainNext,
       DrainEmpty,
              CheckTerminated, Goto, wakers
<1>14. ASSUME NEW w \in Workers, ThreadKilled(w) PROVE SharedTypes'
    BY <1>0, <1>14, Zenon DEF ThreadKilled, Goto, wakers
<1>15. CASE UNCHANGED <<wpc, wakers>>
    BY <1>15, Zenon DEF wakers
<1>16. ASSUME NEW w \in FiberWorkers, FiberStep(w) \/ FiberAnswers(w) \/ WakerStep(w) PROVE SharedTypes'
    BY <1>16, <1>1, <1>2, <1>3, <1>4, <1>5, <1>6, <1>7, <1>8, <1>9, <1>10, <1>11, <1>12,
       Zenon DEF FiberStep, WakerStep
<1>17. CASE \/ \E j \in Jobs : Submit(j) \/ Reject(j)
            \/ StopAccepting \/ Join \/ MainStep \/ UNCHANGED vars
            \/ \E w \in Workers : PollShutdown(w)
  <2>1. UNCHANGED <<wpc, wakers>>
      BY <1>17, Zenon DEF Submit, Reject, StopAccepting, Join, MainStep, SendShutdown, AllSent,
         DeadlinePasses,
                  AllStopped, PollShutdown, vars
  <2> QED
      BY <2>1, <1>15, Zenon
<1> QED
    BY <1>13, <1>14, <1>16, <1>17, Zenon DEF Next

\* Every step keeps the order of the last turn and the stop.
LEMMA StopsStep == IInv /\ [Next]_vars => StopsLast'
<1> SUFFICES ASSUME IInv, [Next]_vars PROVE StopsLast'
    BY Zenon
<1> USE DEF IInv, SharedTypes, StopsLast, Handshake
<1>0. /\ FiberWorkers \subseteq Workers /\ ThreadWorkers \subseteq Workers
      /\ ThreadWorkers \cap FiberWorkers = {}
    BY PoolAssumption, Zenon DEF Workers
<1>1. ASSUME NEW w \in FiberWorkers, TakeLeader(w) PROVE StopsLast'
    BY <1>0, <1>1 DEF TakeLeader, Signal, Goto
<1>2. ASSUME NEW w \in FiberWorkers, FillBatch(w) PROVE StopsLast'
    BY <1>0, <1>2, Zenon DEF FillBatch, Goto, wakers
<1>3. ASSUME NEW w \in FiberWorkers, BatchFilled(w) PROVE StopsLast'
    BY <1>0, <1>3, Zenon DEF BatchFilled, Goto, wakers
<1>4. ASSUME NEW w \in FiberWorkers, ScheduleBatch(w) PROVE StopsLast'
  <2>1. waker' = waker
      BY <1>4, Zenon DEF ScheduleBatch
  <2>2. CASE Signal(w, TRUE) /\ Goto(w, "draining")
      BY <1>0, <2>1, <2>2, Zenon DEF Signal, Goto
  <2>3. CASE Goto(w, "check") /\ UNCHANGED <<changed, stop>>
    <3>1. wpc[w] = "schedule"
        BY <1>4, Zenon DEF ScheduleBatch
    <3> QED
        BY <1>0, <2>1, <2>3, <3>1, Zenon DEF Goto
  <2> QED
      BY <1>4, <2>2, <2>3, Zenon DEF ScheduleBatch
<1>5. ASSUME NEW w \in FiberWorkers, CheckEmpty(w) PROVE StopsLast'
    BY <1>0, <1>5, Zenon DEF CheckEmpty, Goto, wakers
<1>6. ASSUME NEW w \in FiberWorkers, SignalWaker(w) PROVE StopsLast'
    BY <1>0, <1>6, Zenon DEF SignalWaker, Signal, Goto
<1>7. ASSUME NEW w \in FiberWorkers, Resume(w) PROVE StopsLast'
    BY <1>0, <1>7, Zenon DEF Resume, Goto, Unblocked
<1>8. ASSUME NEW w \in FiberWorkers, SchedulerExits(w) PROVE StopsLast'
    BY <1>0, <1>8, Zenon DEF SchedulerExits, Goto, wakers
<1>9. ASSUME NEW w \in FiberWorkers, FiberAnswers(w) PROVE StopsLast'
    BY <1>0, <1>9, Zenon DEF FiberAnswers, wakers
<1>10. ASSUME NEW w \in FiberWorkers, WakerSeesChange(w) PROVE StopsLast'
    BY <1>0, <1>10, Zenon DEF WakerSeesChange
<1>11. ASSUME NEW w \in FiberWorkers, WakerReceives(w) PROVE StopsLast'
    BY <1>0, <1>11, Zenon DEF WakerReceives
<1>12. ASSUME NEW w \in FiberWorkers, WakerUnblocks(w) PROVE StopsLast'
    BY <1>0, <1>12, Zenon DEF WakerUnblocks
<1>13. ASSUME NEW w \in ThreadWorkers, ThreadStep(w) PROVE StopsLast'
    BY <1>0, <1>13 DEF ThreadStep, RecvBlocking, ProcessOne, AppReturns, DrainNext, DrainEmpty,
              CheckTerminated, Goto, wakers
<1>14. ASSUME NEW w \in Workers, ThreadKilled(w) PROVE StopsLast'
    BY <1>0, <1>14, Zenon DEF ThreadKilled, Goto, wakers
<1>15. CASE UNCHANGED <<wpc, wakers>>
    BY <1>15, Zenon DEF wakers
<1>16. ASSUME NEW w \in FiberWorkers, FiberStep(w) \/ FiberAnswers(w) \/ WakerStep(w) PROVE StopsLast'
    BY <1>16, <1>1, <1>2, <1>3, <1>4, <1>5, <1>6, <1>7, <1>8, <1>9, <1>10, <1>11, <1>12,
       Zenon DEF FiberStep, WakerStep
<1>17. CASE \/ \E j \in Jobs : Submit(j) \/ Reject(j)
            \/ StopAccepting \/ Join \/ MainStep \/ UNCHANGED vars
            \/ \E w \in Workers : PollShutdown(w)
  <2>1. UNCHANGED <<wpc, wakers>>
      BY <1>17, Zenon DEF Submit, Reject, StopAccepting, Join, MainStep, SendShutdown, AllSent,
         DeadlinePasses,
                  AllStopped, PollShutdown, vars
  <2> QED
      BY <2>1, <1>15, Zenon
<1> QED
    BY <1>13, <1>14, <1>16, <1>17, Zenon DEF Next

\* Every step keeps the handshake.
LEMMA HandshakeStep == IInv /\ [Next]_vars => Handshake'
<1> SUFFICES ASSUME IInv, [Next]_vars PROVE Handshake'
    BY Zenon
<1> USE DEF IInv, SharedTypes, StopsLast, Handshake
<1>0. /\ FiberWorkers \subseteq Workers /\ ThreadWorkers \subseteq Workers
      /\ ThreadWorkers \cap FiberWorkers = {}
    BY PoolAssumption, Zenon DEF Workers
<1>1. ASSUME NEW w \in FiberWorkers, TakeLeader(w) PROVE Handshake'
    BY <1>0, <1>1 DEF TakeLeader, Signal, Goto
<1>2. ASSUME NEW w \in FiberWorkers, FillBatch(w) PROVE Handshake'
    BY <1>0, <1>2, Zenon DEF FillBatch, Goto, wakers
<1>3. ASSUME NEW w \in FiberWorkers, BatchFilled(w) PROVE Handshake'
    BY <1>0, <1>3, Zenon DEF BatchFilled, Goto, wakers
<1>4. ASSUME NEW w \in FiberWorkers, ScheduleBatch(w) PROVE Handshake'
    BY <1>0, <1>4 DEF ScheduleBatch, Signal, Goto
<1>5. ASSUME NEW w \in FiberWorkers, CheckEmpty(w) PROVE Handshake'
    BY <1>0, <1>5, Zenon DEF CheckEmpty, Goto, wakers
<1>6. ASSUME NEW w \in FiberWorkers, SignalWaker(w) PROVE Handshake'
    BY <1>0, <1>6 DEF SignalWaker, Signal, Goto
<1>7. ASSUME NEW w \in FiberWorkers, Resume(w) PROVE Handshake'
    BY <1>0, <1>7 DEF Resume, Goto, Unblocked
<1>8. ASSUME NEW w \in FiberWorkers, SchedulerExits(w) PROVE Handshake'
    BY <1>0, <1>8, Zenon DEF SchedulerExits, Goto, wakers
<1>9. ASSUME NEW w \in FiberWorkers, FiberAnswers(w) PROVE Handshake'
    BY <1>0, <1>9, Zenon DEF FiberAnswers, wakers
<1>10. ASSUME NEW w \in FiberWorkers, WakerSeesChange(w) PROVE Handshake'
    BY <1>0, <1>10 DEF WakerSeesChange
<1>11. ASSUME NEW w \in FiberWorkers, WakerReceives(w) PROVE Handshake'
    BY <1>0, <1>11, ZenonT(30) DEF WakerReceives
<1>12. ASSUME NEW w \in FiberWorkers, WakerUnblocks(w) PROVE Handshake'
    BY <1>0, <1>12 DEF WakerUnblocks
<1>13. ASSUME NEW w \in ThreadWorkers, ThreadStep(w) PROVE Handshake'
    BY <1>0, <1>13 DEF ThreadStep, RecvBlocking, ProcessOne, AppReturns, DrainNext, DrainEmpty,
              CheckTerminated, Goto, wakers
<1>14. ASSUME NEW w \in Workers, ThreadKilled(w) PROVE Handshake'
    BY <1>0, <1>14, Zenon DEF ThreadKilled, Goto, wakers
<1>15. CASE UNCHANGED <<wpc, wakers>>
    BY <1>15, Zenon DEF wakers
<1>16. ASSUME NEW w \in FiberWorkers, FiberStep(w) \/ FiberAnswers(w) \/ WakerStep(w) PROVE Handshake'
    BY <1>16, <1>1, <1>2, <1>3, <1>4, <1>5, <1>6, <1>7, <1>8, <1>9, <1>10, <1>11, <1>12,
       Zenon DEF FiberStep, WakerStep
<1>17. CASE \/ \E j \in Jobs : Submit(j) \/ Reject(j)
            \/ StopAccepting \/ Join \/ MainStep \/ UNCHANGED vars
            \/ \E w \in Workers : PollShutdown(w)
  <2>1. UNCHANGED <<wpc, wakers>>
      BY <1>17, Zenon DEF Submit, Reject, StopAccepting, Join, MainStep, SendShutdown, AllSent,
         DeadlinePasses,
                  AllStopped, PollShutdown, vars
  <2> QED
      BY <2>1, <1>15, Zenon
<1> QED
    BY <1>13, <1>14, <1>16, <1>17, Zenon DEF Next

\* The waker thread takes a message only for a fiber that is blocked, with no
\* leader and no unblock under way, and every unblock finds its fiber blocked:
\* neither thread can overwrite the other's leader or wake it for nothing,
\* whatever the number of workers and the size of the channels.
THEOREM HandshakeHolds == Spec => []Handshake
<1>1. Init => IInv
    BY PoolAssumption DEF Init, IInv, SharedTypes, StopsLast, Handshake, Workers
<1>2. IInv /\ [Next]_vars => IInv'
    BY TypesStep, StopsStep, HandshakeStep, Zenon DEF IInv
<1>3. IInv => Handshake
    BY Zenon DEF IInv
<1> QED
    BY <1>1, <1>2, <1>3, PTL DEF Spec

NoRepeat(s) == \A i, k \in DOMAIN s : s[i] = s[k] /\ s[i] # Shutdown => i = k
Ordered(s) == \A i, k \in DOMAIN s : i < k /\ s[i] = Shutdown => s[k] = Shutdown
Left(s) == {i \in DOMAIN s : s[i] = Shutdown}

\* What receiving takes from a channel.
LEMMA TailFacts ==
    \A s \in Seq(Message) : s # <<>> =>
        /\ Head(s) \in Message /\ Tail(s) \in Seq(Message)
        /\ Range(s) = {Head(s)} \cup Range(Tail(s))
        /\ NoRepeat(s) => NoRepeat(Tail(s)) /\ (Head(s) # Shutdown => Head(s) \notin Range(Tail(s)))
        /\ Ordered(s) => Ordered(Tail(s)) /\ (Head(s) = Shutdown => Range(s) \subseteq {Shutdown})
<1> SUFFICES ASSUME NEW s \in Seq(Message), s # <<>>
             PROVE  /\ Head(s) \in Message /\ Tail(s) \in Seq(Message)
                    /\ Range(s) = {Head(s)} \cup Range(Tail(s))
                    /\ NoRepeat(s) => NoRepeat(Tail(s)) /\ (Head(s) # Shutdown => Head(s) \notin Range(Tail(s)))
                    /\ Ordered(s) => Ordered(Tail(s)) /\ (Head(s) = Shutdown => Range(s) \subseteq {Shutdown})
    BY Zenon
<1> DEFINE t == Tail(s)
<1>1. /\ Head(s) \in Message /\ t \in Seq(Message) /\ Len(t) = Len(s) - 1
      /\ \A i \in 1 .. Len(t) : t[i] = s[i + 1]
    OBVIOUS
<1>2. /\ DOMAIN s = 1 .. Len(s) /\ Len(s) \in Nat
      /\ DOMAIN t = 1 .. Len(t) /\ Len(t) \in Nat
    BY <1>1
<1>3. Head(s) = s[1] /\ 1 \in DOMAIN s
    BY <1>1, <1>2
<1>4. \A i \in DOMAIN t : i + 1 \in DOMAIN s /\ i + 1 # 1 /\ 1 < i + 1 /\ t[i] = s[i + 1]
    BY <1>1, <1>2
<1>5. \A i \in DOMAIN s : i = 1 \/ (1 < i /\ i - 1 \in DOMAIN t /\ t[i - 1] = s[i])
    BY <1>1, <1>2
<1>6. \A i, k \in DOMAIN t : (i + 1 = k + 1 => i = k) /\ (i < k => i + 1 < k + 1)
    BY <1>2
<1> HIDE DEF t
<1>7. Range(s) = {Head(s)} \cup Range(t)
  <2>1. \A x \in Range(t) : x \in Range(s)
      BY <1>4, Zenon DEF Range
  <2>2. \A x \in Range(s) : x = Head(s) \/ x \in Range(t)
      BY <1>3, <1>5, Zenon DEF Range
  <2>3. Head(s) \in Range(s)
      BY <1>3, Zenon DEF Range
  <2> QED
      BY <2>1, <2>2, <2>3, Zenon
<1>8. ASSUME NoRepeat(s)
      PROVE  NoRepeat(t) /\ (Head(s) # Shutdown => Head(s) \notin Range(t))
  <2>1. NoRepeat(t)
      BY <1>4, <1>6, <1>8, Zenon DEF NoRepeat
  <2>2. \A i \in DOMAIN t : s[1] = t[i] => s[1] = Shutdown
      BY <1>3, <1>4, <1>8, Zenon DEF NoRepeat
  <2> QED
      BY <1>3, <2>1, <2>2, Zenon DEF Range
<1>9. Ordered(s) => Ordered(t)
    BY <1>4, <1>6, Zenon DEF Ordered
<1>10. Ordered(s) /\ Head(s) = Shutdown => Range(s) \subseteq {Shutdown}
    BY <1>3, <1>5, ZenonT(30) DEF Ordered, Range
<1> QED
    BY <1>1, <1>7, <1>8, <1>9, <1>10, Zenon DEF t

\* What sending adds to a channel.
LEMMA AppendFacts ==
    \A s \in Seq(Message), m \in Message :
        /\ Append(s, m) \in Seq(Message)
        /\ Range(Append(s, m)) = Range(s) \cup {m}
        /\ NoRepeat(s) /\ (m = Shutdown \/ m \notin Range(s)) => NoRepeat(Append(s, m))
        /\ Ordered(s) /\ (m = Shutdown \/ Shutdown \notin Range(s)) => Ordered(Append(s, m))
<1> SUFFICES ASSUME NEW s \in Seq(Message), NEW m \in Message
             PROVE  /\ Append(s, m) \in Seq(Message)
                    /\ Range(Append(s, m)) = Range(s) \cup {m}
                    /\ NoRepeat(s) /\ (m = Shutdown \/ m \notin Range(s)) => NoRepeat(Append(s, m))
                    /\ Ordered(s) /\ (m = Shutdown \/ Shutdown \notin Range(s)) => Ordered(Append(s, m))
    BY Zenon
<1> DEFINE t == Append(s, m)
           n == Len(s) + 1
<1>1. /\ t \in Seq(Message) /\ Len(t) = n
      /\ \A i \in 1 .. Len(s) : t[i] = s[i]
      /\ t[n] = m
    OBVIOUS
<1>2. /\ DOMAIN s = 1 .. Len(s) /\ Len(s) \in Nat
      /\ DOMAIN t = 1 .. n
    BY <1>1
<1>3. /\ \A i \in DOMAIN s : i \in DOMAIN t /\ i # n /\ t[i] = s[i] /\ ~(n < i)
      /\ n \in DOMAIN t /\ ~(n < n)
      /\ \A i \in DOMAIN t : i \in DOMAIN s \/ i = n
    BY <1>1, <1>2
<1>4. t[n] = m BY <1>1, Zenon
<1> HIDE DEF t, n
<1>5. Range(t) = Range(s) \cup {m}
    BY <1>3, <1>4, Zenon DEF Range
<1>6. NoRepeat(s) /\ (m = Shutdown \/ m \notin Range(s)) => NoRepeat(t)
    BY <1>3, <1>4, ZenonT(30) DEF Range, NoRepeat
<1>7. Ordered(s) /\ (m = Shutdown \/ Shutdown \notin Range(s)) => Ordered(t)
    BY <1>3, <1>4, ZenonT(30) DEF Range, Ordered
<1> QED
    BY <1>1, <1>5, <1>6, <1>7, Zenon DEF t

\* The Shutdowns left in a channel after a receive and after a send.
LEMMA LeftFacts ==
    \A s \in Seq(Message) :
        /\ IsFiniteSet(Left(s)) /\ Cardinality(Left(s)) \in Nat
        /\ s # <<>> => Cardinality(Left(s)) = Cardinality(Left(Tail(s))) + (IF Head(s) = Shutdown THEN 1 ELSE 0)
        /\ \A m \in Message : Cardinality(Left(Append(s, m))) = Cardinality(Left(s)) + (IF m = Shutdown THEN 1 ELSE 0)
<1> SUFFICES ASSUME NEW s \in Seq(Message)
             PROVE  /\ IsFiniteSet(Left(s)) /\ Cardinality(Left(s)) \in Nat
                    /\ s # <<>> => Cardinality(Left(s)) = Cardinality(Left(Tail(s))) + (IF Head(s) = Shutdown THEN 1 ELSE 0)
                    /\ \A m \in Message : Cardinality(Left(Append(s, m))) = Cardinality(Left(s)) + (IF m = Shutdown THEN 1 ELSE 0)
    BY Zenon
<1>0. ASSUME NEW t \in Seq(Message) PROVE IsFiniteSet(Left(t)) /\ Cardinality(Left(t)) \in Nat
  <2>1. DOMAIN t = 1 .. Len(t) /\ Len(t) \in Nat
      OBVIOUS
  <2>2. IsFiniteSet(1 .. Len(t))
      BY <2>1, FS_Interval
  <2>3. IsFiniteSet(Left(t))
      BY <2>1, <2>2, FS_Subset, Zenon DEF Left
  <2> QED
      BY <2>3, FS_CardinalityType, Zenon
<1>1. ASSUME s # <<>>
      PROVE  Cardinality(Left(s)) = Cardinality(Left(Tail(s))) + (IF Head(s) = Shutdown THEN 1 ELSE 0)
  <2> DEFINE t == Tail(s)
             R == Left(s) \ {1}
             f == [i \in Left(t) |-> i + 1]
  <2>1. /\ t \in Seq(Message) /\ Len(t) = Len(s) - 1
        /\ \A i \in 1 .. Len(t) : t[i] = s[i + 1]
      BY <1>1
  <2>2. /\ DOMAIN s = 1 .. Len(s) /\ Len(s) \in Nat
        /\ DOMAIN t = 1 .. Len(t) /\ Len(t) \in Nat
      BY <2>1
  <2>3. Head(s) = s[1] /\ 1 \in DOMAIN s
      BY <2>1, <2>2
  <2>4. \A i \in Left(t) : i + 1 \in R
      BY <2>1, <2>2 DEF Left
  <2>5. \A i, k \in Left(t) : i + 1 = k + 1 => i = k
      BY <2>2 DEF Left
  <2>6. \A k \in R : k - 1 \in Left(t) /\ k = (k - 1) + 1
      BY <2>1, <2>2 DEF Left
  <2>7. f \in Bijection(Left(t), R)
      BY <2>4, <2>5, <2>6, Zenon DEF Bijection, Injection, Surjection, IsInjective
  <2>8. Cardinality(R) = Cardinality(Left(t)) /\ IsFiniteSet(Left(t)) /\ IsFiniteSet(Left(s))
      BY <1>0, <2>1, <2>7, FS_Bijection, Zenon DEF ExistsBijection
  <2>9. Cardinality(R) = IF 1 \in Left(s) THEN Cardinality(Left(s)) - 1 ELSE Cardinality(Left(s))
      BY <2>8, FS_RemoveElement, Zenon
  <2>10. 1 \in Left(s) <=> Head(s) = Shutdown
      BY <2>3, Zenon DEF Left
  <2> QED
      BY <1>0, <2>1, <2>8, <2>9, <2>10
<1>2. ASSUME NEW m \in Message
      PROVE  Cardinality(Left(Append(s, m))) = Cardinality(Left(s)) + (IF m = Shutdown THEN 1 ELSE 0)
  <2> DEFINE t == Append(s, m)
             n == Len(s) + 1
  <2>1. /\ t \in Seq(Message) /\ Len(t) = n
        /\ \A i \in 1 .. Len(s) : t[i] = s[i]
        /\ t[n] = m
      OBVIOUS
  <2>2. /\ DOMAIN s = 1 .. Len(s) /\ Len(s) \in Nat
        /\ DOMAIN t = 1 .. n
      BY <2>1
  <2>3. /\ \A i \in DOMAIN s : i \in DOMAIN t /\ i # n /\ t[i] = s[i]
        /\ n \in DOMAIN t
        /\ \A i \in DOMAIN t : i \in DOMAIN s \/ i = n
      BY <2>1, <2>2
  <2> HIDE DEF t, n
  <2>4. Left(t) = (IF m = Shutdown THEN Left(s) \cup {n} ELSE Left(s)) /\ n \notin Left(s)
      BY <2>1, <2>3, Zenon DEF Left
  <2>5. m = Shutdown => Cardinality(Left(t)) = Cardinality(Left(s)) + 1
      BY <1>0, <2>4, FS_AddElement, Zenon
  <2> QED
      BY <1>0, <2>4, <2>5 DEF t
<1> QED
    BY <1>0, <1>1, <1>2, Zenon

\* Where each kind of worker can be in its loop.
WorkerLabels ==
    /\ \A w \in ThreadWorkers : wpc[w] \in {"recv", "process", "app", "drain", "check", "dead"}
    /\ \A w \in FiberWorkers : wpc[w] \in {"take", "fill", "schedule", "check", "signal",
                                           "blocked", "yielded", "draining", "dead"}

\* The workers and their channels.
LEMMA WorkerFacts ==
    /\ FiberWorkers \subseteq Workers /\ ThreadWorkers \subseteq Workers
    /\ \A w \in Workers : (w \in ThreadWorkers /\ w \notin FiberWorkers)
                          \/ (w \in FiberWorkers /\ w \notin ThreadWorkers)
    /\ \A w \in Workers : Chan(w) \in Channels
    /\ "blocking" \in Channels /\ NonblockingSender \in Channels
    /\ Jobs \subseteq Message /\ Shutdown \in Message /\ Shutdown \notin Jobs /\ NoJob \notin Message
<1>1. "nonblocking" \notin Channels => Channels = {"blocking"}
    BY Zenon DEF Channels
<1>2. "blocking" \in Channels
    BY Zenon DEF Channels
<1> QED
    BY <1>1, <1>2, PoolAssumption, Zenon DEF Workers, Chan, NonblockingSender, Message

\* Every step keeps the types.
LEMMA PoolTypesStep == TypeOK /\ WorkerLabels /\ [Next]_vars => TypeOK' /\ WorkerLabels'
<1> SUFFICES ASSUME TypeOK, WorkerLabels, [Next]_vars PROVE TypeOK' /\ WorkerLabels'
    BY Zenon
<1> USE DEF TypeOK, WorkerLabels, Goto, Set, Send, Receive
<1>1. ASSUME NEW w \in FiberWorkers, TakeLeader(w) PROVE TypeOK' /\ WorkerLabels'
  <2>1. CASE leader[w] = Shutdown
      BY WorkerFacts, <1>1, <2>1, ZenonT(30) DEF TakeLeader, Signal, control
  <2>2. CASE leader[w] # Shutdown
    <3> DEFINE b == IF leader[w] = NoJob THEN <<>> ELSE <<leader[w]>>
    <3>1. leader[w] \in Message \cup {NoJob}
        BY Zenon
    <3>2. b \in Seq(Message)
        BY <3>1
    <3>3. batch' = [batch EXCEPT ![w] = b] /\ Goto(w, "fill") /\ UNCHANGED <<changed, stop>>
        BY <1>1, <2>2, Zenon DEF TakeLeader
    <3> HIDE DEF b
    <3> QED
        BY WorkerFacts, <1>1, <3>2, <3>3, ZenonT(30) DEF TakeLeader, control
  <2> QED
      BY <2>1, <2>2, Zenon
<1>2. ASSUME NEW w \in FiberWorkers, FillBatch(w) PROVE TypeOK' /\ WorkerLabels'
    BY WorkerFacts, <1>2, TailFacts, AppendFacts DEF FillBatch, wakers, control
<1>3. ASSUME NEW w \in FiberWorkers, BatchFilled(w) PROVE TypeOK' /\ WorkerLabels'
    BY WorkerFacts, <1>3, ZenonT(30) DEF BatchFilled, wakers, work, control
<1>4. ASSUME NEW w \in FiberWorkers, ScheduleBatch(w) PROVE TypeOK' /\ WorkerLabels'
  <2>1. Range(batch[w]) \ {Shutdown} \subseteq Jobs
    <3>1. \A s \in Seq(Message) : Range(s) \subseteq Message
        BY DEF Range
    <3> QED
        BY WorkerFacts, <3>1, Zenon DEF Message
  <2>2. fibers' \in [FiberWorkers -> SUBSET Jobs]
      BY <1>4, <2>1, Zenon DEF ScheduleBatch
  <2>3. job' \in [Jobs -> {"new", "queued", "running", "answered", "unavailable", "dropped"}]
      BY <1>4, Zenon DEF ScheduleBatch
  <2>4. batch' \in [Workers -> Seq(Message)]
      BY WorkerFacts, <1>4 DEF ScheduleBatch
  <2>5. CASE Signal(w, TRUE) /\ Goto(w, "draining")
      BY WorkerFacts, <1>4, <2>2, <2>3, <2>4, <2>5, ZenonT(30) DEF ScheduleBatch, Signal,
         control
  <2>6. CASE Goto(w, "check") /\ UNCHANGED <<changed, stop>>
      BY WorkerFacts, <1>4, <2>2, <2>3, <2>4, <2>6, ZenonT(30) DEF ScheduleBatch, control
  <2> QED
      BY <1>4, <2>5, <2>6, Zenon DEF ScheduleBatch
<1>5. ASSUME NEW w \in FiberWorkers, CheckEmpty(w) PROVE TypeOK' /\ WorkerLabels'
    BY WorkerFacts, <1>5 DEF CheckEmpty, wakers, work, control
<1>6. ASSUME NEW w \in FiberWorkers, SignalWaker(w) PROVE TypeOK' /\ WorkerLabels'
    BY WorkerFacts, <1>6, ZenonT(30) DEF SignalWaker, Signal, work, control
<1>7. ASSUME NEW w \in FiberWorkers, Resume(w) PROVE TypeOK' /\ WorkerLabels'
  <2>0. \A n \in Nat : n > 0 => n - 1 \in Nat
      OBVIOUS
  <2>1. permits' \in [FiberWorkers -> Nat]
    <3>1. CASE wpc[w] = "blocked" /\ Unblocked(w) /\ permits' = [permits EXCEPT ![w] = @ - 1]
      <4> DEFINE n == permits[w] - 1
      <4>1. n \in Nat
          BY <2>0, <3>1, Zenon DEF Unblocked
      <4>2. permits' = [permits EXCEPT ![w] = n]
          BY <3>1, Zenon
      <4> HIDE DEF n
      <4> QED
          BY <4>1, <4>2, Zenon
    <3> QED
        BY <1>7, <3>1, Zenon DEF Resume
  <2>2. Goto(w, "take") /\ UNCHANGED <<work, terminated, leader, changed, stop, waker, control>>
      BY <1>7, Zenon DEF Resume
  <2> QED
      BY WorkerFacts, <2>1, <2>2, ZenonT(30) DEF work, control
<1>8. ASSUME NEW w \in FiberWorkers, SchedulerExits(w) PROVE TypeOK' /\ WorkerLabels'
    BY WorkerFacts, <1>8, ZenonT(30) DEF SchedulerExits, wakers, work, control
<1>9. ASSUME NEW w \in FiberWorkers, FiberAnswers(w) PROVE TypeOK' /\ WorkerLabels'
    BY WorkerFacts, <1>9 DEF FiberAnswers, wakers, control
<1>10. ASSUME NEW w \in FiberWorkers, WakerSeesChange(w) PROVE TypeOK' /\ WorkerLabels'
    BY WorkerFacts, <1>10, ZenonT(30) DEF WakerSeesChange, work, control
<1>11. ASSUME NEW w \in FiberWorkers, WakerReceives(w) PROVE TypeOK' /\ WorkerLabels'
    BY WorkerFacts, <1>11, TailFacts, ZenonT(30) DEF WakerReceives, control
<1>12. ASSUME NEW w \in FiberWorkers, WakerUnblocks(w) PROVE TypeOK' /\ WorkerLabels'
    BY WorkerFacts, <1>12 DEF WakerUnblocks, work, control
<1>13. ASSUME NEW w \in ThreadWorkers, RecvBlocking(w) PROVE TypeOK' /\ WorkerLabels'
  <2> DEFINE m == Head(queue[Chan(w)])
  <2>1. queue' \in [Channels -> Seq(Message)] /\ m \in Message
      BY WorkerFacts, <1>13, TailFacts, Zenon DEF RecvBlocking
  <2>2. <<m>> \in Seq(Message)
      BY <2>1
  <2> HIDE DEF m
  <2>3. batch' \in [Workers -> Seq(Message)]
      BY WorkerFacts, <1>13, <2>2, Zenon DEF RecvBlocking, m
  <2> QED
      BY WorkerFacts, <1>13, <2>1, <2>3, ZenonT(30) DEF RecvBlocking, wakers, control
<1>14. ASSUME NEW w \in ThreadWorkers, ProcessOne(w) PROVE TypeOK' /\ WorkerLabels'
    BY WorkerFacts, <1>14 DEF ProcessOne, wakers, control
<1>15. ASSUME NEW w \in ThreadWorkers, AppReturns(w) PROVE TypeOK' /\ WorkerLabels'
    BY WorkerFacts, <1>15 DEF AppReturns, wakers, control
<1>16. ASSUME NEW w \in ThreadWorkers, DrainNext(w) PROVE TypeOK' /\ WorkerLabels'
  <2> DEFINE m == Head(queue[Chan(w)])
  <2>1. queue' \in [Channels -> Seq(Message)] /\ m \in Message
      BY WorkerFacts, <1>16, TailFacts, Zenon DEF DrainNext
  <2>2. <<m>> \in Seq(Message)
      BY <2>1
  <2> HIDE DEF m
  <2>3. batch' \in [Workers -> Seq(Message)]
      BY WorkerFacts, <1>16, <2>2, Zenon DEF DrainNext, m
  <2>4. terminated' \in [Workers -> BOOLEAN]
      BY WorkerFacts, <1>16, Zenon DEF DrainNext
  <2>5. Goto(w, "check") \/ Goto(w, "process")
      BY <1>16, Zenon DEF DrainNext
  <2>6. UNCHANGED <<job, got, fibers, wakers, control>>
      BY <1>16, Zenon DEF DrainNext
  <2> QED
      BY WorkerFacts, <2>1, <2>3, <2>4, <2>5, <2>6, ZenonT(30) DEF wakers, control
<1>17. ASSUME NEW w \in ThreadWorkers, DrainEmpty(w) PROVE TypeOK' /\ WorkerLabels'
    BY WorkerFacts, <1>17, ZenonT(30) DEF DrainEmpty, wakers, work, control
<1>18. ASSUME NEW w \in ThreadWorkers, CheckTerminated(w) PROVE TypeOK' /\ WorkerLabels'
    BY WorkerFacts, <1>18 DEF CheckTerminated, wakers, work, control
<1>19. ASSUME NEW w \in Workers, PollShutdown(w) PROVE TypeOK' /\ WorkerLabels'
    BY WorkerFacts, <1>19, ZenonT(30) DEF PollShutdown, work, wakers, PastDeadline, control
<1>20. ASSUME NEW w \in Workers, ThreadKilled(w) PROVE TypeOK' /\ WorkerLabels'
    BY WorkerFacts, <1>20 DEF ThreadKilled, wakers, Held, PastDeadline, control
<1>21. ASSUME NEW w \in Jobs, Submit(w) PROVE TypeOK' /\ WorkerLabels'
    BY WorkerFacts, <1>21, AppendFacts DEF Submit, wakers, control
<1>22. ASSUME NEW w \in Jobs, Reject(w) PROVE TypeOK' /\ WorkerLabels'
    BY WorkerFacts, <1>22, ZenonT(30) DEF Reject, wakers, control
<1>23. CASE StopAccepting
    BY WorkerFacts, <1>23, ZenonT(30) DEF StopAccepting, work, wakers
<1>24. CASE Join
    BY WorkerFacts, <1>24, ZenonT(30) DEF Join, work, wakers
<1>25. CASE SendShutdown
    BY WorkerFacts, <1>25, AppendFacts DEF SendShutdown, work, wakers
<1>26. CASE AllSent
    BY WorkerFacts, <1>26, ZenonT(30) DEF AllSent, work, wakers
<1>27. CASE DeadlinePasses
    BY WorkerFacts, <1>27, ZenonT(30) DEF DeadlinePasses, work, wakers
<1>28. CASE AllStopped
    BY WorkerFacts, <1>28, ZenonT(30) DEF AllStopped, work, wakers
<1>29. CASE UNCHANGED vars
    BY <1>29, Zenon DEF vars, work, wakers, control
<1> QED
    BY <1>1, <1>2, <1>3, <1>4, <1>5, <1>6, <1>7, <1>8, <1>9, <1>10, <1>11, <1>12, <1>13,
       <1>14, <1>15, <1>16, <1>17, <1>18, <1>19, <1>20, <1>21, <1>22, <1>23, <1>24, <1>25,
       <1>26, <1>27, <1>28, <1>29,
       Zenon DEF Next, ThreadStep, FiberStep, WakerStep, MainStep

\* A worker has a batch only between receiving it and being done with it.
BatchShape ==
    /\ \A w \in ThreadWorkers :
         /\ wpc[w] \in {"process", "app"} => \E j \in Jobs : batch[w] = <<j>>
         /\ wpc[w] \notin {"process", "app"} => batch[w] = <<>>
    /\ \A w \in FiberWorkers :
         /\ wpc[w] \notin {"fill", "schedule"} => batch[w] = <<>>
         /\ wpc[w] = "fill" => Shutdown \notin Range(batch[w])

\* The shape of the workers' own state.
LEMMA Domains == TypeOK => /\ DOMAIN wpc = Workers /\ DOMAIN batch = Workers /\ DOMAIN queue = Channels
                           /\ DOMAIN leader = FiberWorkers /\ DOMAIN waker = FiberWorkers
                           /\ DOMAIN fibers = FiberWorkers /\ DOMAIN terminated = Workers
                           /\ DOMAIN job = Jobs
                           /\ \A w \in Workers : queue[Chan(w)] \in Seq(Message) /\ batch[w] \in Seq(Message)
    BY WorkerFacts, Zenon DEF TypeOK

\* Every step keeps the shape of the batches.
LEMMA BatchShapeStep == TypeOK /\ WorkerLabels /\ BatchShape /\ [Next]_vars => BatchShape'
<1> SUFFICES ASSUME TypeOK, WorkerLabels, BatchShape, [Next]_vars PROVE BatchShape'
    BY Zenon
<1>1. ASSUME NEW w \in FiberWorkers, TakeLeader(w) PROVE BatchShape'
  <2> DEFINE b == IF leader[w] = NoJob THEN <<>> ELSE <<leader[w]>>
  <2>1. leader[w] # Shutdown => Shutdown \notin Range(b)
      BY DEF Range
  <2>2. leader[w] # Shutdown => batch' = [batch EXCEPT ![w] = b] /\ Goto(w, "fill")
      BY <1>1, Zenon DEF TakeLeader
  <2>3. leader[w] = Shutdown => UNCHANGED batch /\ Goto(w, "draining")
      BY <1>1, Zenon DEF TakeLeader
  <2>4. wpc[w] = "take"
      BY <1>1, Zenon DEF TakeLeader
  <2> HIDE DEF b
  <2> QED
      BY WorkerFacts, Domains, <2>1, <2>2, <2>3, <2>4, ZenonT(30) DEF Goto, BatchShape
<1>2. ASSUME NEW w \in FiberWorkers, FillBatch(w) PROVE BatchShape'
  <2> DEFINE m == Head(queue[Chan(w)])
             b == Append(batch[w], m)
  <2>1. m \in Message
      BY WorkerFacts, Domains, <1>2, TailFacts, Zenon DEF FillBatch
  <2>2. Range(b) = Range(batch[w]) \cup {m}
      BY WorkerFacts, Domains, <2>1, AppendFacts, Zenon
  <2>4. m # Shutdown => Shutdown \notin Range(b)
      BY <1>2, <2>2, Zenon DEF FillBatch, BatchShape
  <2>3. /\ batch' = [batch EXCEPT ![w] = b]
        /\ m = Shutdown => Goto(w, "schedule")
        /\ m # Shutdown => Goto(w, "fill")
      BY <1>2, Zenon DEF FillBatch
  <2> HIDE DEF b, m
  <2> QED
      BY WorkerFacts, Domains, <2>4, <2>3, ZenonT(30) DEF Goto, BatchShape
<1>3. ASSUME NEW w \in FiberWorkers, BatchFilled(w) PROVE BatchShape'
    BY WorkerFacts, Domains, <1>3, ZenonT(30) DEF BatchFilled, work, Goto, BatchShape
<1>4. ASSUME NEW w \in FiberWorkers, ScheduleBatch(w) PROVE BatchShape'
  <2>1. batch' = [batch EXCEPT ![w] = <<>>] /\ (Goto(w, "draining") \/ Goto(w, "check"))
      BY <1>4, Zenon DEF ScheduleBatch
  <2> QED
      BY WorkerFacts, Domains, <2>1, ZenonT(30) DEF Goto, BatchShape
<1>5. ASSUME NEW w \in FiberWorkers, CheckEmpty(w) PROVE BatchShape'
    BY WorkerFacts, Domains, <1>5, ZenonT(30) DEF CheckEmpty, work, Goto, BatchShape
<1>6. ASSUME NEW w \in FiberWorkers, SignalWaker(w) PROVE BatchShape'
    BY WorkerFacts, Domains, <1>6, ZenonT(30) DEF SignalWaker, work, Goto, BatchShape
<1>7. ASSUME NEW w \in FiberWorkers, Resume(w) PROVE BatchShape'
    BY WorkerFacts, Domains, <1>7, ZenonT(30) DEF Resume, work, Goto, BatchShape
<1>8. ASSUME NEW w \in FiberWorkers, SchedulerExits(w) PROVE BatchShape'
    BY WorkerFacts, Domains, <1>8, ZenonT(30) DEF SchedulerExits, work, Goto, BatchShape
<1>9. ASSUME NEW w \in ThreadWorkers, RecvBlocking(w) PROVE BatchShape'
  <2> DEFINE m == Head(queue[Chan(w)])
  <2>1. m \in Message
      BY WorkerFacts, Domains, <1>9, TailFacts, Zenon DEF RecvBlocking
  <2>2. m # Shutdown => m \in Jobs
      BY <2>1, Zenon DEF Message
  <2>3. \/ Goto(w, "dead") /\ UNCHANGED batch /\ wpc[w] # "process" /\ wpc[w] # "app"
        \/ m \in Jobs /\ Goto(w, "process") /\ batch' = [batch EXCEPT ![w] = <<m>>]
      BY <1>9, <2>2, Zenon DEF RecvBlocking
  <2> HIDE DEF m
  <2> QED
      BY WorkerFacts, Domains, <2>3, ZenonT(30) DEF Goto, BatchShape
<1>10. ASSUME NEW w \in ThreadWorkers, ProcessOne(w) PROVE BatchShape'
  <2>1. CASE terminated[w]
      BY WorkerFacts, Domains, <1>10, <2>1, ZenonT(30) DEF ProcessOne, Goto, BatchShape
  <2>2. CASE ~terminated[w]
      BY WorkerFacts, Domains, <1>10, <2>2, ZenonT(30) DEF ProcessOne, Goto, BatchShape
  <2> QED
      BY <2>1, <2>2, Zenon
<1>11. ASSUME NEW w \in ThreadWorkers, AppReturns(w) PROVE BatchShape'
    BY WorkerFacts, Domains, <1>11, ZenonT(30) DEF AppReturns, Goto, BatchShape
<1>12. ASSUME NEW w \in ThreadWorkers, DrainNext(w) PROVE BatchShape'
  <2> DEFINE m == Head(queue[Chan(w)])
  <2>1. m \in Message
      BY WorkerFacts, Domains, <1>12, TailFacts, Zenon DEF DrainNext
  <2>2. m # Shutdown => m \in Jobs
      BY <2>1, Zenon DEF Message
  <2>3. \/ Goto(w, "check") /\ UNCHANGED batch /\ wpc[w] # "process" /\ wpc[w] # "app"
        \/ m \in Jobs /\ Goto(w, "process") /\ batch' = [batch EXCEPT ![w] = <<m>>]
      BY <1>12, <2>2, Zenon DEF DrainNext
  <2> HIDE DEF m
  <2> QED
      BY WorkerFacts, Domains, <2>3, ZenonT(30) DEF Goto, BatchShape
<1>13. ASSUME NEW w \in ThreadWorkers, DrainEmpty(w) PROVE BatchShape'
    BY WorkerFacts, Domains, <1>13, ZenonT(30) DEF DrainEmpty, work, Goto, BatchShape
<1>14. ASSUME NEW w \in ThreadWorkers, CheckTerminated(w) PROVE BatchShape'
    BY WorkerFacts, Domains, <1>14, ZenonT(30) DEF CheckTerminated, work, Goto, BatchShape
<1>15. ASSUME NEW w \in Workers, ThreadKilled(w) PROVE BatchShape'
    BY WorkerFacts, Domains, <1>15, ZenonT(30) DEF ThreadKilled, Goto, BatchShape
<1>16. CASE \/ \E j \in Jobs : Submit(j) \/ Reject(j)
            \/ \E w \in FiberWorkers : FiberAnswers(w) \/ WakerSeesChange(w) \/ WakerReceives(w) \/ WakerUnblocks(w)
            \/ \E w \in Workers : PollShutdown(w)
            \/ StopAccepting \/ Join \/ SendShutdown \/ AllSent \/ DeadlinePasses \/ AllStopped \/ UNCHANGED vars
  <2>1. UNCHANGED <<wpc, batch>>
      BY <1>16, Zenon DEF FiberAnswers, WakerSeesChange, WakerReceives, WakerUnblocks,
         PollShutdown, Submit, Reject, StopAccepting, Join, SendShutdown, AllSent,
         DeadlinePasses, AllStopped, vars, work, wakers
  <2> QED
      BY <2>1, Zenon DEF BatchShape
<1> QED
    BY <1>1, <1>2, <1>3, <1>4, <1>5, <1>6, <1>7, <1>8, <1>9, <1>10, <1>11, <1>12, <1>13,
       <1>14, <1>15, <1>16,
       Zenon DEF Next, ThreadStep, FiberStep, WakerStep, MainStep

\* Before the deadline only a Shutdown terminates a worker: a thread worker
\* that is about to leave its loop.
TerminatedLate ==
    \A w \in Workers : terminated[w] => late \/ (w \in ThreadWorkers /\ wpc[w] \in {"check", "dead"})

\* The waker is about to receive a message, or will be on seeing its signal.
Expects(w) == waker[w] = "armed" \/ (changed[w] /\ ~stop[w])

\* A message the waker receives finds no leader to overwrite, even when the
\* worker's thread has been killed.
LeaderFree ==
    \A w \in FiberWorkers :
        /\ Expects(w) => leader[w] = NoJob
        /\ changed[w] /\ ~stop[w] => waker[w] = "idle"

\* Every step keeps what terminated means.
LEMMA TerminatedStep ==
    TypeOK /\ WorkerLabels /\ TerminatedLate /\ [Next]_vars => TerminatedLate'
<1> SUFFICES ASSUME TypeOK, WorkerLabels, TerminatedLate, [Next]_vars PROVE TerminatedLate'
    BY Zenon
<1>1. ASSUME NEW w \in FiberWorkers, TakeLeader(w) PROVE TerminatedLate'
  <2>1. w \notin ThreadWorkers
      BY WorkerFacts, Zenon
  <2>2. UNCHANGED <<terminated, late>> /\ \A v \in ThreadWorkers : wpc'[v] = wpc[v]
      BY WorkerFacts, Domains, <1>1, <2>1, ZenonT(30) DEF TakeLeader, Goto, control
  <2> QED
      BY <2>2, Zenon DEF TerminatedLate
<1>2. ASSUME NEW w \in FiberWorkers, FillBatch(w) PROVE TerminatedLate'
    BY WorkerFacts, Domains, <1>2, ZenonT(30) DEF FillBatch, Goto, control, TerminatedLate
<1>3. ASSUME NEW w \in FiberWorkers, BatchFilled(w) PROVE TerminatedLate'
    BY WorkerFacts, Domains, <1>3, ZenonT(30) DEF BatchFilled, Goto, control, TerminatedLate
<1>4. ASSUME NEW w \in FiberWorkers, ScheduleBatch(w) PROVE TerminatedLate'
  <2>1. w \notin ThreadWorkers
      BY WorkerFacts, Zenon
  <2>2. UNCHANGED <<terminated, late>> /\ \A v \in ThreadWorkers : wpc'[v] = wpc[v]
      BY WorkerFacts, Domains, <1>4, <2>1, ZenonT(30) DEF ScheduleBatch, Goto, control
  <2> QED
      BY <2>2, Zenon DEF TerminatedLate
<1>5. ASSUME NEW w \in FiberWorkers, CheckEmpty(w) PROVE TerminatedLate'
    BY WorkerFacts, Domains, <1>5, ZenonT(30) DEF CheckEmpty, Goto, control, TerminatedLate
<1>6. ASSUME NEW w \in FiberWorkers, SignalWaker(w) PROVE TerminatedLate'
    BY WorkerFacts, Domains, <1>6, ZenonT(30) DEF SignalWaker, Goto, control, TerminatedLate
<1>7. ASSUME NEW w \in FiberWorkers, Resume(w) PROVE TerminatedLate'
    BY WorkerFacts, Domains, <1>7, ZenonT(30) DEF Resume, Goto, control, TerminatedLate
<1>8. ASSUME NEW w \in FiberWorkers, SchedulerExits(w) PROVE TerminatedLate'
    BY WorkerFacts, Domains, <1>8, ZenonT(30) DEF SchedulerExits, Goto, control, TerminatedLate
<1>9. ASSUME NEW w \in ThreadWorkers, RecvBlocking(w) PROVE TerminatedLate'
    BY WorkerFacts, Domains, <1>9, ZenonT(30) DEF RecvBlocking, Goto, control, TerminatedLate
<1>10. ASSUME NEW w \in ThreadWorkers, ProcessOne(w) PROVE TerminatedLate'
    BY WorkerFacts, Domains, <1>10, ZenonT(30) DEF ProcessOne, Goto, control, TerminatedLate
<1>11. ASSUME NEW w \in ThreadWorkers, AppReturns(w) PROVE TerminatedLate'
    BY WorkerFacts, Domains, <1>11, ZenonT(30) DEF AppReturns, Goto, control, TerminatedLate
<1>12. ASSUME NEW w \in ThreadWorkers, DrainNext(w) PROVE TerminatedLate'
  <2>1. CASE Goto(w, "check")
      BY WorkerFacts, Domains, <1>12, <2>1, ZenonT(30) DEF DrainNext, Goto, control,
         TerminatedLate
  <2>2. CASE Goto(w, "process") /\ UNCHANGED terminated
      BY WorkerFacts, Domains, <1>12, <2>2, ZenonT(30) DEF DrainNext, Goto, control,
         TerminatedLate
  <2> QED
      BY <1>12, <2>1, <2>2, Zenon DEF DrainNext
<1>13. ASSUME NEW w \in ThreadWorkers, DrainEmpty(w) PROVE TerminatedLate'
    BY WorkerFacts, Domains, <1>13, ZenonT(30) DEF DrainEmpty, Goto, control, TerminatedLate
<1>14. ASSUME NEW w \in ThreadWorkers, CheckTerminated(w) PROVE TerminatedLate'
    BY WorkerFacts, Domains, <1>14, ZenonT(30) DEF CheckTerminated, Goto, control,
       TerminatedLate
<1>15. ASSUME NEW w \in Workers, PollShutdown(w) PROVE TerminatedLate'
    BY WorkerFacts, Domains, <1>15, ZenonT(30) DEF PollShutdown, PastDeadline, control,
       TerminatedLate
<1>16. ASSUME NEW w \in Workers, ThreadKilled(w) PROVE TerminatedLate'
    BY WorkerFacts, Domains, <1>16, ZenonT(30) DEF ThreadKilled, PastDeadline, Goto,
       control, TerminatedLate
<1>17. CASE DeadlinePasses
    BY WorkerFacts, Domains, <1>17, ZenonT(30) DEF DeadlinePasses, control, TerminatedLate
<1>18. CASE \/ \E j \in Jobs : Submit(j) \/ Reject(j)
            \/ \E w \in FiberWorkers : FiberAnswers(w) \/ WakerSeesChange(w) \/ WakerReceives(w) \/ WakerUnblocks(w)
            \/ StopAccepting \/ Join \/ SendShutdown \/ AllSent \/ AllStopped \/ UNCHANGED vars
  <2>1. UNCHANGED <<wpc, terminated, late>>
      BY <1>18, Zenon DEF FiberAnswers, WakerSeesChange, WakerReceives, WakerUnblocks,
         Submit, Reject, StopAccepting, Join, SendShutdown, AllSent, AllStopped, vars,
         work, wakers, control
  <2> QED
      BY <2>1, Zenon DEF TerminatedLate
<1> QED
    BY <1>1, <1>2, <1>3, <1>4, <1>5, <1>6, <1>7, <1>8, <1>9, <1>10, <1>11, <1>12, <1>13,
       <1>14, <1>15, <1>16, <1>17, <1>18,
       Zenon DEF Next, ThreadStep, FiberStep, WakerStep, MainStep

\* Every step keeps the leader free for the waker.
LEMMA LeaderFreeStep == IInv /\ WorkerLabels /\ LeaderFree /\ [Next]_vars => LeaderFree'
<1> SUFFICES ASSUME IInv, WorkerLabels, LeaderFree, [Next]_vars PROVE LeaderFree'
    BY Zenon
<1>0. SharedTypes /\ \A w \in FiberWorkers :
        /\ wpc[w] = "take" \/ wpc[w] = "schedule" \/ wpc[w] = "signal" =>
             ~Expects(w) /\ waker[w] = "idle"
        /\ wpc[w] \in {"schedule", "signal"} => leader[w] = NoJob
    BY Zenon DEF IInv, StopsLast, Handshake, SharedTypes, Expects
<1>1. ASSUME NEW w \in FiberWorkers, TakeLeader(w) PROVE LeaderFree'
    BY WorkerFacts, <1>0, <1>1, ZenonT(30) DEF TakeLeader, Signal, LeaderFree, Expects,
       SharedTypes
<1>2. ASSUME NEW w \in FiberWorkers, ScheduleBatch(w) PROVE LeaderFree'
    BY WorkerFacts, <1>0, <1>2, ZenonT(30) DEF ScheduleBatch, Signal, LeaderFree, Expects,
       SharedTypes
<1>3. ASSUME NEW w \in FiberWorkers, SignalWaker(w) PROVE LeaderFree'
    BY WorkerFacts, <1>0, <1>3, ZenonT(30) DEF SignalWaker, Signal, LeaderFree, Expects,
       SharedTypes
<1>4. ASSUME NEW w \in FiberWorkers, WakerSeesChange(w) PROVE LeaderFree'
    BY WorkerFacts, <1>0, <1>4, ZenonT(30) DEF WakerSeesChange, LeaderFree, Expects, SharedTypes
<1>5. ASSUME NEW w \in FiberWorkers, WakerReceives(w) PROVE LeaderFree'
    BY WorkerFacts, <1>0, <1>5, ZenonT(30) DEF WakerReceives, LeaderFree, Expects, SharedTypes
<1>6. ASSUME NEW w \in FiberWorkers, WakerUnblocks(w) PROVE LeaderFree'
    BY WorkerFacts, <1>0, <1>6, ZenonT(30) DEF WakerUnblocks, LeaderFree, Expects, SharedTypes
<1>7. CASE \/ \E j \in Jobs : Submit(j) \/ Reject(j)
           \/ \E w \in ThreadWorkers : RecvBlocking(w) \/ ProcessOne(w) \/ AppReturns(w) \/ DrainNext(w) \/ DrainEmpty(w) \/ CheckTerminated(w)
           \/ \E w \in FiberWorkers : FillBatch(w) \/ BatchFilled(w) \/ CheckEmpty(w) \/ Resume(w) \/ SchedulerExits(w) \/ FiberAnswers(w)
           \/ \E w \in Workers : PollShutdown(w) \/ ThreadKilled(w)
           \/ StopAccepting \/ Join \/ SendShutdown \/ AllSent \/ DeadlinePasses \/ AllStopped \/ UNCHANGED vars
  <2>1. UNCHANGED <<changed, stop, waker, leader>>
      BY <1>7, Zenon DEF FillBatch, BatchFilled, CheckEmpty, Resume, SchedulerExits,
         FiberAnswers, RecvBlocking, ProcessOne, AppReturns, DrainNext, DrainEmpty,
         CheckTerminated, PollShutdown, ThreadKilled, Submit, Reject, StopAccepting, Join,
         SendShutdown, AllSent, DeadlinePasses, AllStopped, vars, work, wakers
  <2> QED
      BY <2>1, Zenon DEF LeaderFree, Expects
<1> QED
    BY <1>1, <1>2, <1>3, <1>4, <1>5, <1>6, <1>7,
       Zenon DEF Next, ThreadStep, FiberStep, WakerStep, MainStep

\* A batch is a place to be held in until its requests are started.
InBatch(j, w) == wpc[w] # "app" /\ j \in Range(batch[w])

\* The channels, leaders and batches that hold a request are these.
HeldIn(j, cs, ls, bs) ==
    /\ \A c \in Channels : j \in Range(queue[c]) <=> c \in cs
    /\ \A w \in FiberWorkers : leader[w] = j <=> w \in ls
    /\ \A w \in Workers : InBatch(j, w) <=> w \in bs

\* A request is held by one of them while it is queued, by none otherwise.
HeldOnce(j) ==
    IF job[j] = "queued"
    THEN \/ \E c \in Channels : HeldIn(j, {c}, {}, {})
         \/ \E w \in FiberWorkers : HeldIn(j, {}, {w}, {})
         \/ \E w \in Workers : HeldIn(j, {}, {}, {w})
    ELSE HeldIn(j, {}, {}, {})

Started(j) == job[j] \notin {"new", "queued"}

\* No channel holds a request twice, and what runs has been started.
Placed ==
    /\ \A c \in Channels : NoRepeat(queue[c])
    /\ \A j \in Jobs : HeldOnce(j)
    /\ \A w \in ThreadWorkers : wpc[w] = "app" => \A j \in Range(batch[w]) : Started(j)
    /\ \A w \in FiberWorkers : \A j \in fibers[w] : Started(j)

\* What does not move a request leaves it where it is.
LEMMA HeldSame ==
    ASSUME NEW j, HeldOnce(j), job'[j] = "queued" <=> job[j] = "queued",
           \A c \in Channels : j \in Range(queue'[c]) <=> j \in Range(queue[c]),
           \A w \in FiberWorkers : leader'[w] = j <=> leader[w] = j,
           \A w \in Workers : InBatch(j, w)' <=> InBatch(j, w)
    PROVE  HeldOnce(j)'
<1>1. \A cs, ls, bs : HeldIn(j, cs, ls, bs) => HeldIn(j, cs, ls, bs)'
    BY Zenon DEF HeldIn
<1> QED
    BY <1>1, Zenon DEF HeldOnce

\* Receiving takes the head of the channel, and nothing else, from it.
LEMMA ReceiveTakes ==
    ASSUME TypeOK, NEW c \in Channels, queue[c] # <<>>, Receive(c),
           \A d \in Channels : NoRepeat(queue[d])
    PROVE  /\ \A d \in Channels : NoRepeat(queue'[d])
           /\ \A j \in Jobs, d \in Channels :
                j \in Range(queue'[d]) <=> j \in Range(queue[d]) /\ ~(d = c /\ j = Head(queue[c]))
           /\ Head(queue[c]) \in Range(queue[c]) /\ Head(queue[c]) \in Message
<1>1. queue[c] \in Seq(Message)
    BY Zenon DEF TypeOK
<1>2. /\ NoRepeat(Tail(queue[c])) /\ Range(queue[c]) = {Head(queue[c])} \cup Range(Tail(queue[c]))
      /\ Head(queue[c]) # Shutdown => Head(queue[c]) \notin Range(Tail(queue[c]))
      /\ Head(queue[c]) \in Message
    BY <1>1, TailFacts, Zenon
<1>3. queue'[c] = Tail(queue[c]) /\ \A d \in Channels : d # c => queue'[d] = queue[d]
    BY Domains, Zenon DEF Receive
<1>4. \A j \in Jobs : j # Shutdown
    BY WorkerFacts, Zenon
<1> QED
    BY <1>2, <1>3, <1>4, Zenon

\* A message received into a batch is then held there.
LEMMA ToBatch ==
    ASSUME TypeOK, Placed, NEW w \in Workers, queue[Chan(w)] # <<>>, Receive(Chan(w)),
           job' = job, leader' = leader,
           \A j \in Jobs, v \in Workers :
              InBatch(j, v)' <=> InBatch(j, v) \/ (v = w /\ j = Head(queue[Chan(w)]))
    PROVE  (\A c \in Channels : NoRepeat(queue'[c])) /\ (\A j \in Jobs : HeldOnce(j)')
<1> DEFINE m == Head(queue[Chan(w)])
           c == Chan(w)
<1>1. /\ \A d \in Channels : NoRepeat(queue'[d])
      /\ \A j \in Jobs, d \in Channels :
           j \in Range(queue'[d]) <=> j \in Range(queue[d]) /\ ~(d = c /\ j = m)
      /\ m \in Range(queue[c])
    BY WorkerFacts, ReceiveTakes, Zenon DEF Placed
<1>2. c \in Channels
    BY WorkerFacts, Zenon
<1>3. \A j \in Jobs, v \in Workers : InBatch(j, v)' <=> InBatch(j, v) \/ (v = w /\ j = m)
    BY Zenon
<1> HIDE DEF m, c
<1>4. ASSUME NEW j \in Jobs, j # m PROVE HeldOnce(j)'
    BY <1>1, <1>3, <1>4, HeldSame, Zenon DEF Placed
<1>5. ASSUME NEW j \in Jobs, j = m PROVE HeldOnce(j)'
  <2>1. HeldIn(j, {c}, {}, {}) /\ job[j] = "queued"
      BY <1>1, <1>2, <1>5, Zenon DEF Placed, HeldOnce, HeldIn
  <2>2. HeldIn(j, {}, {}, {w})'
      BY <1>1, <1>3, <1>5, <2>1, Zenon DEF HeldIn
  <2> QED
      BY <2>1, <2>2, Zenon DEF HeldOnce
<1> QED
    BY <1>1, <1>4, <1>5, Zenon

\* A message the waker receives is then held as the leader.
LEMMA ToLeader ==
    ASSUME TypeOK, Placed, LeaderFree, NEW w \in FiberWorkers, WakerReceives(w)
    PROVE  (\A c \in Channels : NoRepeat(queue'[c])) /\ (\A j \in Jobs : HeldOnce(j)')
<1> DEFINE m == Head(queue[Chan(w)])
           c == Chan(w)
<1>1. /\ \A d \in Channels : NoRepeat(queue'[d])
      /\ \A j \in Jobs, d \in Channels :
           j \in Range(queue'[d]) <=> j \in Range(queue[d]) /\ ~(d = c /\ j = m)
      /\ m \in Range(queue[c])
    BY WorkerFacts, ReceiveTakes, Zenon DEF Placed, WakerReceives
<1>2. c \in Channels /\ \A j \in Jobs : j # NoJob
    BY WorkerFacts, Zenon
<1>3. leader[w] = NoJob /\ leader' = [leader EXCEPT ![w] = m] /\ job' = job
    BY Zenon DEF WakerReceives, LeaderFree, Expects
<1>4. \A j \in Jobs, v \in FiberWorkers : leader'[v] = j <=> leader[v] = j \/ (v = w /\ j = m)
    BY Domains, <1>2, <1>3, Zenon
<1>5. \A j \in Jobs, v \in Workers : InBatch(j, v)' <=> InBatch(j, v)
    BY Zenon DEF WakerReceives, InBatch
<1> HIDE DEF m, c
<1>6. ASSUME NEW j \in Jobs, j # m PROVE HeldOnce(j)'
    BY <1>1, <1>3, <1>4, <1>5, <1>6, HeldSame, Zenon DEF Placed
<1>7. ASSUME NEW j \in Jobs, j = m PROVE HeldOnce(j)'
  <2>1. HeldIn(j, {c}, {}, {}) /\ job[j] = "queued"
      BY <1>1, <1>2, <1>7, Zenon DEF Placed, HeldOnce, HeldIn
  <2>2. HeldIn(j, {}, {w}, {})'
      BY <1>1, <1>4, <1>5, <1>7, <2>1, Zenon DEF HeldIn
  <2> QED
      BY <1>3, <2>1, <2>2, Zenon DEF HeldOnce
<1> QED
    BY <1>1, <1>6, <1>7, Zenon

\* A batch whose requests are started, refused or dropped holds them no more.
LEMMA FromBatch ==
    ASSUME TypeOK, Placed, NEW w \in Workers, queue' = queue, leader' = leader,
           \A j \in Jobs : IF j \in Range(batch[w]) THEN job'[j] \notin {"new", "queued"}
                           ELSE job'[j] = job[j] \/ (Started(j) /\ Started(j)'),
           \A j \in Jobs, v \in Workers : InBatch(j, v)' <=> InBatch(j, v) /\ v # w,
           wpc[w] = "app" => \A j \in Range(batch[w]) : Started(j)
    PROVE  \A j \in Jobs : HeldOnce(j)'
<1> SUFFICES ASSUME NEW j \in Jobs PROVE HeldOnce(j)'
    BY Zenon
<1>1. HeldOnce(j)
    BY Zenon DEF Placed
<1>2. CASE Started(j)
  <2>1. HeldIn(j, {}, {}, {})
      BY <1>1, <1>2, Zenon DEF HeldOnce, Started
  <2>2. HeldIn(j, {}, {}, {})'
      BY <2>1, Zenon DEF HeldIn
  <2>3. job'[j] # "queued"
      BY <1>2, Zenon DEF Started
  <2> QED
      BY <2>2, <2>3, Zenon DEF HeldOnce
<1>3. CASE ~Started(j) /\ j \in Range(batch[w])
  <2>1. InBatch(j, w)
      BY <1>3, Zenon DEF InBatch
  <2>2. HeldIn(j, {}, {}, {w})
      BY <1>1, <2>1, Zenon DEF HeldOnce, HeldIn
  <2>3. HeldIn(j, {}, {}, {})'
      BY <2>2, Zenon DEF HeldIn
  <2>4. job'[j] # "queued"
      BY <1>3, Zenon
  <2> QED
      BY <2>3, <2>4, Zenon DEF HeldOnce
<1>4. CASE ~Started(j) /\ j \notin Range(batch[w])
  <2>1. job'[j] = job[j]
      BY <1>4, Zenon
  <2>2. \A v \in Workers : InBatch(j, v)' <=> InBatch(j, v)
      BY <1>4, Zenon DEF InBatch
  <2> QED
      BY <1>1, <2>1, <2>2, HeldSame, Zenon
<1> QED
    BY <1>2, <1>3, <1>4, Zenon

\* Every step keeps each request in its one place.
LEMMA HeldStep ==
    TypeOK /\ WorkerLabels /\ BatchShape /\ LeaderFree /\ Placed /\ [Next]_vars
        => (\A c \in Channels : NoRepeat(queue'[c])) /\ (\A j \in Jobs : HeldOnce(j)')
<1> SUFFICES ASSUME TypeOK, WorkerLabels, BatchShape, LeaderFree, Placed, [Next]_vars
             PROVE  (\A c \in Channels : NoRepeat(queue'[c])) /\ (\A j \in Jobs : HeldOnce(j)')
    BY Zenon
<1> DEFINE Goal == (\A c \in Channels : NoRepeat(queue'[c])) /\ (\A j \in Jobs : HeldOnce(j)')
<1> HIDE DEF Goal
<1>0. ASSUME queue' = queue, leader' = leader,
             \A j \in Jobs : job'[j] = "queued" <=> job[j] = "queued",
             \A j \in Jobs, w \in Workers : InBatch(j, w)' <=> InBatch(j, w)
      PROVE  Goal
    BY <1>0, HeldSame, Zenon DEF Goal, Placed
<1>1. ASSUME NEW w \in FiberWorkers, TakeLeader(w) PROVE Goal
  <2> DEFINE b == IF leader[w] = NoJob THEN <<>> ELSE <<leader[w]>>
  <2>1. /\ queue' = queue /\ job' = job /\ leader' = [leader EXCEPT ![w] = NoJob]
        /\ wpc[w] = "take" /\ batch[w] = <<>>
      BY <1>1, Zenon DEF TakeLeader, BatchShape
  <2>2. \A j \in Jobs, v \in FiberWorkers : leader'[v] = j <=> leader[v] = j /\ v # w
      BY Domains, WorkerFacts, <2>1, Zenon
  <2>3. Range(<<>>) = {} /\ Range(b) = (IF leader[w] = NoJob THEN {} ELSE {leader[w]})
      BY DEF Range
  <2>4. \/ leader[w] = Shutdown /\ Goto(w, "draining") /\ UNCHANGED batch
        \/ leader[w] # Shutdown /\ Goto(w, "fill") /\ batch' = [batch EXCEPT ![w] = b]
      BY <1>1, Zenon DEF TakeLeader
  <2> HIDE DEF b
  <2>5. \A j \in Jobs : j \in Range(b) <=> leader[w] = j
      BY WorkerFacts, <2>3, Zenon
  <2>6. \A j \in Jobs, v \in Workers : InBatch(j, v)' <=> InBatch(j, v) \/ (v = w /\ leader[w] = j)
      BY WorkerFacts, Domains, <2>1, <2>3, <2>4, <2>5, ZenonT(30) DEF InBatch, Goto
  <2>7. ASSUME NEW j \in Jobs, leader[w] # j PROVE HeldOnce(j)'
      BY <2>1, <2>2, <2>6, <2>7, HeldSame, Zenon DEF Placed
  <2>8. ASSUME NEW j \in Jobs, leader[w] = j PROVE HeldOnce(j)'
    <3>0. HeldOnce(j)
        BY Zenon DEF Placed
    <3>3. job[j] = "queued" /\ \E v \in FiberWorkers : HeldIn(j, {}, {v}, {})
        BY <2>8, <3>0, Zenon DEF HeldOnce, HeldIn
    <3>4. PICK u \in FiberWorkers : HeldIn(j, {}, {u}, {})
        BY <3>3, Zenon
    <3>5. u = w
        BY <2>8, <3>4, Zenon DEF HeldIn
    <3>1. HeldIn(j, {}, {w}, {}) /\ job[j] = "queued"
        BY <3>3, <3>4, <3>5, Zenon
    <3>2. HeldIn(j, {}, {}, {w})'
      <4>1. \A v \in Workers : InBatch(j, v)' <=> v = w
          BY <2>6, <2>8, <3>1, Zenon DEF HeldIn
      <4>2. \A v \in FiberWorkers : leader'[v] # j
          BY <2>2, <3>1, Zenon DEF HeldIn
      <4>3. \A c \in Channels : j \notin Range(queue'[c])
          BY <2>1, <3>1, Zenon DEF HeldIn
      <4> QED
          BY <4>1, <4>2, <4>3, Zenon DEF HeldIn
    <3> QED
        BY WorkerFacts, <2>1, <3>1, <3>2, Zenon DEF HeldOnce
  <2> QED
      BY <2>1, <2>7, <2>8, Zenon DEF Goal, Placed
<1>2. ASSUME NEW w \in FiberWorkers, FillBatch(w) PROVE Goal
  <2> DEFINE m == Head(queue[Chan(w)])
             b == Append(batch[w], m)
  <2>1. /\ queue[Chan(w)] # <<>> /\ Receive(Chan(w)) /\ job' = job /\ leader' = leader
        /\ wpc[w] = "fill" /\ batch' = [batch EXCEPT ![w] = b]
        /\ Goto(w, "schedule") \/ Goto(w, "fill")
      BY <1>2, Zenon DEF FillBatch, wakers
  <2>2. m \in Message
      BY WorkerFacts, Domains, <2>1, TailFacts, Zenon
  <2>3. Range(b) = Range(batch[w]) \cup {m}
      BY WorkerFacts, Domains, <2>2, AppendFacts, Zenon
  <2> HIDE DEF m, b
  <2>4. \A j \in Jobs, v \in Workers : InBatch(j, v)' <=> InBatch(j, v) \/ (v = w /\ j = m)
      BY WorkerFacts, Domains, <2>1, <2>3, ZenonT(30) DEF InBatch, Goto
  <2> QED
      BY WorkerFacts, <2>1, <2>4, ToBatch, Zenon DEF Goal, m
<1>3. ASSUME NEW w \in FiberWorkers, BatchFilled(w) PROVE Goal
  <2>1. wpc[w] # "app" /\ Goto(w, "schedule") /\ UNCHANGED <<queue, leader, job, batch>>
      BY <1>3, Zenon DEF BatchFilled, work, wakers
  <2> QED
      BY WorkerFacts, Domains, <1>0, <2>1, ZenonT(30) DEF InBatch, Goto
<1>4. ASSUME NEW w \in FiberWorkers, ScheduleBatch(w) PROVE Goal
  <2>1. /\ queue' = queue /\ leader' = leader /\ batch' = [batch EXCEPT ![w] = <<>>]
        /\ wpc[w] = "schedule" /\ (Goto(w, "draining") \/ Goto(w, "check"))
      BY <1>4, Zenon DEF ScheduleBatch
  <2>2. \A j \in Jobs : job'[j] = IF j \in Range(batch[w]) THEN "running" ELSE job[j]
      BY <1>4, Zenon DEF ScheduleBatch, Set
  <2>3. Range(<<>>) = {}
      BY DEF Range
  <2>4. \A j \in Jobs, v \in Workers : InBatch(j, v)' <=> InBatch(j, v) /\ v # w
      BY WorkerFacts, Domains, <2>1, <2>3, ZenonT(30) DEF InBatch, Goto
  <2> QED
      BY WorkerFacts, <2>1, <2>2, <2>4, FromBatch, ZenonT(30) DEF Goal, Placed
<1>5. ASSUME NEW w \in FiberWorkers, CheckEmpty(w) PROVE Goal
  <2>1. wpc[w] # "app" /\ (Goto(w, "signal") \/ Goto(w, "yielded")) /\ UNCHANGED <<queue, leader, job, batch>>
      BY <1>5, Zenon DEF CheckEmpty, work, wakers
  <2> QED
      BY WorkerFacts, Domains, <1>0, <2>1, ZenonT(30) DEF InBatch, Goto
<1>6. ASSUME NEW w \in FiberWorkers, SignalWaker(w) PROVE Goal
  <2>1. wpc[w] # "app" /\ Goto(w, "blocked") /\ UNCHANGED <<queue, leader, job, batch>>
      BY <1>6, Zenon DEF SignalWaker, work, wakers
  <2> QED
      BY WorkerFacts, Domains, <1>0, <2>1, ZenonT(30) DEF InBatch, Goto
<1>7. ASSUME NEW w \in FiberWorkers, Resume(w) PROVE Goal
  <2>1. wpc[w] # "app" /\ Goto(w, "take") /\ UNCHANGED <<queue, leader, job, batch>>
      BY <1>7, Zenon DEF Resume, work, wakers
  <2> QED
      BY WorkerFacts, Domains, <1>0, <2>1, ZenonT(30) DEF InBatch, Goto
<1>8. ASSUME NEW w \in FiberWorkers, SchedulerExits(w) PROVE Goal
  <2>1. wpc[w] # "app" /\ Goto(w, "dead") /\ UNCHANGED <<queue, leader, job, batch>>
      BY <1>8, Zenon DEF SchedulerExits, work, wakers
  <2> QED
      BY WorkerFacts, Domains, <1>0, <2>1, ZenonT(30) DEF InBatch, Goto
<1>9. ASSUME NEW w \in FiberWorkers, FiberAnswers(w) PROVE Goal
  <2>1. \A j \in Jobs : job'[j] = "queued" <=> job[j] = "queued"
      BY <1>9, Zenon DEF FiberAnswers, Set, Placed, Started
  <2>2. \A j \in Jobs, v \in Workers : InBatch(j, v)' <=> InBatch(j, v)
      BY <1>9, Zenon DEF FiberAnswers, InBatch
  <2> QED
      BY <1>9, <1>0, <2>1, <2>2, Zenon DEF FiberAnswers, wakers
<1>10. ASSUME NEW w \in FiberWorkers, WakerReceives(w) PROVE Goal
    BY <1>10, ToLeader, Zenon DEF Goal
<1>11. ASSUME NEW w \in ThreadWorkers, RecvBlocking(w) PROVE Goal
  <2> DEFINE m == Head(queue[Chan(w)])
  <2>1. /\ queue[Chan(w)] # <<>> /\ Receive(Chan(w)) /\ job' = job /\ leader' = leader
        /\ wpc[w] # "app" /\ batch[w] = <<>>
      BY <1>11, WorkerFacts, Zenon DEF RecvBlocking, wakers, BatchShape
  <2>2. \/ m = Shutdown /\ Goto(w, "dead") /\ UNCHANGED batch
        \/ m # Shutdown /\ Goto(w, "process") /\ batch' = [batch EXCEPT ![w] = <<m>>]
      BY <1>11, Zenon DEF RecvBlocking
  <2>3. Range(<<>>) = {} /\ Range(<<m>>) = {m}
      BY DEF Range
  <2> HIDE DEF m
  <2>5. \A v \in Workers : v # w => wpc'[v] = wpc[v] /\ batch'[v] = batch[v]
      BY Domains, <2>2, Zenon DEF Goto
  <2>6. wpc'[w] # "app" /\ batch'[w] = IF m = Shutdown THEN <<>> ELSE <<m>>
      BY WorkerFacts, Domains, <2>1, <2>2, Zenon DEF Goto
  <2>7. \A j \in Jobs : j # Shutdown
      BY WorkerFacts, Zenon
  <2>4. \A j \in Jobs, v \in Workers : InBatch(j, v)' <=> InBatch(j, v) \/ (v = w /\ j = m)
    <3>1. \A j \in Jobs, v \in Workers : v # w => (InBatch(j, v)' <=> InBatch(j, v))
        BY <2>5, Zenon DEF InBatch
    <3>2. \A j \in Jobs : ~InBatch(j, w)
        BY <2>1, <2>3, Zenon DEF InBatch
    <3>3. \A j \in Jobs : InBatch(j, w)' <=> j = m
        BY <2>3, <2>6, <2>7, Zenon DEF InBatch
    <3> QED
        BY <3>1, <3>2, <3>3, Zenon
  <2> QED
      BY WorkerFacts, <2>1, <2>4, ToBatch, Zenon DEF Goal, m
<1>12. ASSUME NEW w \in ThreadWorkers, ProcessOne(w) PROVE Goal
  <2>1. /\ queue' = queue /\ leader' = leader /\ wpc[w] = "process"
        /\ \/ Goto(w, "drain") /\ batch' = [batch EXCEPT ![w] = <<>>]
           \/ Goto(w, "app") /\ batch' = batch
      BY <1>12, Zenon DEF ProcessOne, wakers
  <2>2. PICK m \in Jobs : batch[w] = <<m>>
      BY <2>1, Zenon DEF BatchShape
  <2>3. Range(<<m>>) = {m} /\ Head(<<m>>) = m /\ Range(<<>>) = {}
      BY DEF Range
  <2>4. \A j \in Jobs : IF j \in Range(batch[w]) THEN job'[j] \notin {"new", "queued"}
                                                ELSE job'[j] = job[j]
      BY <1>12, <2>2, <2>3, Zenon DEF ProcessOne, Set
  <2>5. \A j \in Jobs, v \in Workers : InBatch(j, v)' <=> InBatch(j, v) /\ v # w
      BY WorkerFacts, Domains, <2>1, <2>3, ZenonT(30) DEF InBatch, Goto
  <2> QED
      BY WorkerFacts, <2>1, <2>4, <2>5, FromBatch, ZenonT(30) DEF Goal, Placed
<1>13. ASSUME NEW w \in ThreadWorkers, AppReturns(w) PROVE Goal
  <2>1. PICK m \in Jobs : batch[w] = <<m>>
      BY <1>13, Zenon DEF AppReturns, BatchShape
  <2>2. Range(<<m>>) = {m} /\ Head(<<m>>) = m /\ Range(<<>>) = {}
      BY DEF Range
  <2>3. Started(m)
      BY <1>13, <2>1, <2>2, Zenon DEF AppReturns, Placed
  <2>4. \A j \in Jobs : job'[j] = "queued" <=> job[j] = "queued"
      BY <1>13, <2>1, <2>2, <2>3, Zenon DEF AppReturns, Set, Started
  <2>5. \A j \in Jobs, v \in Workers : InBatch(j, v)' <=> InBatch(j, v)
      BY WorkerFacts, Domains, <1>13, <2>2, ZenonT(30) DEF AppReturns, InBatch, Goto
  <2> QED
      BY <1>13, <1>0, <2>4, <2>5, Zenon DEF AppReturns, wakers
<1>14. ASSUME NEW w \in ThreadWorkers, DrainNext(w) PROVE Goal
  <2> DEFINE m == Head(queue[Chan(w)])
  <2>1. /\ queue[Chan(w)] # <<>> /\ Receive(Chan(w)) /\ job' = job /\ leader' = leader
        /\ wpc[w] # "app" /\ batch[w] = <<>>
      BY <1>14, WorkerFacts, Zenon DEF DrainNext, wakers, BatchShape
  <2>2. \/ m = Shutdown /\ Goto(w, "check") /\ UNCHANGED batch
        \/ m # Shutdown /\ Goto(w, "process") /\ batch' = [batch EXCEPT ![w] = <<m>>]
      BY <1>14, Zenon DEF DrainNext
  <2>3. Range(<<>>) = {} /\ Range(<<m>>) = {m}
      BY DEF Range
  <2> HIDE DEF m
  <2>5. \A v \in Workers : v # w => wpc'[v] = wpc[v] /\ batch'[v] = batch[v]
      BY Domains, <2>2, Zenon DEF Goto
  <2>6. wpc'[w] # "app" /\ batch'[w] = IF m = Shutdown THEN <<>> ELSE <<m>>
      BY WorkerFacts, Domains, <2>1, <2>2, Zenon DEF Goto
  <2>7. \A j \in Jobs : j # Shutdown
      BY WorkerFacts, Zenon
  <2>4. \A j \in Jobs, v \in Workers : InBatch(j, v)' <=> InBatch(j, v) \/ (v = w /\ j = m)
    <3>1. \A j \in Jobs, v \in Workers : v # w => (InBatch(j, v)' <=> InBatch(j, v))
        BY <2>5, Zenon DEF InBatch
    <3>2. \A j \in Jobs : ~InBatch(j, w)
        BY <2>1, <2>3, Zenon DEF InBatch
    <3>3. \A j \in Jobs : InBatch(j, w)' <=> j = m
        BY <2>3, <2>6, <2>7, Zenon DEF InBatch
    <3> QED
        BY <3>1, <3>2, <3>3, Zenon
  <2> QED
      BY WorkerFacts, <2>1, <2>4, ToBatch, Zenon DEF Goal, m
<1>15. ASSUME NEW w \in ThreadWorkers, DrainEmpty(w) PROVE Goal
  <2>1. wpc[w] # "app" /\ Goto(w, "check") /\ UNCHANGED <<queue, leader, job, batch>>
      BY <1>15, Zenon DEF DrainEmpty, work, wakers
  <2> QED
      BY WorkerFacts, Domains, <1>0, <2>1, ZenonT(30) DEF InBatch, Goto
<1>16. ASSUME NEW w \in ThreadWorkers, CheckTerminated(w) PROVE Goal
  <2>1. wpc[w] # "app" /\ (Goto(w, "dead") \/ Goto(w, "recv")) /\ UNCHANGED <<queue, leader, job, batch>>
      BY <1>16, Zenon DEF CheckTerminated, work, wakers
  <2> QED
      BY WorkerFacts, Domains, <1>0, <2>1, ZenonT(30) DEF InBatch, Goto
<1>17. ASSUME NEW w \in Workers, ThreadKilled(w) PROVE Goal
  <2>1. \A j \in Jobs : j \in Range(batch[w]) => job'[j] = "dropped"
      BY <1>17, Zenon DEF ThreadKilled, Set, Held
  <2>2. \A j \in Jobs : j \notin Range(batch[w]) => job'[j] = job[j] \/ (Started(j) /\ Started(j)')
      BY <1>17, Zenon DEF ThreadKilled, Set, Held, Placed, Started
  <2>3. Range(<<>>) = {}
      BY DEF Range
  <2>4. \A j \in Jobs, v \in Workers : InBatch(j, v)' <=> InBatch(j, v) /\ v # w
      BY Domains, <1>17, <2>3, ZenonT(30) DEF ThreadKilled, InBatch, Goto
  <2>5. wpc[w] = "app" => \A j \in Range(batch[w]) : Started(j)
      BY WorkerFacts, Zenon DEF Placed, WorkerLabels
  <2>6. queue' = queue /\ leader' = leader
      BY <1>17, Zenon DEF ThreadKilled, wakers
  <2> QED
      BY <2>1, <2>2, <2>4, <2>5, <2>6, FromBatch, ZenonT(30) DEF Goal, Placed
<1>18. ASSUME NEW j \in Jobs, Submit(j) PROVE Goal
  <2>1. PICK c \in Channels : Send(c, j)
      BY <1>18, Zenon DEF Submit
  <2>2. /\ \A i \in Jobs : job'[i] = IF i = j THEN "queued" ELSE job[i]
        /\ job[j] = "new" /\ leader' = leader
        /\ \A i \in Jobs, v \in Workers : InBatch(i, v)' <=> InBatch(i, v)
      BY <1>18, Zenon DEF Submit, Set, InBatch, wakers
  <2>3. HeldIn(j, {}, {}, {})
      BY <2>2, Zenon DEF Placed, HeldOnce
  <2>4. queue[c] \in Seq(Message) /\ j \in Message /\ j \notin Range(queue[c])
      BY WorkerFacts, <2>3, Zenon DEF TypeOK, HeldIn
  <2>5. NoRepeat(Append(queue[c], j)) /\ Range(Append(queue[c], j)) = Range(queue[c]) \cup {j}
      BY <2>4, AppendFacts, Zenon DEF Placed
  <2>6. queue'[c] = Append(queue[c], j) /\ \A d \in Channels : d # c => queue'[d] = queue[d]
      BY Domains, <2>1, Zenon DEF Send
  <2>7. \A d \in Channels : NoRepeat(queue'[d])
      BY <2>5, <2>6, Zenon DEF Placed
  <2>8. ASSUME NEW i \in Jobs, i # j PROVE HeldOnce(i)'
    <3>1. \A d \in Channels : i \in Range(queue'[d]) <=> i \in Range(queue[d])
        BY <2>5, <2>6, <2>8, Zenon
    <3> QED
        BY <2>2, <2>8, <3>1, HeldSame, Zenon DEF Placed
  <2>9. HeldIn(j, {c}, {}, {})'
      BY <2>2, <2>3, <2>5, <2>6, Zenon DEF HeldIn
  <2>10. HeldOnce(j)'
      BY <2>2, <2>9, Zenon DEF HeldOnce
  <2> QED
      BY <2>7, <2>8, <2>10, Zenon DEF Goal
<1>19. ASSUME NEW j \in Jobs, Reject(j) PROVE Goal
  <2>1. \A i \in Jobs : job'[i] = "queued" <=> job[i] = "queued"
      BY <1>19, Zenon DEF Reject, Set
  <2>2. \A i \in Jobs, v \in Workers : InBatch(i, v)' <=> InBatch(i, v)
      BY <1>19, Zenon DEF Reject, InBatch
  <2> QED
      BY <1>19, <1>0, <2>1, <2>2, Zenon DEF Reject, wakers
<1>20. ASSUME SendShutdown PROVE Goal
  <2>1. PICK c \in Channels : Send(c, Shutdown)
      BY WorkerFacts, <1>20, Zenon DEF SendShutdown
  <2>2. /\ job' = job /\ leader' = leader
        /\ \A i \in Jobs, v \in Workers : InBatch(i, v)' <=> InBatch(i, v)
      BY <1>20, Zenon DEF SendShutdown, InBatch, wakers
  <2>3. queue[c] \in Seq(Message) /\ Shutdown \in Message /\ \A j \in Jobs : j # Shutdown
      BY WorkerFacts, Zenon DEF TypeOK
  <2>4. /\ NoRepeat(Append(queue[c], Shutdown))
        /\ Range(Append(queue[c], Shutdown)) = Range(queue[c]) \cup {Shutdown}
      BY <2>3, AppendFacts, Zenon DEF Placed
  <2>5. queue'[c] = Append(queue[c], Shutdown) /\ \A d \in Channels : d # c => queue'[d] = queue[d]
      BY Domains, <2>1, Zenon DEF Send
  <2>6. \A d \in Channels : NoRepeat(queue'[d])
      BY <2>4, <2>5, Zenon DEF Placed
  <2>7. \A j \in Jobs, d \in Channels : j \in Range(queue'[d]) <=> j \in Range(queue[d])
      BY <2>3, <2>4, <2>5, Zenon
  <2> QED
      BY <2>2, <2>6, <2>7, HeldSame, Zenon DEF Goal, Placed
<1>21. ASSUME \/ \E w \in FiberWorkers : WakerSeesChange(w) \/ WakerUnblocks(w)
              \/ \E w \in Workers : PollShutdown(w)
              \/ StopAccepting \/ Join \/ AllSent \/ DeadlinePasses \/ AllStopped \/ UNCHANGED vars
       PROVE  Goal
  <2>1. UNCHANGED <<queue, job, leader, wpc, batch>>
      BY <1>21, Zenon DEF WakerSeesChange, WakerUnblocks, PollShutdown, StopAccepting,
         Join, AllSent, DeadlinePasses, AllStopped, vars, work, wakers
  <2> QED
      BY <2>1, <1>0, Zenon DEF InBatch
<1>22. Goal
    BY <1>1, <1>2, <1>3, <1>4, <1>5, <1>6, <1>7, <1>8, <1>9, <1>10, <1>11, <1>12, <1>13,
       <1>14, <1>15, <1>16, <1>17, <1>18, <1>19, <1>20, <1>21,
       Zenon DEF Next, ThreadStep, FiberStep, WakerStep, MainStep
<1> QED
    BY <1>22, Zenon DEF Goal

\* A request that has been started is never queued again.
LEMMA StartedKept == [Next]_vars => \A j \in Jobs : Started(j) => Started(j)'
<1> SUFFICES ASSUME [Next]_vars, NEW i \in Jobs, Started(i) PROVE Started(i)'
    BY Zenon
<1>1. ASSUME NEW w \in FiberWorkers, ScheduleBatch(w) PROVE Started(i)'
    BY <1>1, Zenon DEF ScheduleBatch, Set, Started
<1>2. ASSUME NEW w \in FiberWorkers, FiberAnswers(w) PROVE Started(i)'
    BY <1>2, Zenon DEF FiberAnswers, Set, Started
<1>3. ASSUME NEW w \in ThreadWorkers, ProcessOne(w) PROVE Started(i)'
    BY <1>3, Zenon DEF ProcessOne, Set, Started
<1>4. ASSUME NEW w \in ThreadWorkers, AppReturns(w) PROVE Started(i)'
    BY <1>4, Zenon DEF AppReturns, Set, Started
<1>5. ASSUME NEW w \in Workers, ThreadKilled(w) PROVE Started(i)'
    BY <1>5, Zenon DEF ThreadKilled, Set, Started
<1>6. ASSUME NEW j \in Jobs, Submit(j) PROVE Started(i)'
    BY <1>6, Zenon DEF Submit, Set, Started
<1>7. ASSUME NEW j \in Jobs, Reject(j) PROVE Started(i)'
    BY <1>7, Zenon DEF Reject, Set, Started
<1>8. CASE \/ \E w \in ThreadWorkers : RecvBlocking(w) \/ DrainNext(w) \/ DrainEmpty(w) \/ CheckTerminated(w)
           \/ \E w \in FiberWorkers : TakeLeader(w) \/ FillBatch(w) \/ BatchFilled(w) \/ CheckEmpty(w) \/ SignalWaker(w) \/ Resume(w) \/ SchedulerExits(w) \/ WakerSeesChange(w) \/ WakerReceives(w) \/ WakerUnblocks(w)
           \/ \E w \in Workers : PollShutdown(w)
           \/ StopAccepting \/ Join \/ SendShutdown \/ AllSent \/ DeadlinePasses \/ AllStopped \/ UNCHANGED vars
  <2>1. UNCHANGED <<job>>
      BY <1>8, Zenon DEF TakeLeader, FillBatch, BatchFilled, CheckEmpty, SignalWaker,
         Resume, SchedulerExits, WakerSeesChange, WakerReceives, WakerUnblocks,
         RecvBlocking, DrainNext, DrainEmpty, CheckTerminated, PollShutdown, StopAccepting,
         Join, SendShutdown, AllSent, DeadlinePasses, AllStopped, vars, work, wakers
  <2> QED
      BY <2>1, Zenon DEF Started
<1> QED
    BY <1>1, <1>2, <1>3, <1>4, <1>5, <1>6, <1>7, <1>8,
       Zenon DEF Next, ThreadStep, FiberStep, WakerStep, MainStep

\* Every step keeps the requests in their places, and runs what it has started.
LEMMA PlacedStep ==
    TypeOK /\ WorkerLabels /\ BatchShape /\ LeaderFree /\ Placed /\ [Next]_vars => Placed'
<1> SUFFICES ASSUME TypeOK, WorkerLabels, BatchShape, LeaderFree, Placed, [Next]_vars
             PROVE  Placed'
    BY Zenon
<1> DEFINE Run == /\ \A w \in ThreadWorkers : wpc[w] = "app" => \A j \in Range(batch[w]) : Started(j)
                  /\ \A w \in FiberWorkers : \A j \in fibers[w] : Started(j)
<1>0. /\ \A w \in ThreadWorkers : wpc[w] = "app" => \A j \in Range(batch[w]) : Started(j)'
      /\ \A w \in FiberWorkers : \A j \in fibers[w] : Started(j)'
  <2>1. \A w \in ThreadWorkers : wpc[w] = "app" => Range(batch[w]) \subseteq Jobs
    <3>1. \A j \in Jobs : Range(<<j>>) = {j}
        BY DEF Range
    <3> QED
        BY <3>1, Zenon DEF BatchShape
  <2>2. \A w \in FiberWorkers : fibers[w] \subseteq Jobs
      BY Zenon DEF TypeOK
  <2> QED
      BY <2>1, <2>2, StartedKept, Zenon DEF Placed
<1> HIDE DEF Run
<1>1. ASSUME NEW w \in FiberWorkers, TakeLeader(w) PROVE Run'
  <2>1. fibers' = fibers /\ \A v \in ThreadWorkers : wpc'[v] = wpc[v] /\ batch'[v] = batch[v]
      BY WorkerFacts, Domains, <1>1, ZenonT(30) DEF TakeLeader, Goto, work
  <2> QED
      BY <1>0, <2>1, Zenon DEF Run
<1>2. ASSUME NEW w \in FiberWorkers, FillBatch(w) PROVE Run'
  <2>1. fibers' = fibers /\ \A v \in ThreadWorkers : wpc'[v] = wpc[v] /\ batch'[v] = batch[v]
      BY WorkerFacts, Domains, <1>2, ZenonT(30) DEF FillBatch, Goto, work
  <2> QED
      BY <1>0, <2>1, Zenon DEF Run
<1>3. ASSUME NEW w \in FiberWorkers, BatchFilled(w) PROVE Run'
  <2>1. fibers' = fibers /\ \A v \in ThreadWorkers : wpc'[v] = wpc[v] /\ batch'[v] = batch[v]
      BY WorkerFacts, Domains, <1>3, ZenonT(30) DEF BatchFilled, Goto, work
  <2> QED
      BY <1>0, <2>1, Zenon DEF Run
<1>4. ASSUME NEW w \in FiberWorkers, ScheduleBatch(w) PROVE Run'
  <2>1. \A j \in Jobs : j \in Range(batch[w]) => Started(j)'
      BY <1>4, Zenon DEF ScheduleBatch, Set, Started
  <2>2. \A s \in Seq(Message) : Range(s) \subseteq Message
      BY DEF Range
  <2>3. \A j \in Range(batch[w]) \ {Shutdown} : Started(j)'
      BY WorkerFacts, Domains, <2>1, <2>2, Zenon DEF Message
  <2>4. \A v \in ThreadWorkers : wpc'[v] = wpc[v] /\ batch'[v] = batch[v]
      BY WorkerFacts, Domains, <1>4, ZenonT(30) DEF ScheduleBatch, Goto
  <2>5. fibers' = [fibers EXCEPT ![w] = fibers[w] \cup (Range(batch[w]) \ {Shutdown})]
      BY <1>4, Zenon DEF ScheduleBatch
  <2>6. \A v \in FiberWorkers : \A j \in fibers'[v] : Started(j)'
      BY Domains, <1>0, <2>3, <2>5, Zenon
  <2> QED
      BY <1>0, <2>4, <2>6, Zenon DEF Run
<1>5. ASSUME NEW w \in FiberWorkers, CheckEmpty(w) PROVE Run'
  <2>1. fibers' = fibers /\ \A v \in ThreadWorkers : wpc'[v] = wpc[v] /\ batch'[v] = batch[v]
      BY WorkerFacts, Domains, <1>5, ZenonT(30) DEF CheckEmpty, Goto, work
  <2> QED
      BY <1>0, <2>1, Zenon DEF Run
<1>6. ASSUME NEW w \in FiberWorkers, SignalWaker(w) PROVE Run'
  <2>1. fibers' = fibers /\ \A v \in ThreadWorkers : wpc'[v] = wpc[v] /\ batch'[v] = batch[v]
      BY WorkerFacts, Domains, <1>6, ZenonT(30) DEF SignalWaker, Goto, work
  <2> QED
      BY <1>0, <2>1, Zenon DEF Run
<1>7. ASSUME NEW w \in FiberWorkers, Resume(w) PROVE Run'
  <2>1. fibers' = fibers /\ \A v \in ThreadWorkers : wpc'[v] = wpc[v] /\ batch'[v] = batch[v]
      BY WorkerFacts, Domains, <1>7, ZenonT(30) DEF Resume, Goto, work
  <2> QED
      BY <1>0, <2>1, Zenon DEF Run
<1>8. ASSUME NEW w \in FiberWorkers, SchedulerExits(w) PROVE Run'
  <2>1. fibers' = fibers /\ \A v \in ThreadWorkers : wpc'[v] = wpc[v] /\ batch'[v] = batch[v]
      BY WorkerFacts, Domains, <1>8, ZenonT(30) DEF SchedulerExits, Goto, work
  <2> QED
      BY <1>0, <2>1, Zenon DEF Run
<1>9. ASSUME NEW w \in FiberWorkers, FiberAnswers(w) PROVE Run'
  <2>1. /\ \A v \in ThreadWorkers : wpc'[v] = "app" => wpc[v] = "app" /\ batch'[v] = batch[v]
        /\ \A v \in FiberWorkers : fibers'[v] \subseteq fibers[v]
      BY WorkerFacts, Domains, <1>9, ZenonT(30) DEF FiberAnswers
  <2> QED
      BY <1>0, <2>1, Zenon DEF Run
<1>10. ASSUME NEW w \in ThreadWorkers, RecvBlocking(w) PROVE Run'
  <2>1. /\ \A v \in ThreadWorkers : wpc'[v] = "app" => wpc[v] = "app" /\ batch'[v] = batch[v]
        /\ \A v \in FiberWorkers : fibers'[v] \subseteq fibers[v]
      BY WorkerFacts, Domains, <1>10, ZenonT(30) DEF RecvBlocking, Goto
  <2> QED
      BY <1>0, <2>1, Zenon DEF Run
<1>11. ASSUME NEW w \in ThreadWorkers, ProcessOne(w) PROVE Run'
  <2>1. PICK m \in Jobs : batch[w] = <<m>>
      BY <1>11, Zenon DEF ProcessOne, BatchShape
  <2>2. Range(<<m>>) = {m} /\ Head(<<m>>) = m
      BY DEF Range
  <2>3. Started(m)'
      BY <1>11, <2>1, <2>2, Zenon DEF ProcessOne, Set, Started
  <2>4. /\ fibers' = fibers
        /\ \A v \in ThreadWorkers : v # w => wpc'[v] = wpc[v] /\ batch'[v] = batch[v]
        /\ wpc'[w] = "app" => batch' = batch
      BY WorkerFacts, Domains, <1>11, Zenon DEF ProcessOne, Goto
  <2> QED
      BY <1>0, <2>1, <2>2, <2>3, <2>4, Zenon DEF Run
<1>12. ASSUME NEW w \in ThreadWorkers, AppReturns(w) PROVE Run'
  <2>1. /\ \A v \in ThreadWorkers : wpc'[v] = "app" => wpc[v] = "app" /\ batch'[v] = batch[v]
        /\ \A v \in FiberWorkers : fibers'[v] \subseteq fibers[v]
      BY WorkerFacts, Domains, <1>12, ZenonT(30) DEF AppReturns, Goto
  <2> QED
      BY <1>0, <2>1, Zenon DEF Run
<1>13. ASSUME NEW w \in ThreadWorkers, DrainNext(w) PROVE Run'
  <2>1. /\ \A v \in ThreadWorkers : wpc'[v] = "app" => wpc[v] = "app" /\ batch'[v] = batch[v]
        /\ \A v \in FiberWorkers : fibers'[v] \subseteq fibers[v]
      BY WorkerFacts, Domains, <1>13, ZenonT(30) DEF DrainNext, Goto
  <2> QED
      BY <1>0, <2>1, Zenon DEF Run
<1>14. ASSUME NEW w \in ThreadWorkers, DrainEmpty(w) PROVE Run'
  <2>1. /\ fibers' = fibers /\ batch' = batch
        /\ \A v \in ThreadWorkers : wpc'[v] = "app" => wpc[v] = "app"
      BY WorkerFacts, Domains, <1>14, ZenonT(30) DEF DrainEmpty, Goto, work
  <2> QED
      BY <1>0, <2>1, Zenon DEF Run
<1>15. ASSUME NEW w \in ThreadWorkers, CheckTerminated(w) PROVE Run'
  <2>1. /\ fibers' = fibers /\ batch' = batch
        /\ \A v \in ThreadWorkers : wpc'[v] = "app" => wpc[v] = "app"
      BY WorkerFacts, Domains, <1>15, ZenonT(30) DEF CheckTerminated, Goto, work
  <2> QED
      BY <1>0, <2>1, Zenon DEF Run
<1>16. ASSUME NEW w \in Workers, ThreadKilled(w) PROVE Run'
  <2>1. /\ \A v \in ThreadWorkers : wpc'[v] = "app" => wpc[v] = "app" /\ batch'[v] = batch[v]
        /\ \A v \in FiberWorkers : fibers'[v] \subseteq fibers[v]
      BY WorkerFacts, Domains, <1>16, ZenonT(30) DEF ThreadKilled, Goto
  <2> QED
      BY <1>0, <2>1, Zenon DEF Run
<1>17. ASSUME \/ \E j \in Jobs : Submit(j) \/ Reject(j)
              \/ \E w \in FiberWorkers : WakerSeesChange(w) \/ WakerReceives(w) \/ WakerUnblocks(w)
              \/ \E w \in Workers : PollShutdown(w)
              \/ StopAccepting \/ Join \/ SendShutdown \/ AllSent \/ DeadlinePasses \/ AllStopped \/ UNCHANGED vars
       PROVE  Run'
  <2>1. UNCHANGED <<wpc, batch, fibers>>
      BY <1>17, Zenon DEF WakerSeesChange, WakerReceives, WakerUnblocks, PollShutdown,
         Submit, Reject, StopAccepting, Join, SendShutdown, AllSent, DeadlinePasses,
         AllStopped, vars, work, wakers
  <2> QED
      BY <1>0, <2>1, Zenon DEF Run
<1>18. Run'
    BY <1>1, <1>2, <1>3, <1>4, <1>5, <1>6, <1>7, <1>8, <1>9, <1>10, <1>11, <1>12, <1>13,
       <1>14, <1>15, <1>16, <1>17,
       Zenon DEF Next, ThreadStep, FiberStep, WakerStep, MainStep
<1> QED
    BY <1>18, HeldStep, Zenon DEF Run, Placed

\* A request held in one slot is in one place.
LEMMA PlacedOnce == TypeOK /\ Placed => JobInOnePlace
<1> SUFFICES ASSUME TypeOK, Placed, NEW j \in Jobs
             PROVE  Cardinality(Places(j)) = IF job[j] = "queued" THEN 1 ELSE 0
    BY Zenon DEF JobInOnePlace
<1>1. HeldOnce(j) /\ j # Shutdown
    BY WorkerFacts, Zenon DEF Placed
<1> DEFINE Q == UNION {{<<c, i>> : i \in {k \in DOMAIN queue[c] : queue[c][k] = j}} : c \in Channels}
           L == {v \in FiberWorkers : leader[v] = j}
           B == {v \in Workers : wpc[v] # "app" /\ j \in Range(batch[v])}
<1>0. Places(j) = Q \cup {<<"leader", w>> : w \in L} \cup {<<"batch", w>> : w \in B}
    BY Zenon DEF Places
<1>2. ASSUME HeldIn(j, {}, {}, {}) PROVE Places(j) = {}
  <2>1. \A c \in Channels : \A k \in DOMAIN queue[c] : queue[c][k] # j
      BY <1>2, Zenon DEF HeldIn, Range
  <2> QED
      BY <1>2, <2>1, Zenon DEF HeldIn, InBatch, Places
<1>3. ASSUME NEW c \in Channels, HeldIn(j, {c}, {}, {}) PROVE \E p : Places(j) = {p}
  <2>1. PICK i \in DOMAIN queue[c] : queue[c][i] = j
      BY <1>3, Zenon DEF HeldIn, Range
  <2>2. \A k \in DOMAIN queue[c] : queue[c][k] = j => k = i
      BY <1>1, <2>1, Zenon DEF Placed, NoRepeat
  <2>3. \A d \in Channels : d # c => \A k \in DOMAIN queue[d] : queue[d][k] # j
      BY <1>3, Zenon DEF HeldIn, Range
  <2>4. Q = {<<c, i>>}
    <3>1. <<c, i>> \in Q
      <4>1. <<c, i>> \in {<<c, k>> : k \in {l \in DOMAIN queue[c] : queue[c][l] = j}}
          BY <2>1, Zenon
      <4> QED
          BY <4>1, Zenon
    <3>2. ASSUME NEW p \in Q PROVE p = <<c, i>>
      <4>1. PICK d \in Channels : p \in {<<d, k>> : k \in {l \in DOMAIN queue[d] : queue[d][l] = j}}
          BY Zenon
      <4>2. PICK k \in DOMAIN queue[d] : queue[d][k] = j /\ p = <<d, k>>
          BY <4>1, Zenon
      <4>3. d = c /\ k = i
          BY <2>2, <2>3, <4>2, Zenon
      <4> QED
          BY <4>2, <4>3, Zenon
    <3> HIDE DEF Q
    <3> QED
        BY <3>1, <3>2, Zenon
  <2>5. L = {} /\ B = {}
      BY <1>3, Zenon DEF HeldIn, InBatch
  <2> HIDE DEF Q, L, B
  <2>6. Places(j) = {<<c, i>>}
      BY <1>0, <2>4, <2>5, Zenon
  <2> QED
      BY <2>6, Zenon
<1>4. ASSUME NEW w \in FiberWorkers, HeldIn(j, {}, {w}, {}) PROVE \E p : Places(j) = {p}
  <2>1. \A c \in Channels : \A k \in DOMAIN queue[c] : queue[c][k] # j
      BY <1>4, Zenon DEF HeldIn, Range
  <2>2. Q = {} /\ L = {w} /\ B = {}
      BY <1>4, <2>1, Zenon DEF HeldIn, InBatch
  <2> HIDE DEF Q, L, B
  <2>3. Places(j) = {<<"leader", w>>}
      BY <1>0, <2>2, Zenon
  <2> QED
      BY <2>3, Zenon
<1>5. ASSUME NEW w \in Workers, HeldIn(j, {}, {}, {w}) PROVE \E p : Places(j) = {p}
  <2>1. \A c \in Channels : \A k \in DOMAIN queue[c] : queue[c][k] # j
      BY <1>5, Zenon DEF HeldIn, Range
  <2>2. Q = {} /\ L = {} /\ B = {w}
      BY <1>5, <2>1, Zenon DEF HeldIn, InBatch
  <2> HIDE DEF Q, L, B
  <2>3. Places(j) = {<<"batch", w>>}
      BY <1>0, <2>2, Zenon
  <2> QED
      BY <2>3, Zenon
<1>6. CASE job[j] = "queued"
  <2>1. \E p : Places(j) = {p}
      BY <1>1, <1>3, <1>4, <1>5, <1>6, Zenon DEF HeldOnce
  <2> QED
      BY <1>6, <2>1, FS_Singleton, Zenon
<1>7. CASE job[j] # "queued"
  <2>1. Places(j) = {}
      BY <1>1, <1>2, <1>7, Zenon DEF HeldOnce
  <2> QED
      BY <1>7, <2>1, FS_EmptySet, Zenon
<1> QED
    BY <1>6, <1>7, Zenon

\* What the following theorems rest on.
PoolInv == IInv /\ TypeOK /\ WorkerLabels /\ BatchShape /\ TerminatedLate /\ LeaderFree /\ Placed

\* It holds initially, and every step keeps it.
LEMMA PoolInvHolds == (Init => PoolInv) /\ (PoolInv /\ [Next]_vars => PoolInv')
<1>1. ASSUME Init PROVE PoolInv
  <2>1. IInv
      BY <1>1, PoolAssumption DEF Init, IInv, SharedTypes, StopsLast, Handshake, Workers
  <2>2. <<>> \in Seq(Message) /\ Range(<<>>) = {} /\ DOMAIN <<>> = {} /\ 0 \in Nat
      BY DEF Range
  <2>3. TypeOK
      BY <1>1, <2>2, Zenon DEF Init, TypeOK
  <2>4. WorkerLabels /\ BatchShape
      BY <1>1, WorkerFacts, <2>2, ZenonT(30) DEF Init, WorkerLabels, BatchShape
  <2>5. TerminatedLate /\ LeaderFree
      BY <1>1, Zenon DEF Init, TerminatedLate, LeaderFree, Expects
  <2>6. \A j \in Jobs : HeldIn(j, {}, {}, {})
      BY <1>1, WorkerFacts, <2>2, Zenon DEF Init, HeldIn, InBatch
  <2>7. Placed
      BY <1>1, WorkerFacts, <2>2, <2>6, ZenonT(30) DEF Init, Placed, HeldOnce, NoRepeat
  <2> QED
      BY <2>1, <2>3, <2>4, <2>5, <2>7, Zenon DEF PoolInv
<1>2. PoolInv /\ [Next]_vars => PoolInv'
    BY TypesStep, StopsStep, HandshakeStep, PoolTypesStep, BatchShapeStep, TerminatedStep,
       LeaderFreeStep, PlacedStep, Zenon DEF PoolInv, IInv
<1> QED
    BY <1>1, <1>2, Zenon

\* Requests are neither lost nor handed to two workers, whatever the threads,
\* the wakers and the shutdown do: one that was accepted and not yet started is
\* in exactly one channel, leader or batch, any other in none.
THEOREM JobInOnePlaceCorrect == Spec => []JobInOnePlace
<1>1. PoolInv => JobInOnePlace
    BY PlacedOnce, Zenon DEF PoolInv
<1> QED
    BY <1>1, PoolInvHolds, PTL DEF Spec

\* Before the shutdown deadline no worker refuses or drops a request that was
\* accepted: the 503 of a terminated worker is never met in time.
THEOREM RefusedOnlyLateCorrect == Spec => RefusedOnlyLate
<1> DEFINE Step == \A j \in Jobs : job[j] = "queued" /\ job'[j] \in {"unavailable", "dropped"} => late
<1>1. PoolInv /\ [Next]_vars => [Step]_vars
  <2> SUFFICES ASSUME PoolInv, [Next]_vars, NEW i \in Jobs, job[i] = "queued",
                      job'[i] \in {"unavailable", "dropped"}
               PROVE  late
      BY Zenon
  <2>1. ASSUME NEW w \in ThreadWorkers, ProcessOne(w) PROVE late
    <3>1. terminated[w] /\ wpc[w] = "process"
        BY <2>1, Zenon DEF ProcessOne, Set
    <3> QED
        BY WorkerFacts, <3>1, Zenon DEF PoolInv, TerminatedLate
  <2>2. ASSUME NEW w \in Workers, ThreadKilled(w) PROVE late
      BY <2>2, Zenon DEF ThreadKilled, PastDeadline
  <2>3. ASSUME \/ \E j \in Jobs : Submit(j) \/ Reject(j)
               \/ \E w \in ThreadWorkers : AppReturns(w)
               \/ \E w \in FiberWorkers : ScheduleBatch(w) \/ FiberAnswers(w)
        PROVE  FALSE
      BY <2>3, Zenon DEF Submit, Reject, AppReturns, ScheduleBatch, FiberAnswers, Set
  <2>4. ASSUME job' = job PROVE FALSE
      BY <2>4, Zenon
  <2>5. ASSUME NEW w \in ThreadWorkers, RecvBlocking(w) \/ DrainNext(w) \/ DrainEmpty(w) \/ CheckTerminated(w)
        PROVE  job' = job
      BY <2>5, Zenon DEF RecvBlocking, DrainNext, DrainEmpty, CheckTerminated, work
  <2>6. ASSUME NEW w \in FiberWorkers,
               \/ TakeLeader(w) \/ FillBatch(w) \/ BatchFilled(w) \/ CheckEmpty(w)
               \/ SignalWaker(w) \/ Resume(w) \/ SchedulerExits(w) \/ WakerStep(w)
        PROVE  job' = job
      BY <2>6, Zenon DEF TakeLeader, FillBatch, BatchFilled, CheckEmpty, SignalWaker, Resume,
         SchedulerExits, WakerStep, WakerSeesChange, WakerReceives, WakerUnblocks, work
  <2>7. ASSUME \/ StopAccepting \/ Join \/ MainStep \/ UNCHANGED vars
               \/ \E w \in Workers : PollShutdown(w)
        PROVE  job' = job
      BY <2>7, Zenon DEF StopAccepting, Join, MainStep, SendShutdown, AllSent, DeadlinePasses,
         AllStopped, PollShutdown, vars, work
  <2> QED
      BY <2>1, <2>2, <2>3, <2>4, <2>5, <2>6, <2>7, Zenon DEF Next, ThreadStep, FiberStep
<1> QED
    BY <1>1, PoolInvHolds, PTL DEF Spec, RefusedOnlyLate

\* Where a request that runs is running.
Runs(j) ==
    \/ \E w \in ThreadWorkers : wpc[w] = "app" /\ j \in Range(batch[w])
    \/ \E w \in FiberWorkers : j \in fibers[w]

\* Only the deadline drops requests, and none that runs is forgotten.
Accounted ==
    /\ \A j \in Jobs : job[j] = "dropped" => late
    /\ \A j \in Jobs : job[j] = "running" => Runs(j)
    /\ \A w \in FiberWorkers : wpc[w] = "dead" => fibers[w] = {}

\* Every step accounts for the requests that run.
LEMMA AccountedStep ==
    TypeOK /\ WorkerLabels /\ BatchShape /\ Accounted /\ [Next]_vars => Accounted'
<1> SUFFICES ASSUME TypeOK, WorkerLabels, BatchShape, Accounted, [Next]_vars PROVE Accounted'
    BY Zenon
<1>0. ASSUME late' = late,
             \A j \in Jobs : job'[j] \in {"running", "dropped"} => job'[j] = job[j],
             \A v \in ThreadWorkers : wpc[v] = "app" => wpc'[v] = "app" /\ batch'[v] = batch[v],
             fibers' = fibers,
             \A v \in FiberWorkers : wpc'[v] = "dead" => wpc[v] = "dead" \/ fibers[v] = {}
      PROVE  Accounted'
  <2>1. \A j : Runs(j) => Runs(j)'
      BY <1>0, Zenon DEF Runs
  <2> QED
      BY <1>0, <2>1, Zenon DEF Accounted
<1>1. ASSUME NEW w \in FiberWorkers, TakeLeader(w) PROVE Accounted'
  <2>1. /\ fibers' = fibers /\ late' = late /\ job' = job
        /\ \A v \in ThreadWorkers : wpc'[v] = wpc[v] /\ batch'[v] = batch[v]
        /\ \A v \in FiberWorkers : wpc'[v] = "dead" => wpc[v] = "dead"
      BY WorkerFacts, Domains, <1>1, ZenonT(30) DEF TakeLeader, Goto, work, control
  <2> QED
      BY <1>0, <2>1, Zenon
<1>2. ASSUME NEW w \in FiberWorkers, FillBatch(w) PROVE Accounted'
  <2>1. /\ fibers' = fibers /\ late' = late /\ job' = job
        /\ \A v \in ThreadWorkers : wpc'[v] = wpc[v] /\ batch'[v] = batch[v]
        /\ \A v \in FiberWorkers : wpc'[v] = "dead" => wpc[v] = "dead"
      BY WorkerFacts, Domains, <1>2, ZenonT(30) DEF FillBatch, Goto, work, control
  <2> QED
      BY <1>0, <2>1, Zenon
<1>3. ASSUME NEW w \in FiberWorkers, BatchFilled(w) PROVE Accounted'
  <2>1. /\ fibers' = fibers /\ late' = late /\ job' = job
        /\ \A v \in ThreadWorkers : wpc'[v] = wpc[v] /\ batch'[v] = batch[v]
        /\ \A v \in FiberWorkers : wpc'[v] = "dead" => wpc[v] = "dead"
      BY WorkerFacts, Domains, <1>3, ZenonT(30) DEF BatchFilled, Goto, work, control
  <2> QED
      BY <1>0, <2>1, Zenon
<1>4. ASSUME NEW w \in FiberWorkers, ScheduleBatch(w) PROVE Accounted'
  <2>1. /\ late' = late /\ wpc[w] = "schedule" /\ (Goto(w, "draining") \/ Goto(w, "check"))
        /\ batch' = [batch EXCEPT ![w] = <<>>]
        /\ fibers' = [fibers EXCEPT ![w] = fibers[w] \cup (Range(batch[w]) \ {Shutdown})]
      BY <1>4, Zenon DEF ScheduleBatch, control
  <2>2. \A j \in Jobs : job'[j] = IF j \in Range(batch[w]) THEN "running" ELSE job[j]
      BY <1>4, Zenon DEF ScheduleBatch, Set
  <2>3. /\ \A v \in ThreadWorkers : wpc'[v] = wpc[v] /\ batch'[v] = batch[v]
        /\ \A v \in FiberWorkers : wpc'[v] = "dead" => wpc[v] = "dead" /\ v # w
      BY WorkerFacts, Domains, <2>1, Zenon DEF Goto
  <2>4. /\ \A v \in FiberWorkers : fibers[v] \subseteq fibers'[v] /\ (v # w => fibers'[v] = fibers[v])
        /\ \A j \in Range(batch[w]) : j # Shutdown => j \in fibers'[w]
      BY Domains, <2>1, Zenon
  <2>5. \A j : Runs(j) => Runs(j)'
      BY <2>3, <2>4, Zenon DEF Runs
  <2>6. \A j \in Jobs : j \in Range(batch[w]) => Runs(j)'
      BY WorkerFacts, <2>4, Zenon DEF Runs
  <2> QED
      BY <2>1, <2>2, <2>3, <2>4, <2>5, <2>6, Zenon DEF Accounted
<1>5. ASSUME NEW w \in FiberWorkers, CheckEmpty(w) PROVE Accounted'
  <2>1. /\ fibers' = fibers /\ late' = late /\ job' = job
        /\ \A v \in ThreadWorkers : wpc'[v] = wpc[v] /\ batch'[v] = batch[v]
        /\ \A v \in FiberWorkers : wpc'[v] = "dead" => wpc[v] = "dead"
      BY WorkerFacts, Domains, <1>5, ZenonT(30) DEF CheckEmpty, Goto, work, control
  <2> QED
      BY <1>0, <2>1, Zenon
<1>6. ASSUME NEW w \in FiberWorkers, SignalWaker(w) PROVE Accounted'
  <2>1. /\ fibers' = fibers /\ late' = late /\ job' = job
        /\ \A v \in ThreadWorkers : wpc'[v] = wpc[v] /\ batch'[v] = batch[v]
        /\ \A v \in FiberWorkers : wpc'[v] = "dead" => wpc[v] = "dead"
      BY WorkerFacts, Domains, <1>6, ZenonT(30) DEF SignalWaker, Goto, work, control
  <2> QED
      BY <1>0, <2>1, Zenon
<1>7. ASSUME NEW w \in FiberWorkers, Resume(w) PROVE Accounted'
  <2>1. /\ fibers' = fibers /\ late' = late /\ job' = job
        /\ \A v \in ThreadWorkers : wpc'[v] = wpc[v] /\ batch'[v] = batch[v]
        /\ \A v \in FiberWorkers : wpc'[v] = "dead" => wpc[v] = "dead"
      BY WorkerFacts, Domains, <1>7, ZenonT(30) DEF Resume, Goto, work, control
  <2> QED
      BY <1>0, <2>1, Zenon
<1>8. ASSUME NEW w \in FiberWorkers, SchedulerExits(w) PROVE Accounted'
  <2>1. /\ fibers' = fibers /\ late' = late /\ job' = job
        /\ \A v \in ThreadWorkers : wpc'[v] = wpc[v] /\ batch'[v] = batch[v]
        /\ \A v \in FiberWorkers : wpc'[v] = "dead" => wpc[v] = "dead" \/ fibers[v] = {}
      BY WorkerFacts, Domains, <1>8, ZenonT(30) DEF SchedulerExits, SchedulerIdle, Goto,
         work, control
  <2> QED
      BY <1>0, <2>1, Zenon
<1>9. ASSUME NEW w \in FiberWorkers, FiberAnswers(w) PROVE Accounted'
  <2>1. PICK m \in fibers[w] : Set({m}, "answered") /\ fibers' = [fibers EXCEPT ![w] = fibers[w] \ {m}]
      BY <1>9, Zenon DEF FiberAnswers
  <2>2. UNCHANGED <<wpc, batch, late>>
      BY <1>9, Zenon DEF FiberAnswers, control
  <2>3. \A j \in Jobs : job'[j] = IF j = m THEN "answered" ELSE job[j]
      BY <2>1, Zenon DEF Set
  <2>4. \A v \in FiberWorkers : \A j : j # m /\ j \in fibers[v] => j \in fibers'[v]
      BY Domains, <2>1, Zenon
  <2>5. \A v \in FiberWorkers : fibers[v] = {} => fibers'[v] = {}
      BY Domains, <2>1, Zenon
  <2>6. \A j : Runs(j) /\ j # m => Runs(j)'
      BY <2>2, <2>4, Zenon DEF Runs
  <2> QED
      BY <2>2, <2>3, <2>5, <2>6, Zenon DEF Accounted
<1>10. ASSUME NEW w \in ThreadWorkers, RecvBlocking(w) PROVE Accounted'
  <2>1. /\ fibers' = fibers /\ late' = late /\ job' = job
        /\ \A v \in ThreadWorkers : wpc[v] = "app" => wpc'[v] = "app" /\ batch'[v] = batch[v]
        /\ \A v \in FiberWorkers : wpc'[v] = wpc[v]
      BY WorkerFacts, Domains, <1>10, ZenonT(30) DEF RecvBlocking, Goto, work, control
  <2> QED
      BY <1>0, <2>1, Zenon
<1>11. ASSUME NEW w \in ThreadWorkers, ProcessOne(w) PROVE Accounted'
  <2>1. PICK m \in Jobs : batch[w] = <<m>>
      BY <1>11, Zenon DEF ProcessOne, BatchShape
  <2>2. Range(<<m>>) = {m} /\ Head(<<m>>) = m
      BY DEF Range
  <2>3. wpc[w] = "process" /\ fibers' = fibers /\ late' = late
      BY <1>11, Zenon DEF ProcessOne, control
  <2>4. \A v \in Workers : v # w => wpc'[v] = wpc[v] /\ batch'[v] = batch[v]
      BY Domains, <1>11, Zenon DEF ProcessOne, Goto
  <2>5. \A j : Runs(j) => Runs(j)'
      BY WorkerFacts, <2>3, <2>4, Zenon DEF Runs
  <2>6. CASE terminated[w]
    <3>1. \A j \in Jobs : job'[j] = IF j = m THEN "unavailable" ELSE job[j]
        BY <1>11, <2>1, <2>2, <2>6, Zenon DEF ProcessOne, Set
    <3>2. \A v \in FiberWorkers : wpc'[v] = wpc[v]
        BY WorkerFacts, <2>4, Zenon
    <3> QED
        BY <2>3, <2>5, <3>1, <3>2, Zenon DEF Accounted
  <2>7. CASE ~terminated[w]
    <3>1. \A j \in Jobs : job'[j] = IF j = m THEN "running" ELSE job[j]
        BY <1>11, <2>1, <2>2, <2>7, Zenon DEF ProcessOne, Set
    <3>2. \A v \in FiberWorkers : wpc'[v] = wpc[v]
        BY WorkerFacts, <2>4, Zenon
    <3>3. wpc'[w] = "app" /\ batch' = batch
        BY WorkerFacts, Domains, <1>11, <2>7, Zenon DEF ProcessOne, Goto
    <3>4. Runs(m)'
        BY <2>1, <2>2, <3>3, Zenon DEF Runs
    <3> QED
        BY <2>3, <2>5, <3>1, <3>2, <3>4, Zenon DEF Accounted
  <2> QED
      BY <2>6, <2>7, Zenon
<1>12. ASSUME NEW w \in ThreadWorkers, AppReturns(w) PROVE Accounted'
  <2>1. PICK m \in Jobs : batch[w] = <<m>>
      BY <1>12, Zenon DEF AppReturns, BatchShape
  <2>2. Range(<<m>>) = {m} /\ Head(<<m>>) = m
      BY DEF Range
  <2>3. /\ fibers' = fibers /\ late' = late
        /\ \A j \in Jobs : job'[j] = IF j = m THEN "answered" ELSE job[j]
      BY <1>12, <2>1, <2>2, Zenon DEF AppReturns, Set, control
  <2>4. \A v \in Workers : v # w => wpc'[v] = wpc[v] /\ batch'[v] = batch[v]
      BY Domains, <1>12, Zenon DEF AppReturns, Goto
  <2>5. \A j : Runs(j) /\ j # m => Runs(j)'
      BY WorkerFacts, <2>1, <2>2, <2>3, <2>4, Zenon DEF Runs
  <2>6. \A v \in FiberWorkers : wpc'[v] = wpc[v]
      BY WorkerFacts, <2>4, Zenon
  <2> QED
      BY <2>3, <2>5, <2>6, Zenon DEF Accounted
<1>13. ASSUME NEW w \in ThreadWorkers, DrainNext(w) PROVE Accounted'
  <2>1. /\ fibers' = fibers /\ late' = late /\ job' = job
        /\ \A v \in ThreadWorkers : wpc[v] = "app" => wpc'[v] = "app" /\ batch'[v] = batch[v]
        /\ \A v \in FiberWorkers : wpc'[v] = wpc[v]
      BY WorkerFacts, Domains, <1>13, ZenonT(30) DEF DrainNext, Goto, work, control
  <2> QED
      BY <1>0, <2>1, Zenon
<1>14. ASSUME NEW w \in ThreadWorkers, DrainEmpty(w) PROVE Accounted'
  <2>1. /\ fibers' = fibers /\ late' = late /\ job' = job
        /\ \A v \in ThreadWorkers : wpc[v] = "app" => wpc'[v] = "app" /\ batch'[v] = batch[v]
        /\ \A v \in FiberWorkers : wpc'[v] = wpc[v]
      BY WorkerFacts, Domains, <1>14, ZenonT(30) DEF DrainEmpty, Goto, work, control
  <2> QED
      BY <1>0, <2>1, Zenon
<1>15. ASSUME NEW w \in ThreadWorkers, CheckTerminated(w) PROVE Accounted'
  <2>1. /\ fibers' = fibers /\ late' = late /\ job' = job
        /\ \A v \in ThreadWorkers : wpc[v] = "app" => wpc'[v] = "app" /\ batch'[v] = batch[v]
        /\ \A v \in FiberWorkers : wpc'[v] = wpc[v]
      BY WorkerFacts, Domains, <1>15, ZenonT(30) DEF CheckTerminated, Goto, work, control
  <2> QED
      BY <1>0, <2>1, Zenon
<1>16. ASSUME NEW w \in Workers, ThreadKilled(w) PROVE Accounted'
  <2>1. late /\ late' = late
      BY <1>16, Zenon DEF ThreadKilled, PastDeadline, control
  <2>2. /\ \A j \in Jobs : j \in Held(w) => job'[j] = "dropped"
        /\ \A j \in Jobs : j \notin Held(w) => job'[j] = job[j]
      BY <1>16, Zenon DEF ThreadKilled, Set
  <2>3. /\ \A v \in Workers : v # w => wpc'[v] = wpc[v] /\ batch'[v] = batch[v]
        /\ \A v \in FiberWorkers : v # w => fibers'[v] = fibers[v]
        /\ w \in FiberWorkers => fibers'[w] = {}
      BY Domains, <1>16, Zenon DEF ThreadKilled, Goto
  <2>4. \A j : Runs(j) /\ j \notin Held(w) => Runs(j)'
      BY WorkerFacts, <2>3, Zenon DEF Runs, Held
  <2>5. \A v \in FiberWorkers : wpc'[v] = "dead" => fibers'[v] = {}
      BY WorkerFacts, <2>3, Zenon DEF Accounted
  <2> QED
      BY <2>1, <2>2, <2>4, <2>5, Zenon DEF Accounted
<1>17. ASSUME NEW j \in Jobs, Submit(j) PROVE Accounted'
  <2>1. UNCHANGED <<fibers, late, wpc, batch>> /\ \A i \in Jobs : job'[i] \in {"running", "dropped"} => job'[i] = job[i]
      BY <1>17, Zenon DEF Submit, Set, control
  <2> QED
      BY <1>0, <2>1, Zenon
<1>18. ASSUME NEW j \in Jobs, Reject(j) PROVE Accounted'
  <2>1. UNCHANGED <<fibers, late, wpc, batch>> /\ \A i \in Jobs : job'[i] \in {"running", "dropped"} => job'[i] = job[i]
      BY <1>18, Zenon DEF Reject, Set, control
  <2> QED
      BY <1>0, <2>1, Zenon
<1>19. CASE DeadlinePasses
  <2>1. late' = TRUE /\ UNCHANGED <<job, wpc, batch, fibers>>
      BY <1>19, Zenon DEF DeadlinePasses, work
  <2> QED
      BY <2>1, Zenon DEF Accounted, Runs
<1>20. CASE \/ \E w \in FiberWorkers : WakerSeesChange(w) \/ WakerReceives(w) \/ WakerUnblocks(w)
            \/ \E w \in Workers : PollShutdown(w)
            \/ StopAccepting \/ Join \/ SendShutdown \/ AllSent \/ AllStopped \/ UNCHANGED vars
  <2>1. UNCHANGED <<wpc, batch, fibers, job, late>>
      BY <1>20, Zenon DEF WakerSeesChange, WakerReceives, WakerUnblocks, PollShutdown,
         StopAccepting, Join, SendShutdown, AllSent, AllStopped, vars, work, wakers, control
  <2> QED
      BY <1>0, <2>1, Zenon
<1> QED
    BY <1>1, <1>2, <1>3, <1>4, <1>5, <1>6, <1>7, <1>8, <1>9, <1>10, <1>11, <1>12, <1>13,
       <1>14, <1>15, <1>16, <1>17, <1>18, <1>19, <1>20,
       Zenon DEF Next, ThreadStep, FiberStep, WakerStep, MainStep

\* A worker that has ended in time left no message with its waker, and the
\* process is done only when all have ended.
Quiet ==
    /\ \A w \in FiberWorkers : wpc[w] = "dead" => late \/ (leader[w] = NoJob /\ ~Expects(w))
    /\ main = "done" => \A w \in Workers : wpc[w] = "dead"

\* Every step keeps the wakers of ended workers quiet.
LEMMA QuietStep == IInv /\ TypeOK /\ WorkerLabels /\ Quiet /\ [Next]_vars => Quiet'
<1> SUFFICES ASSUME IInv, TypeOK, WorkerLabels, Quiet, [Next]_vars PROVE Quiet'
    BY Zenon
<1>0. /\ SharedTypes
      /\ \A w \in FiberWorkers : wpc[w] = "draining" => leader[w] = NoJob /\ ~Expects(w)
      /\ late \in BOOLEAN
    BY Zenon DEF IInv, Handshake, Expects, TypeOK
<1>1. ASSUME NEW w \in FiberWorkers, TakeLeader(w) PROVE Quiet'
  <2>1. wpc[w] # "dead" /\ wpc'[w] # "dead" /\ UNCHANGED <<main, late>>
      BY WorkerFacts, Domains, <1>1, Zenon DEF TakeLeader, Goto, control
  <2>2. \A v \in FiberWorkers : v # w => /\ wpc'[v] = wpc[v] /\ leader'[v] = leader[v]
                                        /\ (Expects(v)' <=> Expects(v))
      BY WorkerFacts, Domains, <1>0, <1>1, ZenonT(30) DEF TakeLeader, Goto, Signal, wakers,
         Expects, SharedTypes
  <2> QED
      BY WorkerFacts, <2>1, <2>2, Zenon DEF Quiet
<1>2. ASSUME NEW w \in FiberWorkers, FillBatch(w) PROVE Quiet'
  <2>1. wpc[w] # "dead" /\ wpc'[w] # "dead" /\ UNCHANGED <<main, late>>
      BY WorkerFacts, Domains, <1>2, Zenon DEF FillBatch, Goto, control
  <2>2. \A v \in FiberWorkers : v # w => /\ wpc'[v] = wpc[v] /\ leader'[v] = leader[v]
                                        /\ (Expects(v)' <=> Expects(v))
      BY WorkerFacts, Domains, <1>0, <1>2, ZenonT(30) DEF FillBatch, Goto, Signal, wakers,
         Expects, SharedTypes
  <2> QED
      BY WorkerFacts, <2>1, <2>2, Zenon DEF Quiet
<1>3. ASSUME NEW w \in FiberWorkers, BatchFilled(w) PROVE Quiet'
  <2>1. wpc[w] # "dead" /\ wpc'[w] # "dead" /\ UNCHANGED <<main, late>>
      BY WorkerFacts, Domains, <1>3, Zenon DEF BatchFilled, Goto, control
  <2>2. \A v \in FiberWorkers : v # w => /\ wpc'[v] = wpc[v] /\ leader'[v] = leader[v]
                                        /\ (Expects(v)' <=> Expects(v))
      BY WorkerFacts, Domains, <1>0, <1>3, ZenonT(30) DEF BatchFilled, Goto, Signal,
         wakers, Expects, SharedTypes
  <2> QED
      BY WorkerFacts, <2>1, <2>2, Zenon DEF Quiet
<1>4. ASSUME NEW w \in FiberWorkers, ScheduleBatch(w) PROVE Quiet'
  <2>1. wpc[w] # "dead" /\ wpc'[w] # "dead" /\ UNCHANGED <<main, late>>
      BY WorkerFacts, Domains, <1>4, Zenon DEF ScheduleBatch, Goto, control
  <2>2. \A v \in FiberWorkers : v # w => /\ wpc'[v] = wpc[v] /\ leader'[v] = leader[v]
                                        /\ (Expects(v)' <=> Expects(v))
      BY WorkerFacts, Domains, <1>0, <1>4, ZenonT(30) DEF ScheduleBatch, Goto, Signal,
         wakers, Expects, SharedTypes
  <2> QED
      BY WorkerFacts, <2>1, <2>2, Zenon DEF Quiet
<1>5. ASSUME NEW w \in FiberWorkers, CheckEmpty(w) PROVE Quiet'
  <2>1. wpc[w] # "dead" /\ wpc'[w] # "dead" /\ UNCHANGED <<main, late>>
      BY WorkerFacts, Domains, <1>5, Zenon DEF CheckEmpty, Goto, control
  <2>2. \A v \in FiberWorkers : v # w => /\ wpc'[v] = wpc[v] /\ leader'[v] = leader[v]
                                        /\ (Expects(v)' <=> Expects(v))
      BY WorkerFacts, Domains, <1>0, <1>5, ZenonT(30) DEF CheckEmpty, Goto, Signal, wakers,
         Expects, SharedTypes
  <2> QED
      BY WorkerFacts, <2>1, <2>2, Zenon DEF Quiet
<1>6. ASSUME NEW w \in FiberWorkers, SignalWaker(w) PROVE Quiet'
  <2>1. wpc[w] # "dead" /\ wpc'[w] # "dead" /\ UNCHANGED <<main, late>>
      BY WorkerFacts, Domains, <1>6, Zenon DEF SignalWaker, Goto, control
  <2>2. \A v \in FiberWorkers : v # w => /\ wpc'[v] = wpc[v] /\ leader'[v] = leader[v]
                                        /\ (Expects(v)' <=> Expects(v))
      BY WorkerFacts, Domains, <1>0, <1>6, ZenonT(30) DEF SignalWaker, Goto, Signal,
         wakers, Expects, SharedTypes
  <2> QED
      BY WorkerFacts, <2>1, <2>2, Zenon DEF Quiet
<1>7. ASSUME NEW w \in FiberWorkers, Resume(w) PROVE Quiet'
  <2>1. wpc[w] # "dead" /\ wpc'[w] # "dead" /\ UNCHANGED <<main, late>>
      BY WorkerFacts, Domains, <1>7, Zenon DEF Resume, Goto, control
  <2>2. \A v \in FiberWorkers : v # w => /\ wpc'[v] = wpc[v] /\ leader'[v] = leader[v]
                                        /\ (Expects(v)' <=> Expects(v))
      BY WorkerFacts, Domains, <1>0, <1>7, ZenonT(30) DEF Resume, Goto, Signal, wakers,
         Expects, SharedTypes
  <2> QED
      BY WorkerFacts, <2>1, <2>2, Zenon DEF Quiet
<1>8. ASSUME NEW w \in FiberWorkers, SchedulerExits(w) PROVE Quiet'
    BY WorkerFacts, Domains, <1>0, <1>8, ZenonT(30) DEF SchedulerExits, Goto, wakers,
       control, Expects, Quiet
<1>9. ASSUME NEW w \in FiberWorkers, WakerSeesChange(w) PROVE Quiet'
  <2>1. UNCHANGED <<wpc, leader, main, late>>
      BY <1>9, Zenon DEF WakerSeesChange, control
  <2>2. \A v \in FiberWorkers : Expects(v)' => Expects(v)
      BY <1>0, <1>9, ZenonT(30) DEF WakerSeesChange, Expects, SharedTypes
  <2> QED
      BY <2>1, <2>2, Zenon DEF Quiet
<1>10. ASSUME NEW w \in FiberWorkers, WakerReceives(w) PROVE Quiet'
  <2>1. UNCHANGED <<wpc, changed, stop, main, late>> /\ Expects(w)
      BY <1>10, Zenon DEF WakerReceives, control, Expects
  <2>2. \A v \in FiberWorkers : v # w => leader'[v] = leader[v] /\ waker'[v] = waker[v]
      BY Domains, <1>10, Zenon DEF WakerReceives
  <2>3. \A v \in FiberWorkers : v # w => (Expects(v)' <=> Expects(v))
      BY <2>1, <2>2, Zenon DEF Expects
  <2> QED
      BY <2>1, <2>2, <2>3, Zenon DEF Quiet
<1>11. ASSUME NEW w \in FiberWorkers, WakerUnblocks(w) PROVE Quiet'
  <2>1. UNCHANGED <<wpc, leader, main, late>>
      BY <1>11, Zenon DEF WakerUnblocks, control
  <2>2. \A v \in FiberWorkers : Expects(v)' => Expects(v)
      BY Domains, <1>11, Zenon DEF WakerUnblocks, Expects
  <2> QED
      BY <2>1, <2>2, Zenon DEF Quiet
<1>12. ASSUME NEW w \in ThreadWorkers, RecvBlocking(w) PROVE Quiet'
  <2>1. wpc[w] # "dead" /\ UNCHANGED <<leader, waker, changed, stop, main, late>>
      BY <1>12, Zenon DEF RecvBlocking, wakers, control
  <2>2. \A v \in FiberWorkers : wpc'[v] = wpc[v]
      BY WorkerFacts, Domains, <1>12, Zenon DEF RecvBlocking, Goto
  <2> QED
      BY WorkerFacts, <2>1, <2>2, Zenon DEF Quiet, Expects
<1>13. ASSUME NEW w \in ThreadWorkers, ProcessOne(w) PROVE Quiet'
  <2>1. wpc[w] # "dead" /\ UNCHANGED <<leader, waker, changed, stop, main, late>>
      BY <1>13, Zenon DEF ProcessOne, wakers, control
  <2>2. \A v \in FiberWorkers : wpc'[v] = wpc[v]
      BY WorkerFacts, Domains, <1>13, Zenon DEF ProcessOne, Goto
  <2> QED
      BY WorkerFacts, <2>1, <2>2, Zenon DEF Quiet, Expects
<1>14. ASSUME NEW w \in ThreadWorkers, AppReturns(w) PROVE Quiet'
  <2>1. wpc[w] # "dead" /\ UNCHANGED <<leader, waker, changed, stop, main, late>>
      BY <1>14, Zenon DEF AppReturns, wakers, control
  <2>2. \A v \in FiberWorkers : wpc'[v] = wpc[v]
      BY WorkerFacts, Domains, <1>14, Zenon DEF AppReturns, Goto
  <2> QED
      BY WorkerFacts, <2>1, <2>2, Zenon DEF Quiet, Expects
<1>15. ASSUME NEW w \in ThreadWorkers, DrainNext(w) PROVE Quiet'
  <2>1. wpc[w] # "dead" /\ UNCHANGED <<leader, waker, changed, stop, main, late>>
      BY <1>15, Zenon DEF DrainNext, wakers, control
  <2>2. \A v \in FiberWorkers : wpc'[v] = wpc[v]
      BY WorkerFacts, Domains, <1>15, Zenon DEF DrainNext, Goto
  <2> QED
      BY WorkerFacts, <2>1, <2>2, Zenon DEF Quiet, Expects
<1>16. ASSUME NEW w \in ThreadWorkers, DrainEmpty(w) PROVE Quiet'
  <2>1. wpc[w] # "dead" /\ UNCHANGED <<leader, waker, changed, stop, main, late>>
      BY <1>16, Zenon DEF DrainEmpty, wakers, control
  <2>2. \A v \in FiberWorkers : wpc'[v] = wpc[v]
      BY WorkerFacts, Domains, <1>16, Zenon DEF DrainEmpty, Goto
  <2> QED
      BY WorkerFacts, <2>1, <2>2, Zenon DEF Quiet, Expects
<1>17. ASSUME NEW w \in ThreadWorkers, CheckTerminated(w) PROVE Quiet'
  <2>1. wpc[w] # "dead" /\ UNCHANGED <<leader, waker, changed, stop, main, late>>
      BY <1>17, Zenon DEF CheckTerminated, wakers, control
  <2>2. \A v \in FiberWorkers : wpc'[v] = wpc[v]
      BY WorkerFacts, Domains, <1>17, Zenon DEF CheckTerminated, Goto
  <2> QED
      BY WorkerFacts, <2>1, <2>2, Zenon DEF Quiet, Expects
<1>18. ASSUME NEW w \in Workers, ThreadKilled(w) PROVE Quiet'
    BY <1>18, Zenon DEF ThreadKilled, PastDeadline, control, Quiet
<1>19. CASE StopAccepting
    BY <1>19, Zenon DEF StopAccepting, wakers, Quiet, Expects
<1>20. CASE Join
    BY <1>20, Zenon DEF Join, wakers, Quiet, Expects
<1>21. CASE AllSent
    BY <1>21, Zenon DEF AllSent, wakers, Quiet, Expects
<1>22. CASE DeadlinePasses
    BY <1>22, Zenon DEF DeadlinePasses, Quiet
<1>23. CASE AllStopped
    BY <1>23, Zenon DEF AllStopped, wakers, Quiet, Expects
<1>24. CASE \/ \E j \in Jobs : Submit(j) \/ Reject(j)
            \/ \E w \in FiberWorkers : FiberAnswers(w)
            \/ \E w \in Workers : PollShutdown(w)
            \/ SendShutdown \/ UNCHANGED vars
  <2>1. UNCHANGED <<wpc, leader, waker, changed, stop, main, late>>
      BY <1>24, Zenon DEF FiberAnswers, PollShutdown, Submit, Reject, SendShutdown, vars,
         work, wakers, control
  <2> QED
      BY <2>1, Zenon DEF Quiet, Expects
<1> QED
    BY <1>1, <1>2, <1>3, <1>4, <1>5, <1>6, <1>7, <1>8, <1>9, <1>10, <1>11, <1>12, <1>13,
       <1>14, <1>15, <1>16, <1>17, <1>18, <1>19, <1>20, <1>21, <1>22, <1>23, <1>24,
       Zenon DEF Next, ThreadStep, FiberStep, WakerStep, MainStep

\* The Shutdowns come behind every request, and a worker that took one has
\* left nothing in its channel.
Drained ==
    /\ main \in {"serving", "joining"} => aborted = FALSE /\ \A c \in Channels : Shutdown \notin Range(queue[c])
    /\ aborted \/ \A c \in Channels : Ordered(queue[c])
    /\ late \/ aborted \/ \A w \in Workers : Stopping(w) =>
         main \notin {"serving", "joining"} /\ Range(queue[Chan(w)]) \subseteq {Shutdown}

\* The next message for this worker is a Shutdown.
ShutdownNext(w) == queue[Chan(w)] # <<>> /\ Head(queue[Chan(w)]) = Shutdown

\* Receiving keeps the order of a channel.
LEMMA ReceiveOrder ==
    ASSUME TypeOK, NEW c \in Channels, queue[c] # <<>>, Receive(c)
    PROVE  \A d \in Channels : /\ Range(queue'[d]) \subseteq Range(queue[d])
                               /\ Ordered(queue[d]) => Ordered(queue'[d])
<1>1. queue[c] \in Seq(Message)
    BY Zenon DEF TypeOK
<1>2. /\ Range(queue[c]) = {Head(queue[c])} \cup Range(Tail(queue[c]))
      /\ Ordered(queue[c]) => Ordered(Tail(queue[c]))
    BY <1>1, TailFacts, Zenon
<1>3. queue'[c] = Tail(queue[c]) /\ \A d \in Channels : d # c => queue'[d] = queue[d]
    BY Domains, Zenon DEF Receive
<1> QED
    BY <1>2, <1>3, Zenon

\* A worker that begins to stop for a Shutdown finds its channel drained.
LEMMA DrainedKept ==
    ASSUME TypeOK, Drained, UNCHANGED <<main, aborted, late>>,
           \A c \in Channels : /\ Range(queue'[c]) \subseteq Range(queue[c])
                               /\ Ordered(queue[c]) => Ordered(queue'[c]),
           \A w \in Workers : Stopping(w)' => Stopping(w) \/ ShutdownNext(w)
    PROVE  Drained'
<1>1. ASSUME NEW w \in Workers, ShutdownNext(w), ~aborted
      PROVE  main \notin {"serving", "joining"} /\ Range(queue[Chan(w)]) \subseteq {Shutdown}
  <2>1. Chan(w) \in Channels /\ queue[Chan(w)] \in Seq(Message)
      BY WorkerFacts, Zenon DEF TypeOK
  <2>2. Shutdown \in Range(queue[Chan(w)])
    <3>1. queue[Chan(w)] # <<>> /\ Head(queue[Chan(w)]) = Shutdown
        BY <1>1, Zenon DEF ShutdownNext
    <3>2. Range(queue[Chan(w)]) = {Head(queue[Chan(w)])} \cup Range(Tail(queue[Chan(w)]))
        BY <2>1, <3>1, TailFacts, Zenon
    <3> QED
        BY <3>1, <3>2, Zenon
  <2>3. Ordered(queue[Chan(w)])
      BY <1>1, <2>1, Zenon DEF Drained
  <2>4. Range(queue[Chan(w)]) \subseteq {Shutdown}
      BY <1>1, <2>1, <2>3, TailFacts, Zenon DEF ShutdownNext
  <2> QED
      BY <2>1, <2>2, <2>4, Zenon DEF Drained
<1>2. \A w \in Workers : Range(queue'[Chan(w)]) \subseteq Range(queue[Chan(w)])
    BY WorkerFacts, Zenon
<1>3. late \/ aborted \/ \A w \in Workers : Stopping(w)' =>
         main \notin {"serving", "joining"} /\ Range(queue'[Chan(w)]) \subseteq {Shutdown}
    BY <1>1, <1>2, Zenon DEF Drained
<1>4. aborted \/ \A c \in Channels : Ordered(queue'[c])
    BY Zenon DEF Drained
<1>5. main \in {"serving", "joining"} => aborted = FALSE /\ \A c \in Channels : Shutdown \notin Range(queue'[c])
    BY Zenon DEF Drained
<1>6. \A w : Chan(w)' = Chan(w)
    BY Zenon DEF Chan
<1> QED
    BY <1>3, <1>4, <1>5, <1>6, Zenon DEF Drained

\* Every step keeps the order of the drain.
LEMMA DrainedStep ==
    TypeOK /\ WorkerLabels /\ BatchShape /\ Drained /\ [Next]_vars => Drained'
<1> SUFFICES ASSUME TypeOK, WorkerLabels, BatchShape, Drained, [Next]_vars PROVE Drained'
    BY Zenon
<1>0. ASSUME UNCHANGED <<main, aborted, late, queue>>,
             \A w \in Workers : Stopping(w)' => Stopping(w)
      PROVE  Drained'
    BY <1>0, DrainedKept, Zenon
<1>30. Range(<<>>) = {} /\ \A m \in Message : Range(<<m>>) = {m}
    BY DEF Range
<1>1. ASSUME NEW w \in FiberWorkers, TakeLeader(w) PROVE Drained'
  <2> DEFINE b == IF leader[w] = NoJob THEN <<>> ELSE <<leader[w]>>
  <2>1. /\ UNCHANGED <<main, aborted, late, queue, terminated>>
        /\ leader' = [leader EXCEPT ![w] = NoJob] /\ Shutdown # NoJob
      BY WorkerFacts, <1>1, Zenon DEF TakeLeader, control
  <2>2. \/ leader[w] = Shutdown /\ Goto(w, "draining") /\ UNCHANGED batch
        \/ leader[w] # Shutdown /\ Goto(w, "fill") /\ batch' = [batch EXCEPT ![w] = b]
      BY <1>1, Zenon DEF TakeLeader
  <2>3. leader[w] # Shutdown => Shutdown \notin Range(b)
      BY DEF Range
  <2> HIDE DEF b
  <2>4. \A v \in Workers : v # w => wpc'[v] = wpc[v] /\ batch'[v] = batch[v]
                                   /\ (v \in FiberWorkers => leader'[v] = leader[v])
      BY Domains, <2>1, <2>2, Zenon DEF Goto
  <2>5. leader[w] # Shutdown => wpc'[w] \notin {"draining", "dead"} /\ Shutdown \notin Range(batch'[w]) /\ leader'[w] # Shutdown
      BY WorkerFacts, Domains, <2>1, <2>2, <2>3, Zenon DEF Goto
  <2>6. Stopping(w)' => Stopping(w)
      BY <2>1, <2>5, Zenon DEF Stopping
  <2>7. \A v \in Workers : v # w => (Stopping(v)' => Stopping(v))
      BY <2>1, <2>4, Zenon DEF Stopping
  <2> QED
      BY <1>0, <2>1, <2>6, <2>7, Zenon
<1>2. ASSUME NEW w \in FiberWorkers, FillBatch(w) PROVE Drained'
  <2> DEFINE m == Head(queue[Chan(w)])
             b == Append(batch[w], m)
  <2>1. /\ queue[Chan(w)] # <<>> /\ Receive(Chan(w)) /\ UNCHANGED <<main, aborted, late, leader, terminated>>
        /\ batch' = [batch EXCEPT ![w] = b]
        /\ Goto(w, "schedule") \/ Goto(w, "fill")
      BY <1>2, Zenon DEF FillBatch, wakers, control
  <2>2. m \in Message
      BY WorkerFacts, Domains, <2>1, TailFacts, Zenon
  <2>3. Range(b) = Range(batch[w]) \cup {m}
      BY WorkerFacts, Domains, <2>2, AppendFacts, Zenon
  <2> HIDE DEF m, b
  <2>4. /\ \A v \in Workers : v # w => wpc'[v] = wpc[v] /\ batch'[v] = batch[v]
        /\ wpc'[w] \notin {"draining", "dead"} /\ batch'[w] = b
      BY WorkerFacts, Domains, <2>1, Zenon DEF Goto
  <2>5. m # Shutdown /\ Stopping(w)' => Stopping(w)
      BY <2>1, <2>3, <2>4, Zenon DEF Stopping
  <2>6. \A v \in Workers : v # w => (Stopping(v)' => Stopping(v))
      BY <2>1, <2>4, Zenon DEF Stopping
  <2>7. \A v \in Workers : Stopping(v)' => Stopping(v) \/ ShutdownNext(v)
      BY <2>1, <2>5, <2>6, Zenon DEF ShutdownNext, m
  <2> QED
      BY WorkerFacts, <2>1, <2>7, ReceiveOrder, DrainedKept, Zenon
<1>3. ASSUME NEW w \in FiberWorkers, BatchFilled(w) PROVE Drained'
  <2>1. UNCHANGED <<main, aborted, late, queue, terminated, leader>>
      BY <1>3, Zenon DEF BatchFilled, wakers, control, work
  <2>2. \A v \in Workers : v # w => wpc'[v] = wpc[v] /\ batch'[v] = batch[v]
      BY WorkerFacts, Domains, <1>3, Zenon DEF BatchFilled, Goto, work
  <2>3. wpc'[w] \notin {"draining", "dead"} /\ (batch'[w] = <<>> \/ batch'[w] = batch[w])
      BY WorkerFacts, Domains, <1>3, Zenon DEF BatchFilled, Goto, work
  <2>4. Stopping(w)' => Stopping(w)
      BY <1>30, <2>1, <2>3, Zenon DEF Stopping
  <2>5. \A v \in Workers : v # w => (Stopping(v)' => Stopping(v))
      BY <2>1, <2>2, Zenon DEF Stopping
  <2> QED
      BY <1>0, <2>1, <2>4, <2>5, Zenon
<1>4. ASSUME NEW w \in FiberWorkers, ScheduleBatch(w) PROVE Drained'
  <2>1. UNCHANGED <<main, aborted, late, queue, terminated, leader>>
      BY <1>4, Zenon DEF ScheduleBatch, wakers, control, work
  <2>2. \A v \in Workers : v # w => wpc'[v] = wpc[v] /\ batch'[v] = batch[v]
      BY WorkerFacts, Domains, <1>4, Zenon DEF ScheduleBatch, Goto, work
  <2>3. /\ wpc'[w] \in {"draining", "dead"} => (Shutdown \in Range(batch[w]) \/ terminated[w])
        /\ batch'[w] = <<>> \/ batch'[w] = batch[w]
      BY WorkerFacts, Domains, <1>4, Zenon DEF ScheduleBatch, Goto, work
  <2>4. Stopping(w)' => Stopping(w)
      BY <1>30, <2>1, <2>3, Zenon DEF Stopping
  <2>5. \A v \in Workers : v # w => (Stopping(v)' => Stopping(v))
      BY <2>1, <2>2, Zenon DEF Stopping
  <2> QED
      BY <1>0, <2>1, <2>4, <2>5, Zenon
<1>5. ASSUME NEW w \in FiberWorkers, CheckEmpty(w) PROVE Drained'
  <2>1. UNCHANGED <<main, aborted, late, queue, terminated, leader>>
      BY <1>5, Zenon DEF CheckEmpty, wakers, control, work
  <2>2. \A v \in Workers : v # w => wpc'[v] = wpc[v] /\ batch'[v] = batch[v]
      BY WorkerFacts, Domains, <1>5, Zenon DEF CheckEmpty, Goto, work
  <2>3. wpc'[w] \notin {"draining", "dead"} /\ (batch'[w] = <<>> \/ batch'[w] = batch[w])
      BY WorkerFacts, Domains, <1>5, Zenon DEF CheckEmpty, Goto, work
  <2>4. Stopping(w)' => Stopping(w)
      BY <1>30, <2>1, <2>3, Zenon DEF Stopping
  <2>5. \A v \in Workers : v # w => (Stopping(v)' => Stopping(v))
      BY <2>1, <2>2, Zenon DEF Stopping
  <2> QED
      BY <1>0, <2>1, <2>4, <2>5, Zenon
<1>6. ASSUME NEW w \in FiberWorkers, SignalWaker(w) PROVE Drained'
  <2>1. UNCHANGED <<main, aborted, late, queue, terminated, leader>>
      BY <1>6, Zenon DEF SignalWaker, wakers, control, work
  <2>2. \A v \in Workers : v # w => wpc'[v] = wpc[v] /\ batch'[v] = batch[v]
      BY WorkerFacts, Domains, <1>6, Zenon DEF SignalWaker, Goto, work
  <2>3. wpc'[w] \notin {"draining", "dead"} /\ (batch'[w] = <<>> \/ batch'[w] = batch[w])
      BY WorkerFacts, Domains, <1>6, Zenon DEF SignalWaker, Goto, work
  <2>4. Stopping(w)' => Stopping(w)
      BY <1>30, <2>1, <2>3, Zenon DEF Stopping
  <2>5. \A v \in Workers : v # w => (Stopping(v)' => Stopping(v))
      BY <2>1, <2>2, Zenon DEF Stopping
  <2> QED
      BY <1>0, <2>1, <2>4, <2>5, Zenon
<1>7. ASSUME NEW w \in FiberWorkers, Resume(w) PROVE Drained'
  <2>1. UNCHANGED <<main, aborted, late, queue, terminated, leader>>
      BY <1>7, Zenon DEF Resume, wakers, control, work
  <2>2. \A v \in Workers : v # w => wpc'[v] = wpc[v] /\ batch'[v] = batch[v]
      BY WorkerFacts, Domains, <1>7, Zenon DEF Resume, Goto, work
  <2>3. wpc'[w] \notin {"draining", "dead"} /\ (batch'[w] = <<>> \/ batch'[w] = batch[w])
      BY WorkerFacts, Domains, <1>7, Zenon DEF Resume, Goto, work
  <2>4. Stopping(w)' => Stopping(w)
      BY <1>30, <2>1, <2>3, Zenon DEF Stopping
  <2>5. \A v \in Workers : v # w => (Stopping(v)' => Stopping(v))
      BY <2>1, <2>2, Zenon DEF Stopping
  <2> QED
      BY <1>0, <2>1, <2>4, <2>5, Zenon
<1>8. ASSUME NEW w \in FiberWorkers, SchedulerExits(w) PROVE Drained'
  <2>1. UNCHANGED <<main, aborted, late, queue, terminated, leader>>
      BY <1>8, Zenon DEF SchedulerExits, wakers, control, work
  <2>2. \A v \in Workers : v # w => wpc'[v] = wpc[v] /\ batch'[v] = batch[v]
      BY WorkerFacts, Domains, <1>8, Zenon DEF SchedulerExits, Goto, work
  <2>3. /\ wpc'[w] \in {"draining", "dead"} => wpc[w] = "draining"
        /\ batch'[w] = <<>> \/ batch'[w] = batch[w]
      BY WorkerFacts, Domains, <1>8, Zenon DEF SchedulerExits, Goto, work
  <2>4. Stopping(w)' => Stopping(w)
      BY <1>30, <2>1, <2>3, Zenon DEF Stopping
  <2>5. \A v \in Workers : v # w => (Stopping(v)' => Stopping(v))
      BY <2>1, <2>2, Zenon DEF Stopping
  <2> QED
      BY <1>0, <2>1, <2>4, <2>5, Zenon
<1>9. ASSUME NEW w \in FiberWorkers, WakerReceives(w) PROVE Drained'
  <2>1. /\ queue[Chan(w)] # <<>> /\ Receive(Chan(w)) /\ UNCHANGED <<main, aborted, late, terminated, wpc, batch>>
        /\ leader' = [leader EXCEPT ![w] = Head(queue[Chan(w)])]
      BY <1>9, Zenon DEF WakerReceives, control
  <2>2. \A v \in FiberWorkers : leader'[v] = Shutdown => leader[v] = Shutdown \/ ShutdownNext(v)
      BY Domains, <2>1, Zenon DEF ShutdownNext
  <2>3. \A v \in Workers : Stopping(v)' => Stopping(v) \/ ShutdownNext(v)
      BY <2>1, <2>2, Zenon DEF Stopping
  <2> QED
      BY WorkerFacts, <2>1, <2>3, ReceiveOrder, DrainedKept, Zenon
<1>10. ASSUME NEW w \in ThreadWorkers, RecvBlocking(w) PROVE Drained'
  <2> DEFINE m == Head(queue[Chan(w)])
  <2>1. queue[Chan(w)] # <<>> /\ Receive(Chan(w)) /\ UNCHANGED <<main, aborted, late, leader>>
      BY <1>10, Zenon DEF RecvBlocking, wakers, control
  <2>2. m \in Message
      BY WorkerFacts, Domains, <2>1, TailFacts, Zenon
  <2>3. \A v \in Workers : v # w => wpc'[v] = wpc[v] /\ batch'[v] = batch[v] /\ terminated'[v] = terminated[v]
      BY Domains, <1>10, Zenon DEF RecvBlocking, Goto
  <2>4. m # Shutdown => wpc'[w] = "process" /\ batch'[w] = <<m>> /\ terminated'[w] = terminated[w]
      BY WorkerFacts, Domains, <1>10, Zenon DEF RecvBlocking, Goto
  <2> HIDE DEF m
  <2>8. m # Shutdown => Shutdown \notin Range(batch'[w])
      BY <1>30, <2>2, <2>4, Zenon
  <2>9. w \in Workers /\ w \notin FiberWorkers
      BY WorkerFacts, Zenon
  <2>5. m # Shutdown /\ Stopping(w)' => Stopping(w)
      BY <2>4, <2>8, <2>9, Zenon DEF Stopping
  <2>6. \A v \in Workers : v # w => (Stopping(v)' => Stopping(v))
      BY <2>1, <2>3, Zenon DEF Stopping
  <2>7. \A v \in Workers : Stopping(v)' => Stopping(v) \/ ShutdownNext(v)
      BY <2>1, <2>5, <2>6, Zenon DEF ShutdownNext, m
  <2> QED
      BY WorkerFacts, <2>1, <2>7, ReceiveOrder, DrainedKept, Zenon
<1>11. ASSUME NEW w \in ThreadWorkers, ProcessOne(w) PROVE Drained'
  <2>1. UNCHANGED <<main, aborted, late, queue, terminated, leader>>
      BY <1>11, Zenon DEF ProcessOne, wakers, control, work
  <2>2. \A v \in Workers : v # w => wpc'[v] = wpc[v] /\ batch'[v] = batch[v]
      BY WorkerFacts, Domains, <1>11, Zenon DEF ProcessOne, Goto, work
  <2>3. wpc'[w] \notin {"draining", "dead"} /\ (batch'[w] = <<>> \/ batch'[w] = batch[w])
      BY WorkerFacts, Domains, <1>11, Zenon DEF ProcessOne, Goto, work
  <2>4. Stopping(w)' => Stopping(w)
      BY <1>30, <2>1, <2>3, Zenon DEF Stopping
  <2>5. \A v \in Workers : v # w => (Stopping(v)' => Stopping(v))
      BY <2>1, <2>2, Zenon DEF Stopping
  <2> QED
      BY <1>0, <2>1, <2>4, <2>5, Zenon
<1>12. ASSUME NEW w \in ThreadWorkers, AppReturns(w) PROVE Drained'
  <2>1. UNCHANGED <<main, aborted, late, queue, terminated, leader>>
      BY <1>12, Zenon DEF AppReturns, wakers, control, work
  <2>2. \A v \in Workers : v # w => wpc'[v] = wpc[v] /\ batch'[v] = batch[v]
      BY WorkerFacts, Domains, <1>12, Zenon DEF AppReturns, Goto, work
  <2>3. wpc'[w] \notin {"draining", "dead"} /\ (batch'[w] = <<>> \/ batch'[w] = batch[w])
      BY WorkerFacts, Domains, <1>12, Zenon DEF AppReturns, Goto, work
  <2>4. Stopping(w)' => Stopping(w)
      BY <1>30, <2>1, <2>3, Zenon DEF Stopping
  <2>5. \A v \in Workers : v # w => (Stopping(v)' => Stopping(v))
      BY <2>1, <2>2, Zenon DEF Stopping
  <2> QED
      BY <1>0, <2>1, <2>4, <2>5, Zenon
<1>13. ASSUME NEW w \in ThreadWorkers, DrainNext(w) PROVE Drained'
  <2> DEFINE m == Head(queue[Chan(w)])
  <2>1. queue[Chan(w)] # <<>> /\ Receive(Chan(w)) /\ UNCHANGED <<main, aborted, late, leader>>
      BY <1>13, Zenon DEF DrainNext, wakers, control
  <2>2. m \in Message
      BY WorkerFacts, Domains, <2>1, TailFacts, Zenon
  <2>3. \A v \in Workers : v # w => wpc'[v] = wpc[v] /\ batch'[v] = batch[v] /\ terminated'[v] = terminated[v]
      BY Domains, <1>13, Zenon DEF DrainNext, Goto
  <2>4. m # Shutdown => wpc'[w] = "process" /\ batch'[w] = <<m>> /\ terminated'[w] = terminated[w]
      BY WorkerFacts, Domains, <1>13, Zenon DEF DrainNext, Goto
  <2> HIDE DEF m
  <2>8. m # Shutdown => Shutdown \notin Range(batch'[w])
      BY <1>30, <2>2, <2>4, Zenon
  <2>9. w \in Workers /\ w \notin FiberWorkers
      BY WorkerFacts, Zenon
  <2>5. m # Shutdown /\ Stopping(w)' => Stopping(w)
      BY <2>4, <2>8, <2>9, Zenon DEF Stopping
  <2>6. \A v \in Workers : v # w => (Stopping(v)' => Stopping(v))
      BY <2>1, <2>3, Zenon DEF Stopping
  <2>7. \A v \in Workers : Stopping(v)' => Stopping(v) \/ ShutdownNext(v)
      BY <2>1, <2>5, <2>6, Zenon DEF ShutdownNext, m
  <2> QED
      BY WorkerFacts, <2>1, <2>7, ReceiveOrder, DrainedKept, Zenon
<1>14. ASSUME NEW w \in ThreadWorkers, DrainEmpty(w) PROVE Drained'
  <2>1. UNCHANGED <<main, aborted, late, queue, terminated, leader>>
      BY <1>14, Zenon DEF DrainEmpty, wakers, control, work
  <2>2. \A v \in Workers : v # w => wpc'[v] = wpc[v] /\ batch'[v] = batch[v]
      BY WorkerFacts, Domains, <1>14, Zenon DEF DrainEmpty, Goto, work
  <2>3. wpc'[w] \notin {"draining", "dead"} /\ (batch'[w] = <<>> \/ batch'[w] = batch[w])
      BY WorkerFacts, Domains, <1>14, Zenon DEF DrainEmpty, Goto, work
  <2>4. Stopping(w)' => Stopping(w)
      BY <1>30, <2>1, <2>3, Zenon DEF Stopping
  <2>5. \A v \in Workers : v # w => (Stopping(v)' => Stopping(v))
      BY <2>1, <2>2, Zenon DEF Stopping
  <2> QED
      BY <1>0, <2>1, <2>4, <2>5, Zenon
<1>15. ASSUME NEW w \in ThreadWorkers, CheckTerminated(w) PROVE Drained'
  <2>1. UNCHANGED <<main, aborted, late, queue, terminated, leader>>
      BY <1>15, Zenon DEF CheckTerminated, wakers, control, work
  <2>2. \A v \in Workers : v # w => wpc'[v] = wpc[v] /\ batch'[v] = batch[v]
      BY WorkerFacts, Domains, <1>15, Zenon DEF CheckTerminated, Goto, work
  <2>3. /\ wpc'[w] \in {"draining", "dead"} => terminated[w]
        /\ batch'[w] = <<>> \/ batch'[w] = batch[w]
      BY WorkerFacts, Domains, <1>15, Zenon DEF CheckTerminated, Goto, work
  <2>4. Stopping(w)' => Stopping(w)
      BY <1>30, <2>1, <2>3, Zenon DEF Stopping
  <2>5. \A v \in Workers : v # w => (Stopping(v)' => Stopping(v))
      BY <2>1, <2>2, Zenon DEF Stopping
  <2> QED
      BY <1>0, <2>1, <2>4, <2>5, Zenon
<1>16. ASSUME NEW w \in Workers, PollShutdown(w) PROVE Drained'
  <2>1. late /\ main = "polling" /\ UNCHANGED <<main, aborted, late, queue>>
      BY <1>16, Zenon DEF PollShutdown, PastDeadline, control, work
  <2> QED
      BY <2>1, Zenon DEF Drained
<1>17. ASSUME NEW w \in Workers, ThreadKilled(w) PROVE Drained'
  <2>1. UNCHANGED <<main, aborted, late, queue, terminated, leader>>
      BY <1>17, Zenon DEF ThreadKilled, wakers, control, work
  <2>2. \A v \in Workers : v # w => wpc'[v] = wpc[v] /\ batch'[v] = batch[v]
      BY WorkerFacts, Domains, <1>17, Zenon DEF ThreadKilled, Goto, work
  <2>3. /\ wpc'[w] \in {"draining", "dead"} => terminated[w]
        /\ batch'[w] = <<>> \/ batch'[w] = batch[w]
      BY WorkerFacts, Domains, <1>17, Zenon DEF ThreadKilled, Goto, work
  <2>4. Stopping(w)' => Stopping(w)
      BY <1>30, <2>1, <2>3, Zenon DEF Stopping
  <2>5. \A v \in Workers : v # w => (Stopping(v)' => Stopping(v))
      BY <2>1, <2>2, Zenon DEF Stopping
  <2> QED
      BY <1>0, <2>1, <2>4, <2>5, Zenon
<1>18. ASSUME NEW j \in Jobs, Submit(j) PROVE Drained'
  <2>1. PICK c \in Channels : Send(c, j)
      BY <1>18, Zenon DEF Submit
  <2>2. UNCHANGED <<main, aborted, late, wpc, batch, terminated, leader>> /\ Serving /\ j \in Message /\ j # Shutdown
      BY WorkerFacts, <1>18, Zenon DEF Submit, control, wakers
  <2>3. queue'[c] = Append(queue[c], j) /\ \A d \in Channels : d # c => queue'[d] = queue[d]
      BY Domains, <2>1, Zenon DEF Send
  <2>4. queue[c] \in Seq(Message)
      BY Zenon DEF TypeOK
  <2>5. CASE aborted
    <3>1. main \notin {"serving", "joining"}
        BY <2>5, Zenon DEF Drained
    <3> QED
        BY <2>2, <2>5, <3>1, Zenon DEF Drained
  <2>6. CASE ~aborted
    <3>1. main \in {"serving", "joining"} /\ Shutdown \notin Range(queue[c]) /\ Ordered(queue[c])
        BY <2>2, <2>6, Zenon DEF Drained, Serving
    <3>2. Ordered(Append(queue[c], j)) /\ Range(Append(queue[c], j)) = Range(queue[c]) \cup {j}
        BY <2>2, <2>4, <3>1, AppendFacts, Zenon
    <3>3. aborted \/ \A d \in Channels : Ordered(queue'[d]) /\ Shutdown \notin Range(queue'[d])
        BY <2>2, <2>3, <3>1, <3>2, Zenon DEF Drained
    <3>4. late \/ \A w \in Workers : ~Stopping(w)'
        BY <2>2, <2>6, <3>1, Zenon DEF Drained, Stopping
    <3> QED
        BY <2>2, <2>6, <3>1, <3>3, <3>4, Zenon DEF Drained
  <2> QED
      BY <2>5, <2>6, Zenon
<1>19. CASE StopAccepting
  <2>1. UNCHANGED <<aborted, queue, wpc, batch, terminated, leader>>
      BY <1>19, Zenon DEF StopAccepting, work, wakers
  <2>2. \A w \in Workers : (Stopping(w)' <=> Stopping(w)) /\ Chan(w)' = Chan(w)
      BY <2>1, Zenon DEF Stopping, Chan
  <2>3. main = "serving" /\ late' = late
      BY <1>19, Zenon DEF StopAccepting
  <2> QED
      BY <2>1, <2>2, <2>3, Zenon DEF Drained
<1>20. CASE Join
  <2>1. main = "joining" /\ main' = "sending" /\ UNCHANGED <<late, queue, wpc, batch, terminated, leader>>
      BY <1>20, Zenon DEF Join, work, wakers
  <2>2. aborted = FALSE
      BY <2>1, Zenon DEF Drained
  <2>3. (\A c \in Channels : Ordered(queue[c])) /\ (late \/ \A w \in Workers : ~Stopping(w))
      BY <2>1, <2>2, Zenon DEF Drained
  <2>4. \A w \in Workers : Stopping(w)' <=> Stopping(w)
      BY <2>1, Zenon DEF Stopping
  <2> QED
      BY <2>1, <2>3, <2>4, Zenon DEF Drained
<1>21. CASE SendShutdown
  <2>1. PICK c \in Channels : Send(c, Shutdown)
      BY WorkerFacts, <1>21, Zenon DEF SendShutdown
  <2>2. UNCHANGED <<main, aborted, late, wpc, batch, terminated, leader>> /\ main = "sending"
      BY <1>21, Zenon DEF SendShutdown, wakers
  <2>3. queue'[c] = Append(queue[c], Shutdown) /\ \A d \in Channels : d # c => queue'[d] = queue[d]
      BY Domains, <2>1, Zenon DEF Send
  <2>4. queue[c] \in Seq(Message) /\ Shutdown \in Message
      BY WorkerFacts, Zenon DEF TypeOK
  <2>5. /\ Ordered(queue[c]) => Ordered(Append(queue[c], Shutdown))
        /\ Range(Append(queue[c], Shutdown)) = Range(queue[c]) \cup {Shutdown}
      BY <2>4, AppendFacts, Zenon
  <2>6. \A d \in Channels : /\ Ordered(queue[d]) => Ordered(queue'[d])
                            /\ Range(queue[d]) \subseteq {Shutdown} => Range(queue'[d]) \subseteq {Shutdown}
      BY <2>3, <2>5, Zenon
  <2>7. \A w \in Workers : (Stopping(w)' => Stopping(w)) /\ Chan(w) \in Channels /\ Chan(w)' = Chan(w)
      BY WorkerFacts, <2>2, Zenon DEF Stopping, Chan
  <2> QED
      BY <2>2, <2>6, <2>7, Zenon DEF Drained
<1>22. CASE AllSent
  <2>1. UNCHANGED <<aborted, queue, wpc, batch, terminated, leader>>
      BY <1>22, Zenon DEF AllSent, work, wakers
  <2>2. \A w \in Workers : (Stopping(w)' <=> Stopping(w)) /\ Chan(w)' = Chan(w)
      BY <2>1, Zenon DEF Stopping, Chan
  <2>3. main \notin {"serving", "joining"} /\ main' \notin {"serving", "joining"} /\ late' = late
      BY <1>22, Zenon DEF AllSent
  <2> QED
      BY <2>1, <2>2, <2>3, Zenon DEF Drained
<1>23. CASE DeadlinePasses
  <2>1. UNCHANGED <<aborted, queue, wpc, batch, terminated, leader>>
      BY <1>23, Zenon DEF DeadlinePasses, work, wakers
  <2>2. \A w \in Workers : (Stopping(w)' <=> Stopping(w)) /\ Chan(w)' = Chan(w)
      BY <2>1, Zenon DEF Stopping, Chan
  <2>3. main \notin {"serving", "joining"} /\ main' = main /\ late' = TRUE
      BY <1>23, Zenon DEF DeadlinePasses
  <2> QED
      BY <2>1, <2>2, <2>3, Zenon DEF Drained
<1>24. CASE AllStopped
  <2>1. UNCHANGED <<aborted, queue, wpc, batch, terminated, leader>>
      BY <1>24, Zenon DEF AllStopped, work, wakers
  <2>2. \A w \in Workers : (Stopping(w)' <=> Stopping(w)) /\ Chan(w)' = Chan(w)
      BY <2>1, Zenon DEF Stopping, Chan
  <2>3. main \notin {"serving", "joining"} /\ main' \notin {"serving", "joining"} /\ late' = late
      BY <1>24, Zenon DEF AllStopped
  <2> QED
      BY <2>1, <2>2, <2>3, Zenon DEF Drained
<1>25. CASE \/ \E j \in Jobs : Reject(j)
            \/ \E w \in FiberWorkers : FiberAnswers(w) \/ WakerSeesChange(w) \/ WakerUnblocks(w)
            \/ UNCHANGED vars
  <2>1. UNCHANGED <<main, aborted, late, queue, wpc, batch, terminated, leader>>
      BY <1>25, Zenon DEF FiberAnswers, WakerSeesChange, WakerUnblocks, Reject, vars, work,
         wakers, control
  <2> QED
      BY <1>0, <2>1, Zenon DEF Stopping
<1> QED
    BY <1>1, <1>2, <1>3, <1>4, <1>5, <1>6, <1>7, <1>8, <1>9, <1>10, <1>11, <1>12, <1>13,
       <1>14, <1>15, <1>16, <1>17, <1>18, <1>19, <1>20, <1>21, <1>22, <1>23, <1>24, <1>25,
       Zenon DEF Next, ThreadStep, FiberStep, WakerStep, MainStep

\* A shutdown that needed no force has answered every request it accepted:
\* when all workers have ended in time, nothing is left in a channel, with a
\* waker, in a batch or on a fiber.
THEOREM GracefulDrainCorrect == Spec => []GracefulDrain
<1> DEFINE Inv == PoolInv /\ Accounted /\ Quiet /\ Drained
<1>1. Init => Inv
  <2> SUFFICES ASSUME Init PROVE Accounted /\ Quiet /\ Drained
      BY PoolInvHolds, Zenon
  <2>1. Range(<<>>) = {} /\ Ordered(<<>>)
      BY DEF Range, Ordered
  <2>2. Accounted
      BY Zenon DEF Init, Accounted
  <2>3. Quiet
      BY WorkerFacts, Zenon DEF Init, Quiet, Expects
  <2>4. \A w \in Workers : ~Stopping(w)
      BY WorkerFacts, <2>1, PoolAssumption, Zenon DEF Init, Stopping
  <2>5. Drained
      BY <2>1, <2>4, Zenon DEF Init, Drained
  <2> QED
      BY <2>2, <2>3, <2>5, Zenon
<1>2. Inv /\ [Next]_vars => Inv'
    BY PoolInvHolds, AccountedStep, QuietStep, DrainedStep, Zenon DEF PoolInv
<1>3. Inv => GracefulDrain
  <2> SUFFICES ASSUME Inv, main = "done", ~late, ~aborted, NEW j \in Jobs
               PROVE  job[j] \notin {"queued", "running", "dropped"}
      BY Zenon DEF GracefulDrain
  <2>1. \A w \in Workers : wpc[w] = "dead"
      BY Zenon DEF Quiet
  <2>2. job[j] # "dropped"
      BY Zenon DEF Accounted
  <2>3. \A w \in FiberWorkers : fibers[w] = {}
      BY WorkerFacts, <2>1, Zenon DEF Accounted
  <2>4. job[j] # "running"
      BY WorkerFacts, <2>1, <2>3, Zenon DEF Accounted, Runs
  <2>5. \A c \in Channels : j \notin Range(queue[c])
    <3>1. \A c \in Channels : \E w \in Workers : Chan(w) = c
      <4>1. CASE ThreadWorkers # {} /\ FiberWorkers # {}
        <5>1. Channels = {"blocking", "nonblocking"}
            BY <4>1, Zenon DEF Channels
        <5>2. (\A w \in FiberWorkers : Chan(w) = "nonblocking") /\ (\A w \in ThreadWorkers : Chan(w) = "blocking")
            BY <5>1, WorkerFacts, Zenon DEF Chan
        <5> QED
            BY <4>1, <5>1, <5>2, WorkerFacts, Zenon
      <4>2. CASE ~(ThreadWorkers # {} /\ FiberWorkers # {})
        <5>1. Channels = {"blocking"}
            BY <4>2, Zenon DEF Channels
        <5>2. \A w \in Workers : Chan(w) = "blocking"
            BY <5>1, WorkerFacts, Zenon
        <5> QED
            BY <5>1, <5>2, PoolAssumption, Zenon
      <4> QED
          BY <4>1, <4>2, Zenon
    <3>2. \A w \in Workers : Range(queue[Chan(w)]) \subseteq {Shutdown}
        BY <2>1, Zenon DEF Drained, Stopping
    <3>3. j # Shutdown
        BY WorkerFacts, Zenon
    <3>4. \A c \in Channels : Range(queue[c]) \subseteq {Shutdown}
      <4> SUFFICES ASSUME NEW c \in Channels PROVE Range(queue[c]) \subseteq {Shutdown}
          BY Zenon
      <4>1. PICK w \in Workers : Chan(w) = c
          BY <3>1, Zenon
      <4>2. Range(queue[Chan(w)]) \subseteq {Shutdown}
          BY <3>2, Zenon
      <4> QED
          BY <4>1, <4>2, Zenon
    <3> QED
        BY <3>3, <3>4, Zenon
  <2>6. \A w \in FiberWorkers : leader[w] # j
      BY WorkerFacts, <2>1, Zenon DEF Quiet
  <2>7. \A w \in Workers : ~InBatch(j, w)
    <3>1. \A w \in Workers : batch[w] = <<>>
        BY WorkerFacts, <2>1, Zenon DEF PoolInv, BatchShape
    <3>2. Range(<<>>) = {}
        BY DEF Range
    <3> QED
        BY <3>1, <3>2, Zenon DEF InBatch
  <2>8. job[j] # "queued"
      BY <2>5, <2>6, <2>7, Zenon DEF PoolInv, Placed, HeldOnce, HeldIn
  <2> QED
      BY <2>2, <2>4, <2>8, Zenon
<1> QED
    BY <1>1, <1>2, <1>3, PTL DEF Spec

\* A worker, or its waker, may still take a Shutdown from the channel.
CanTake(w) ==
    \/ w \in ThreadWorkers /\ wpc[w] # "dead" /\ ~(wpc[w] = "check" /\ terminated[w])
    \/ w \in FiberWorkers /\ Expects(w)
    \/ /\ w \in FiberWorkers /\ wpc[w] \notin {"draining", "dead"}
       /\ Shutdown \notin Range(batch[w]) /\ leader[w] # Shutdown

On(c) == {w \in Workers : Chan(w) = c}
Takers(c) == {w \in Workers : Chan(w) = c /\ CanTake(w)}

\* The Shutdowns that the main thread has sent to a channel.
SentTo(c) == IF "nonblocking" \notin Channels THEN sent
             ELSE IF c = "blocking" THEN (sent + 1) \div 2 ELSE sent \div 2

\* A worker takes at most one Shutdown: each one that is gone from its channel
\* has stopped one worker.
Supply ==
    /\ \A c \in Channels : Cardinality(Left(queue[c])) + Cardinality(On(c))
                              >= SentTo(c) + Cardinality(Takers(c))
    /\ main \in {"polling", "done"} => sent = Shutdowns

\* The sets that are counted are finite.
LEMMA Counted ==
    \A c : /\ IsFiniteSet(On(c)) /\ Cardinality(On(c)) \in Nat
           /\ IsFiniteSet(Takers(c)) /\ Cardinality(Takers(c)) \in Nat
           /\ \A S : S \subseteq Takers(c) => Cardinality(S) \in Nat /\ Cardinality(S) <= Cardinality(Takers(c))
           /\ Cardinality(On(c)) <= Cardinality(Workers) /\ Cardinality(Workers) \in Nat
<1> SUFFICES ASSUME NEW c
             PROVE  /\ IsFiniteSet(On(c)) /\ Cardinality(On(c)) \in Nat
                    /\ IsFiniteSet(Takers(c)) /\ Cardinality(Takers(c)) \in Nat
                    /\ \A S : S \subseteq Takers(c) => Cardinality(S) \in Nat /\ Cardinality(S) <= Cardinality(Takers(c))
                    /\ Cardinality(On(c)) <= Cardinality(Workers) /\ Cardinality(Workers) \in Nat
    BY Zenon
<1>1. IsFiniteSet(Workers) /\ On(c) \subseteq Workers /\ Takers(c) \subseteq Workers
    BY PoolAssumption, Zenon DEF On, Takers
<1>2. /\ IsFiniteSet(On(c)) /\ IsFiniteSet(Takers(c))
      /\ Cardinality(On(c)) <= Cardinality(Workers)
    BY <1>1, FS_Subset, Zenon
<1>3. \A S : S \subseteq Takers(c) => IsFiniteSet(S) /\ Cardinality(S) <= Cardinality(Takers(c))
    BY <1>2, FS_Subset, Zenon
<1> QED
    BY <1>1, <1>2, <1>3, FS_CardinalityType, Zenon

\* Where no Shutdown is sent or received, none can be wanted anew.
LEMMA SupplyKept ==
    ASSUME TypeOK, Supply, queue' = queue, sent' = sent,
           main' \in {"polling", "done"} => main \in {"polling", "done"} \/ sent = Shutdowns,
           \A w \in Workers : CanTake(w)' => CanTake(w)
    PROVE  Supply'
<1>1. ASSUME NEW c \in Channels
      PROVE  Cardinality(Left(queue'[c])) + Cardinality(On(c)) >= SentTo(c) + Cardinality(Takers(c)')
  <2>1. Takers(c)' \subseteq Takers(c)
      BY Zenon DEF Takers, Chan
  <2>2. /\ Cardinality(Takers(c)') \in Nat /\ Cardinality(Takers(c)') <= Cardinality(Takers(c))
        /\ Cardinality(Takers(c)) \in Nat /\ Cardinality(On(c)) \in Nat
      BY <2>1, Counted, Zenon
  <2>3. Cardinality(Left(queue[c])) \in Nat
      BY LeftFacts, Zenon DEF TypeOK
  <2>4. SentTo(c) \in Int
      BY DEF SentTo, TypeOK
  <2>5. Cardinality(Left(queue[c])) + Cardinality(On(c)) >= SentTo(c) + Cardinality(Takers(c))
      BY Zenon DEF Supply
  <2>6. queue'[c] = queue[c]
      BY Zenon
  <2> QED
      BY <2>2, <2>3, <2>4, <2>5, <2>6
<1>2. \A c : On(c)' = On(c) /\ SentTo(c)' = SentTo(c) /\ Left(queue[c])' = Left(queue'[c])
    BY Zenon DEF On, Chan, SentTo, Left
<1>3. main' \in {"polling", "done"} => sent' = Shutdowns'
    BY Zenon DEF Supply, Shutdowns
<1> QED
    BY <1>1, <1>2, <1>3, Zenon DEF Supply

\* Receiving takes a Shutdown only for a worker that then needs no other.
LEMMA SupplyTaken ==
    ASSUME TypeOK, Supply, NEW w \in Workers, queue[Chan(w)] # <<>>, Receive(Chan(w)),
           sent' = sent, main' = main,
           \A v \in Workers : CanTake(v)' => CanTake(v),
           Head(queue[Chan(w)]) = Shutdown => CanTake(w) /\ ~CanTake(w)'
    PROVE  Supply'
<1> DEFINE c == Chan(w)
           m == Head(queue[Chan(w)])
<1>0. c \in Channels /\ queue[c] \in Seq(Message) /\ c' = c
    BY WorkerFacts, Zenon DEF TypeOK, Chan
<1>1. queue'[c] = Tail(queue[c]) /\ \A d \in Channels : d # c => queue'[d] = queue[d]
    BY Domains, <1>0, Zenon DEF Receive
<1>2. ASSUME NEW d \in Channels
      PROVE  Cardinality(Left(queue'[d])) + Cardinality(On(d)) >= SentTo(d) + Cardinality(Takers(d)')
  <2>1. Takers(d)' \subseteq Takers(d)
      BY Zenon DEF Takers, Chan
  <2>2. /\ Cardinality(Takers(d)') \in Nat /\ Cardinality(Takers(d)') <= Cardinality(Takers(d))
        /\ Cardinality(Takers(d)) \in Nat /\ Cardinality(On(d)) \in Nat
      BY <2>1, Counted, Zenon
  <2>3. Cardinality(Left(queue[d])) \in Nat
      BY LeftFacts, Zenon DEF TypeOK
  <2>4. SentTo(d) \in Int
      BY DEF SentTo, TypeOK
  <2>5. Cardinality(Left(queue[d])) + Cardinality(On(d)) >= SentTo(d) + Cardinality(Takers(d))
      BY Zenon DEF Supply
  <2>6. CASE d # c
    <3>1. queue'[d] = queue[d]
        BY <1>1, <2>6, Zenon
    <3> QED
        BY <2>2, <2>3, <2>4, <2>5, <3>1
  <2>7. CASE d = c
    <3>1. /\ Cardinality(Left(queue[d])) = Cardinality(Left(queue'[d])) + (IF m = Shutdown THEN 1 ELSE 0)
          /\ Cardinality(Left(queue'[d])) \in Nat
      <4>1. queue[d] \in Seq(Message) /\ queue[d] # <<>> /\ queue'[d] = Tail(queue[d]) /\ m = Head(queue[d])
          BY <1>0, <1>1, <2>7, Zenon
      <4>2. Tail(queue[d]) \in Seq(Message)
          BY <4>1, TailFacts, Zenon
      <4> QED
          BY <4>1, <4>2, LeftFacts, Zenon
    <3>2. CASE m # Shutdown
        BY <2>2, <2>3, <2>4, <2>5, <3>1, <3>2
    <3>3. CASE m = Shutdown
      <4>1. w \in Takers(d) /\ Takers(d)' \subseteq Takers(d) \ {w}
          BY <2>1, <2>7, <3>3, Zenon DEF Takers
      <4>2. Cardinality(Takers(d) \ {w}) = Cardinality(Takers(d)) - 1 /\ IsFiniteSet(Takers(d) \ {w})
          BY <4>1, Counted, FS_RemoveElement, Zenon
      <4>3. Cardinality(Takers(d)') <= Cardinality(Takers(d) \ {w})
          BY <4>1, <4>2, FS_Subset, Zenon
      <4> QED
          BY <2>2, <2>3, <2>4, <2>5, <3>1, <3>3, <4>2, <4>3
    <3> QED
        BY <3>2, <3>3, Zenon
  <2> QED
      BY <2>6, <2>7, Zenon
<1>3. \A d : On(d)' = On(d) /\ SentTo(d)' = SentTo(d) /\ Left(queue[d])' = Left(queue'[d])
    BY Zenon DEF On, Chan, SentTo, Left
<1>4. main' \in {"polling", "done"} => sent' = Shutdowns'
    BY Zenon DEF Supply, Shutdowns
<1> QED
    BY <1>2, <1>3, <1>4, Zenon DEF Supply

\* Sending a Shutdown adds it to its channel.
LEMMA SupplySent ==
    ASSUME TypeOK, WorkerLabels, Supply, SendShutdown
    PROVE  Supply'
<1> DEFINE c == IF sent % 2 = 0 THEN "blocking" ELSE NonblockingSender
<1>1. Send(c, Shutdown) /\ sent' = sent + 1 /\ main = "sending" /\ main' = main
      /\ UNCHANGED <<wpc, batch, terminated, leader, waker, changed, stop>>
    BY Zenon DEF SendShutdown, wakers
<1>2. c \in Channels
    BY WorkerFacts, Zenon
<1>3. queue[c] \in Seq(Message) /\ Shutdown \in Message
    BY <1>2, WorkerFacts, Zenon DEF TypeOK
<1> HIDE DEF c
<1>4. queue'[c] = Append(queue[c], Shutdown) /\ \A d \in Channels : d # c => queue'[d] = queue[d]
    BY Domains, <1>1, <1>2, Zenon DEF Send
<1>5. sent \in Nat
    BY Zenon DEF TypeOK
<1>6. \A d : /\ On(d)' = On(d) /\ Takers(d)' = Takers(d) /\ Left(queue[d])' = Left(queue'[d])
    BY <1>1, Zenon DEF On, Takers, Chan, CanTake, Expects, Left
<1>7. ASSUME NEW d \in Channels
      PROVE  SentTo(d)' \in Int /\ SentTo(d) \in Int /\ SentTo(d)' = IF d = c THEN SentTo(d) + 1 ELSE SentTo(d)
  <2>1. CASE "nonblocking" \notin Channels
    <3>1. d = "blocking" /\ c = "blocking"
        BY <1>2, <2>1, Zenon DEF Channels
    <3> QED
      <4>1. SentTo(d) = sent /\ SentTo(d)' = sent'
          BY <2>1, Zenon DEF SentTo
      <4> QED
          BY <1>1, <1>5, <3>1, <4>1
  <2>2. CASE "nonblocking" \in Channels
    <3>1. d \in {"blocking", "nonblocking"} /\ c = IF sent % 2 = 0 THEN "blocking" ELSE "nonblocking"
        BY <2>2, Zenon DEF Channels, c, NonblockingSender
    <3>2. SentTo(d) = (IF d = "blocking" THEN (sent + 1) \div 2 ELSE sent \div 2)
        BY <2>2, Zenon DEF SentTo
    <3>3. SentTo(d)' = (IF d = "blocking" THEN (sent + 2) \div 2 ELSE (sent + 1) \div 2)
      <4>1. SentTo(d)' = (IF d = "blocking" THEN (sent' + 1) \div 2 ELSE sent' \div 2)
          BY <2>2, Zenon DEF SentTo, Channels
      <4>2. sent' + 1 = sent + 2
          BY <1>1, <1>5
      <4> QED
          BY <1>1, <4>1, <4>2, Zenon
    <3>4. /\ (sent + 2) \div 2 = (IF sent % 2 = 0 THEN (sent + 1) \div 2 + 1 ELSE (sent + 1) \div 2)
          /\ (sent + 1) \div 2 = (IF sent % 2 = 0 THEN sent \div 2 ELSE sent \div 2 + 1)
          /\ (sent + 1) \div 2 \in Int /\ sent \div 2 \in Int /\ (sent + 2) \div 2 \in Int
        BY <1>5
    <3> QED
        BY <3>1, <3>2, <3>3, <3>4
  <2> QED
      BY <2>1, <2>2, Zenon
<1>8. ASSUME NEW d \in Channels
      PROVE  Cardinality(Left(queue'[d])) + Cardinality(On(d)) >= SentTo(d)' + Cardinality(Takers(d))
  <2>1. Cardinality(Left(queue'[d])) = Cardinality(Left(queue[d])) + (IF d = c THEN 1 ELSE 0)
    <3>1. d = c => Cardinality(Left(queue'[d])) = Cardinality(Left(queue[d])) + (IF Shutdown = Shutdown THEN 1 ELSE 0)
        BY <1>3, <1>4, LeftFacts, Zenon
    <3>2. d # c => queue'[d] = queue[d]
        BY <1>4, Zenon
    <3>3. Cardinality(Left(queue[d])) \in Nat
        BY LeftFacts, Zenon DEF TypeOK
    <3> QED
        BY <3>1, <3>2, <3>3
  <2>2. Cardinality(Left(queue[d])) \in Nat
      BY LeftFacts, Zenon DEF TypeOK
  <2>3. Cardinality(Takers(d)) \in Nat /\ Cardinality(On(d)) \in Nat
      BY Counted, Zenon
  <2>4. Cardinality(Left(queue[d])) + Cardinality(On(d)) >= SentTo(d) + Cardinality(Takers(d))
      BY Zenon DEF Supply
  <2> QED
      BY <1>7, <2>1, <2>2, <2>3, <2>4
<1> QED
    BY <1>1, <1>6, <1>8, Zenon DEF Supply

\* Every step keeps enough Shutdowns in supply.
LEMMA SupplyStep == PoolInv /\ Supply /\ [Next]_vars => Supply'
<1> SUFFICES ASSUME PoolInv, Supply, [Next]_vars PROVE Supply'
    BY Zenon
<1>0. /\ TypeOK /\ WorkerLabels /\ SharedTypes
      /\ \A w \in FiberWorkers :
           /\ wpc[w] \in {"take", "fill", "schedule", "signal", "draining"} => ~Expects(w) /\ waker[w] # "armed"
           /\ wpc[w] \in {"fill", "schedule", "signal"} => leader[w] = NoJob
           /\ wpc[w] \in {"take", "signal"} => batch[w] = <<>>
           /\ wpc[w] = "fill" => Shutdown \notin Range(batch[w])
           /\ waker[w] = "armed" => ~(changed[w] /\ ~stop[w])
      /\ NoJob # Shutdown /\ Range(<<>>) = {}
  <2>1. Range(<<>>) = {}
      BY DEF Range
  <2> QED
      BY <2>1, WorkerFacts, Zenon DEF PoolInv, IInv, Handshake, Expects, BatchShape, LeaderFree
<1>40. ASSUME queue' = queue, sent' = sent, main' = main,
              \A w \in Workers : CanTake(w)' => CanTake(w)
       PROVE  Supply'
    BY <1>0, <1>40, SupplyKept, Zenon
<1>1. ASSUME NEW w \in FiberWorkers, TakeLeader(w) PROVE Supply'
  <2>8. \A v \in Workers : v # w => (CanTake(v)' <=> CanTake(v))
    <3>1. \A v \in Workers : v # w => /\ wpc'[v] = wpc[v] /\ batch'[v] = batch[v]
                                     /\ terminated'[v] = terminated[v]
        BY WorkerFacts, Domains, <1>0, <1>1, Zenon DEF TakeLeader, Goto, work
    <3>2. \A v \in FiberWorkers : v # w => leader'[v] = leader[v] /\ (Expects(v)' <=> Expects(v))
        BY WorkerFacts, Domains, <1>0, <1>1, ZenonT(30) DEF TakeLeader, Signal, wakers,
           Expects, SharedTypes
    <3> QED
        BY <3>1, <3>2, Zenon DEF CanTake
  <2>1. UNCHANGED <<queue, main, sent>>
      BY <1>1, Zenon DEF TakeLeader, control
  <2>2. CASE leader[w] = Shutdown
    <3>1. wpc'[w] = "draining" /\ stop'[w] = TRUE /\ waker'[w] # "armed"
        BY WorkerFacts, Domains, <1>0, <1>1, <2>2, Zenon DEF TakeLeader, Goto, Signal,
           SharedTypes
    <3>2. ~CanTake(w)'
        BY WorkerFacts, <3>1, Zenon DEF CanTake, Expects
    <3> QED
        BY <1>40, <2>1, <2>8, <3>2, Zenon
  <2>3. CASE leader[w] # Shutdown
    <3>1. CanTake(w)
        BY <1>0, <1>1, <2>3, Zenon DEF TakeLeader, CanTake
    <3> QED
        BY <1>40, <2>1, <2>8, <3>1, Zenon
  <2> QED
      BY <2>2, <2>3, Zenon
<1>2. ASSUME NEW w \in FiberWorkers, FillBatch(w) PROVE Supply'
  <2>8. \A v \in Workers : v # w => (CanTake(v)' <=> CanTake(v))
    <3>1. \A v \in Workers : v # w => /\ wpc'[v] = wpc[v] /\ batch'[v] = batch[v]
                                     /\ terminated'[v] = terminated[v]
        BY WorkerFacts, Domains, <1>0, <1>2, Zenon DEF FillBatch, Goto, work
    <3>2. \A v \in FiberWorkers : v # w => leader'[v] = leader[v] /\ (Expects(v)' <=> Expects(v))
        BY WorkerFacts, Domains, <1>0, <1>2, ZenonT(30) DEF FillBatch, Signal, wakers,
           Expects, SharedTypes
    <3> QED
        BY <3>1, <3>2, Zenon DEF CanTake
  <2>1. queue[Chan(w)] # <<>> /\ Receive(Chan(w)) /\ UNCHANGED <<main, sent>>
      BY <1>2, Zenon DEF FillBatch, control
  <2>2. CanTake(w)
      BY <1>0, <1>2, Zenon DEF FillBatch, CanTake
  <2>3. ASSUME Head(queue[Chan(w)]) = Shutdown PROVE ~CanTake(w)'
    <3>1. wpc'[w] = "schedule" /\ batch'[w] = Append(batch[w], Shutdown) /\ UNCHANGED <<leader, waker, changed, stop>>
        BY WorkerFacts, Domains, <1>0, <1>2, <2>3, Zenon DEF FillBatch, Goto, wakers
    <3>2. Shutdown \in Range(batch'[w])
      <4>1. batch[w] \in Seq(Message) /\ Shutdown \in Message
          BY WorkerFacts, Domains, <1>0, Zenon
      <4>2. Range(Append(batch[w], Shutdown)) = Range(batch[w]) \cup {Shutdown}
          BY <4>1, AppendFacts, Zenon
      <4> QED
          BY <3>1, <4>2, Zenon
    <3>3. ~Expects(w)'
        BY <1>0, <1>2, <3>1, Zenon DEF FillBatch, Expects
    <3> QED
        BY WorkerFacts, <3>1, <3>2, <3>3, Zenon DEF CanTake
  <2> QED
      BY WorkerFacts, <1>0, <2>1, <2>2, <2>3, <2>8, SupplyTaken, Zenon
<1>3. ASSUME NEW w \in FiberWorkers, BatchFilled(w) PROVE Supply'
  <2>8. \A v \in Workers : v # w => (CanTake(v)' <=> CanTake(v))
    <3>1. \A v \in Workers : v # w => /\ wpc'[v] = wpc[v] /\ batch'[v] = batch[v]
                                     /\ terminated'[v] = terminated[v]
        BY WorkerFacts, Domains, <1>0, <1>3, Zenon DEF BatchFilled, Goto, work
    <3>2. \A v \in FiberWorkers : v # w => leader'[v] = leader[v] /\ (Expects(v)' <=> Expects(v))
        BY WorkerFacts, Domains, <1>0, <1>3, ZenonT(30) DEF BatchFilled, Signal, wakers,
           Expects, SharedTypes
    <3> QED
        BY <3>1, <3>2, Zenon DEF CanTake
  <2>1. CanTake(w) /\ UNCHANGED <<queue, main, sent>>
      BY <1>0, <1>3, Zenon DEF BatchFilled, CanTake, work, control
  <2> QED
      BY <1>40, <2>1, <2>8, Zenon
<1>4. ASSUME NEW w \in FiberWorkers, ScheduleBatch(w) PROVE Supply'
  <2>8. \A v \in Workers : v # w => (CanTake(v)' <=> CanTake(v))
    <3>1. \A v \in Workers : v # w => /\ wpc'[v] = wpc[v] /\ batch'[v] = batch[v]
                                     /\ terminated'[v] = terminated[v]
        BY WorkerFacts, Domains, <1>0, <1>4, Zenon DEF ScheduleBatch, Goto, work
    <3>2. \A v \in FiberWorkers : v # w => leader'[v] = leader[v] /\ (Expects(v)' <=> Expects(v))
        BY WorkerFacts, Domains, <1>0, <1>4, ZenonT(30) DEF ScheduleBatch, Signal, wakers,
           Expects, SharedTypes
    <3> QED
        BY <3>1, <3>2, Zenon DEF CanTake
  <2>1. UNCHANGED <<queue, main, sent>>
      BY <1>4, Zenon DEF ScheduleBatch, control
  <2>2. CASE Shutdown \in Range(batch[w]) \/ terminated[w]
    <3>1. wpc'[w] = "draining" /\ stop'[w] = TRUE /\ waker'[w] # "armed"
        BY WorkerFacts, Domains, <1>0, <1>4, <2>2, Zenon DEF ScheduleBatch, Goto, Signal,
           SharedTypes
    <3>2. ~CanTake(w)'
        BY WorkerFacts, <3>1, Zenon DEF CanTake, Expects
    <3> QED
        BY <1>40, <2>1, <2>8, <3>2, Zenon
  <2>3. CASE ~(Shutdown \in Range(batch[w]) \/ terminated[w])
    <3>1. CanTake(w)
        BY <1>0, <1>4, <2>3, Zenon DEF ScheduleBatch, CanTake
    <3> QED
        BY <1>40, <2>1, <2>8, <3>1, Zenon
  <2> QED
      BY <2>2, <2>3, Zenon
<1>5. ASSUME NEW w \in FiberWorkers, CheckEmpty(w) PROVE Supply'
  <2>8. \A v \in Workers : v # w => (CanTake(v)' <=> CanTake(v))
    <3>1. \A v \in Workers : v # w => /\ wpc'[v] = wpc[v] /\ batch'[v] = batch[v]
                                     /\ terminated'[v] = terminated[v]
        BY WorkerFacts, Domains, <1>0, <1>5, Zenon DEF CheckEmpty, Goto, work
    <3>2. \A v \in FiberWorkers : v # w => leader'[v] = leader[v] /\ (Expects(v)' <=> Expects(v))
        BY WorkerFacts, Domains, <1>0, <1>5, ZenonT(30) DEF CheckEmpty, Signal, wakers,
           Expects, SharedTypes
    <3> QED
        BY <3>1, <3>2, Zenon DEF CanTake
  <2>1. UNCHANGED <<queue, main, sent, batch, leader, waker, changed, stop>>
      BY <1>5, Zenon DEF CheckEmpty, work, wakers, control
  <2>2. wpc'[w] \in {"draining", "dead"} \/ wpc[w] \notin {"draining", "dead"}
      BY WorkerFacts, Domains, <1>0, <1>5, Zenon DEF CheckEmpty, Goto
  <2>3. CanTake(w)' => CanTake(w)
      BY WorkerFacts, <2>1, <2>2, Zenon DEF CanTake, Expects
  <2> QED
      BY <1>40, <2>1, <2>3, <2>8, Zenon
<1>6. ASSUME NEW w \in FiberWorkers, SignalWaker(w) PROVE Supply'
  <2>8. \A v \in Workers : v # w => (CanTake(v)' <=> CanTake(v))
    <3>1. \A v \in Workers : v # w => /\ wpc'[v] = wpc[v] /\ batch'[v] = batch[v]
                                     /\ terminated'[v] = terminated[v]
        BY WorkerFacts, Domains, <1>0, <1>6, Zenon DEF SignalWaker, Goto, work
    <3>2. \A v \in FiberWorkers : v # w => leader'[v] = leader[v] /\ (Expects(v)' <=> Expects(v))
        BY WorkerFacts, Domains, <1>0, <1>6, ZenonT(30) DEF SignalWaker, Signal, wakers,
           Expects, SharedTypes
    <3> QED
        BY <3>1, <3>2, Zenon DEF CanTake
  <2>1. CanTake(w) /\ UNCHANGED <<queue, main, sent>>
      BY <1>0, <1>6, Zenon DEF SignalWaker, CanTake, work, control
  <2> QED
      BY <1>40, <2>1, <2>8, Zenon
<1>7. ASSUME NEW w \in FiberWorkers, Resume(w) PROVE Supply'
  <2>8. \A v \in Workers : v # w => (CanTake(v)' <=> CanTake(v))
    <3>1. \A v \in Workers : v # w => /\ wpc'[v] = wpc[v] /\ batch'[v] = batch[v]
                                     /\ terminated'[v] = terminated[v]
        BY WorkerFacts, Domains, <1>0, <1>7, Zenon DEF Resume, Goto, work
    <3>2. \A v \in FiberWorkers : v # w => leader'[v] = leader[v] /\ (Expects(v)' <=> Expects(v))
        BY WorkerFacts, Domains, <1>0, <1>7, ZenonT(30) DEF Resume, Signal, wakers,
           Expects, SharedTypes
    <3> QED
        BY <3>1, <3>2, Zenon DEF CanTake
  <2>1. UNCHANGED <<queue, main, sent, batch, leader, waker, changed, stop>>
      BY <1>7, Zenon DEF Resume, work, wakers, control
  <2>2. wpc'[w] \in {"draining", "dead"} \/ wpc[w] \notin {"draining", "dead"}
      BY WorkerFacts, Domains, <1>0, <1>7, Zenon DEF Resume, Goto
  <2>3. CanTake(w)' => CanTake(w)
      BY WorkerFacts, <2>1, <2>2, Zenon DEF CanTake, Expects
  <2> QED
      BY <1>40, <2>1, <2>3, <2>8, Zenon
<1>8. ASSUME NEW w \in FiberWorkers, SchedulerExits(w) PROVE Supply'
  <2>8. \A v \in Workers : v # w => (CanTake(v)' <=> CanTake(v))
    <3>1. \A v \in Workers : v # w => /\ wpc'[v] = wpc[v] /\ batch'[v] = batch[v]
                                     /\ terminated'[v] = terminated[v]
        BY WorkerFacts, Domains, <1>0, <1>8, Zenon DEF SchedulerExits, Goto, work
    <3>2. \A v \in FiberWorkers : v # w => leader'[v] = leader[v] /\ (Expects(v)' <=> Expects(v))
        BY WorkerFacts, Domains, <1>0, <1>8, ZenonT(30) DEF SchedulerExits, Signal, wakers,
           Expects, SharedTypes
    <3> QED
        BY <3>1, <3>2, Zenon DEF CanTake
  <2>1. UNCHANGED <<queue, main, sent, batch, leader, waker, changed, stop>>
      BY <1>8, Zenon DEF SchedulerExits, work, wakers, control
  <2>2. wpc'[w] \in {"draining", "dead"} \/ wpc[w] \notin {"draining", "dead"}
      BY WorkerFacts, Domains, <1>0, <1>8, Zenon DEF SchedulerExits, Goto
  <2>3. CanTake(w)' => CanTake(w)
      BY WorkerFacts, <2>1, <2>2, Zenon DEF CanTake, Expects
  <2> QED
      BY <1>40, <2>1, <2>3, <2>8, Zenon
<1>9. ASSUME NEW w \in FiberWorkers, WakerSeesChange(w) PROVE Supply'
  <2>1. UNCHANGED <<queue, main, sent, wpc, batch, leader, terminated>>
      BY <1>9, Zenon DEF WakerSeesChange, work, control
  <2>2. \A v \in FiberWorkers : Expects(v)' => Expects(v)
      BY Domains, <1>0, <1>9, ZenonT(30) DEF WakerSeesChange, Expects, SharedTypes
  <2>3. \A v \in Workers : CanTake(v)' => CanTake(v)
      BY <2>1, <2>2, Zenon DEF CanTake
  <2> QED
      BY <1>40, <2>1, <2>3, Zenon
<1>10. ASSUME NEW w \in FiberWorkers, WakerReceives(w) PROVE Supply'
  <2>1. queue[Chan(w)] # <<>> /\ Receive(Chan(w)) /\ UNCHANGED <<main, sent, wpc, batch, terminated, changed, stop>>
      BY <1>10, Zenon DEF WakerReceives, control
  <2>2. \A v \in FiberWorkers : v # w => leader'[v] = leader[v] /\ waker'[v] = waker[v]
      BY Domains, <1>0, <1>10, Zenon DEF WakerReceives
  <2>3. \A v \in Workers : v # w => (CanTake(v)' <=> CanTake(v))
      BY <2>1, <2>2, Zenon DEF CanTake, Expects
  <2>4. CanTake(w)
      BY <1>10, Zenon DEF WakerReceives, CanTake, Expects
  <2>5. leader'[w] = Head(queue[Chan(w)]) /\ waker'[w] = "unblock" /\ ~(changed[w] /\ ~stop[w])
      BY Domains, <1>0, <1>10, Zenon DEF WakerReceives
  <2>6. Head(queue[Chan(w)]) = Shutdown => ~CanTake(w)'
      BY WorkerFacts, <2>1, <2>5, Zenon DEF CanTake, Expects
  <2> QED
      BY WorkerFacts, <1>0, <2>1, <2>3, <2>4, <2>6, SupplyTaken, Zenon
<1>11. ASSUME NEW w \in FiberWorkers, WakerUnblocks(w) PROVE Supply'
  <2>1. UNCHANGED <<queue, main, sent, wpc, batch, leader, terminated>>
      BY <1>11, Zenon DEF WakerUnblocks, work, control
  <2>2. \A v \in FiberWorkers : Expects(v)' => Expects(v)
      BY Domains, <1>0, <1>11, ZenonT(30) DEF WakerUnblocks, Expects, SharedTypes
  <2>3. \A v \in Workers : CanTake(v)' => CanTake(v)
      BY <2>1, <2>2, Zenon DEF CanTake
  <2> QED
      BY <1>40, <2>1, <2>3, Zenon
<1>12. ASSUME NEW w \in ThreadWorkers, RecvBlocking(w) PROVE Supply'
  <2>8. \A v \in Workers : v # w => (CanTake(v)' <=> CanTake(v))
    <3>1. \A v \in Workers : v # w => /\ wpc'[v] = wpc[v] /\ batch'[v] = batch[v]
                                     /\ terminated'[v] = terminated[v]
        BY WorkerFacts, Domains, <1>0, <1>12, Zenon DEF RecvBlocking, Goto, work
    <3>2. \A v \in FiberWorkers : v # w => leader'[v] = leader[v] /\ (Expects(v)' <=> Expects(v))
        BY WorkerFacts, Domains, <1>0, <1>12, ZenonT(30) DEF RecvBlocking, Signal, wakers,
           Expects, SharedTypes
    <3> QED
        BY <3>1, <3>2, Zenon DEF CanTake
  <2>1. queue[Chan(w)] # <<>> /\ Receive(Chan(w)) /\ UNCHANGED <<main, sent>>
      BY <1>12, Zenon DEF RecvBlocking, control
  <2>2. CanTake(w)
      BY <1>12, Zenon DEF RecvBlocking, CanTake
  <2>3. Head(queue[Chan(w)]) = Shutdown => ~CanTake(w)'
      BY WorkerFacts, Domains, <1>0, <1>12, Zenon DEF RecvBlocking, Goto, CanTake
  <2> QED
      BY WorkerFacts, <1>0, <2>1, <2>2, <2>3, <2>8, SupplyTaken, Zenon
<1>13. ASSUME NEW w \in ThreadWorkers, ProcessOne(w) PROVE Supply'
  <2>8. \A v \in Workers : v # w => (CanTake(v)' <=> CanTake(v))
    <3>1. \A v \in Workers : v # w => /\ wpc'[v] = wpc[v] /\ batch'[v] = batch[v]
                                     /\ terminated'[v] = terminated[v]
        BY WorkerFacts, Domains, <1>0, <1>13, Zenon DEF ProcessOne, Goto, work
    <3>2. \A v \in FiberWorkers : v # w => leader'[v] = leader[v] /\ (Expects(v)' <=> Expects(v))
        BY WorkerFacts, Domains, <1>0, <1>13, ZenonT(30) DEF ProcessOne, Signal, wakers,
           Expects, SharedTypes
    <3> QED
        BY <3>1, <3>2, Zenon DEF CanTake
  <2>1. CanTake(w) /\ UNCHANGED <<queue, main, sent>>
      BY <1>13, Zenon DEF ProcessOne, CanTake, work, control
  <2> QED
      BY <1>40, <2>1, <2>8, Zenon
<1>14. ASSUME NEW w \in ThreadWorkers, AppReturns(w) PROVE Supply'
  <2>8. \A v \in Workers : v # w => (CanTake(v)' <=> CanTake(v))
    <3>1. \A v \in Workers : v # w => /\ wpc'[v] = wpc[v] /\ batch'[v] = batch[v]
                                     /\ terminated'[v] = terminated[v]
        BY WorkerFacts, Domains, <1>0, <1>14, Zenon DEF AppReturns, Goto, work
    <3>2. \A v \in FiberWorkers : v # w => leader'[v] = leader[v] /\ (Expects(v)' <=> Expects(v))
        BY WorkerFacts, Domains, <1>0, <1>14, ZenonT(30) DEF AppReturns, Signal, wakers,
           Expects, SharedTypes
    <3> QED
        BY <3>1, <3>2, Zenon DEF CanTake
  <2>1. CanTake(w) /\ UNCHANGED <<queue, main, sent>>
      BY <1>14, Zenon DEF AppReturns, CanTake, work, control
  <2> QED
      BY <1>40, <2>1, <2>8, Zenon
<1>15. ASSUME NEW w \in ThreadWorkers, DrainNext(w) PROVE Supply'
  <2>8. \A v \in Workers : v # w => (CanTake(v)' <=> CanTake(v))
    <3>1. \A v \in Workers : v # w => /\ wpc'[v] = wpc[v] /\ batch'[v] = batch[v]
                                     /\ terminated'[v] = terminated[v]
        BY WorkerFacts, Domains, <1>0, <1>15, Zenon DEF DrainNext, Goto, work
    <3>2. \A v \in FiberWorkers : v # w => leader'[v] = leader[v] /\ (Expects(v)' <=> Expects(v))
        BY WorkerFacts, Domains, <1>0, <1>15, ZenonT(30) DEF DrainNext, Signal, wakers,
           Expects, SharedTypes
    <3> QED
        BY <3>1, <3>2, Zenon DEF CanTake
  <2>1. queue[Chan(w)] # <<>> /\ Receive(Chan(w)) /\ UNCHANGED <<main, sent>>
      BY <1>15, Zenon DEF DrainNext, control
  <2>2. CanTake(w)
      BY <1>15, Zenon DEF DrainNext, CanTake
  <2>3. Head(queue[Chan(w)]) = Shutdown => ~CanTake(w)'
      BY WorkerFacts, Domains, <1>0, <1>15, Zenon DEF DrainNext, Goto, CanTake
  <2> QED
      BY WorkerFacts, <1>0, <2>1, <2>2, <2>3, <2>8, SupplyTaken, Zenon
<1>16. ASSUME NEW w \in ThreadWorkers, DrainEmpty(w) PROVE Supply'
  <2>8. \A v \in Workers : v # w => (CanTake(v)' <=> CanTake(v))
    <3>1. \A v \in Workers : v # w => /\ wpc'[v] = wpc[v] /\ batch'[v] = batch[v]
                                     /\ terminated'[v] = terminated[v]
        BY WorkerFacts, Domains, <1>0, <1>16, Zenon DEF DrainEmpty, Goto, work
    <3>2. \A v \in FiberWorkers : v # w => leader'[v] = leader[v] /\ (Expects(v)' <=> Expects(v))
        BY WorkerFacts, Domains, <1>0, <1>16, ZenonT(30) DEF DrainEmpty, Signal, wakers,
           Expects, SharedTypes
    <3> QED
        BY <3>1, <3>2, Zenon DEF CanTake
  <2>1. CanTake(w) /\ UNCHANGED <<queue, main, sent>>
      BY <1>16, Zenon DEF DrainEmpty, CanTake, work, control
  <2> QED
      BY <1>40, <2>1, <2>8, Zenon
<1>17. ASSUME NEW w \in ThreadWorkers, CheckTerminated(w) PROVE Supply'
  <2>8. \A v \in Workers : v # w => (CanTake(v)' <=> CanTake(v))
    <3>1. \A v \in Workers : v # w => /\ wpc'[v] = wpc[v] /\ batch'[v] = batch[v]
                                     /\ terminated'[v] = terminated[v]
        BY WorkerFacts, Domains, <1>0, <1>17, Zenon DEF CheckTerminated, Goto, work
    <3>2. \A v \in FiberWorkers : v # w => leader'[v] = leader[v] /\ (Expects(v)' <=> Expects(v))
        BY WorkerFacts, Domains, <1>0, <1>17, ZenonT(30) DEF CheckTerminated, Signal,
           wakers, Expects, SharedTypes
    <3> QED
        BY <3>1, <3>2, Zenon DEF CanTake
  <2>1. UNCHANGED <<queue, main, sent>>
      BY <1>17, Zenon DEF CheckTerminated, work, control
  <2>2. CASE terminated[w]
    <3>1. ~CanTake(w)'
        BY WorkerFacts, Domains, <1>0, <1>17, <2>2, Zenon DEF CheckTerminated, Goto, CanTake
    <3> QED
        BY <1>40, <2>1, <2>8, <3>1, Zenon
  <2>3. CASE ~terminated[w]
    <3>1. CanTake(w)
        BY <1>17, <2>3, Zenon DEF CheckTerminated, CanTake
    <3> QED
        BY <1>40, <2>1, <2>8, <3>1, Zenon
  <2> QED
      BY <2>2, <2>3, Zenon
<1>18. ASSUME NEW w \in Workers, PollShutdown(w) PROVE Supply'
  <2>1. UNCHANGED <<queue, main, sent, wpc, batch, leader, waker, changed, stop>>
      BY <1>18, Zenon DEF PollShutdown, work, wakers, control
  <2>2. \A v \in Workers : terminated[v] => terminated'[v]
      BY Domains, <1>0, <1>18, Zenon DEF PollShutdown
  <2>3. \A v \in Workers : CanTake(v)' => CanTake(v)
      BY <2>1, <2>2, Zenon DEF CanTake, Expects
  <2> QED
      BY <1>40, <2>1, <2>3, Zenon
<1>19. ASSUME NEW w \in Workers, ThreadKilled(w) PROVE Supply'
  <2>8. \A v \in Workers : v # w => (CanTake(v)' <=> CanTake(v))
    <3>1. \A v \in Workers : v # w => /\ wpc'[v] = wpc[v] /\ batch'[v] = batch[v]
                                     /\ terminated'[v] = terminated[v]
        BY WorkerFacts, Domains, <1>0, <1>19, Zenon DEF ThreadKilled, Goto, work
    <3>2. \A v \in FiberWorkers : v # w => leader'[v] = leader[v] /\ (Expects(v)' <=> Expects(v))
        BY WorkerFacts, Domains, <1>0, <1>19, ZenonT(30) DEF ThreadKilled, wakers, Expects,
           SharedTypes
    <3> QED
        BY <3>1, <3>2, Zenon DEF CanTake
  <2>1. UNCHANGED <<queue, main, sent, leader, waker, changed, stop>> /\ wpc'[w] = "dead"
      BY Domains, <1>0, <1>19, Zenon DEF ThreadKilled, Goto, wakers, control
  <2>2. CanTake(w)' => CanTake(w)
      BY <2>1, Zenon DEF CanTake, Expects
  <2> QED
      BY <1>40, <2>1, <2>2, <2>8, Zenon
<1>20. ASSUME NEW j \in Jobs, Submit(j) PROVE Supply'
  <2>1. PICK c \in Channels : Send(c, j)
      BY <1>20, Zenon DEF Submit
  <2>2. UNCHANGED <<main, sent, wpc, batch, terminated, leader, waker, changed, stop>> /\ j \in Message /\ j # Shutdown
      BY WorkerFacts, <1>20, Zenon DEF Submit, control, wakers
  <2>3. queue'[c] = Append(queue[c], j) /\ \A d \in Channels : d # c => queue'[d] = queue[d]
      BY <1>0, Domains, <2>1, Zenon DEF Send
  <2>4. \A d \in Channels : Cardinality(Left(queue'[d])) = Cardinality(Left(queue[d]))
    <3>1. queue[c] \in Seq(Message) /\ Cardinality(Left(queue[c])) \in Nat
        BY <1>0, LeftFacts, Zenon DEF TypeOK
    <3>2. Cardinality(Left(Append(queue[c], j))) = Cardinality(Left(queue[c])) + (IF j = Shutdown THEN 1 ELSE 0)
        BY <2>2, <3>1, LeftFacts, Zenon
    <3>3. Cardinality(Left(queue'[c])) = Cardinality(Left(queue[c]))
        BY <2>2, <2>3, <3>1, <3>2
    <3> QED
        BY <2>3, <3>3, Zenon
  <2>5. \A d : /\ On(d)' = On(d) /\ Takers(d)' = Takers(d) /\ Left(queue[d])' = Left(queue'[d])
               /\ SentTo(d)' = SentTo(d)
      BY <2>2, Zenon DEF On, Takers, Chan, CanTake, Expects, Left, SentTo
  <2>6. Shutdowns' = Shutdowns
      BY Zenon DEF Shutdowns
  <2> QED
      BY <2>2, <2>4, <2>5, <2>6, Zenon DEF Supply
<1>21. CASE StopAccepting
  <2>1. UNCHANGED <<queue, sent, wpc, batch, leader, terminated, waker, changed, stop>>
      BY <1>21, Zenon DEF StopAccepting, work, wakers
  <2>2. main' \in {"polling", "done"} => main \in {"polling", "done"} \/ sent = Shutdowns
      BY <1>21, Zenon DEF StopAccepting
  <2>3. \A w \in Workers : CanTake(w)' => CanTake(w)
      BY <2>1, Zenon DEF CanTake, Expects
  <2> QED
      BY <1>0, <2>1, <2>2, <2>3, SupplyKept, Zenon
<1>22. CASE Join
  <2>1. UNCHANGED <<queue, sent, wpc, batch, leader, terminated, waker, changed, stop>>
      BY <1>22, Zenon DEF Join, work, wakers
  <2>2. main' \in {"polling", "done"} => main \in {"polling", "done"} \/ sent = Shutdowns
      BY <1>22, Zenon DEF Join
  <2>3. \A w \in Workers : CanTake(w)' => CanTake(w)
      BY <2>1, Zenon DEF CanTake, Expects
  <2> QED
      BY <1>0, <2>1, <2>2, <2>3, SupplyKept, Zenon
<1>23. CASE SendShutdown
    BY <1>0, <1>23, SupplySent, Zenon
<1>24. CASE AllSent
  <2>1. UNCHANGED <<queue, sent, wpc, batch, leader, terminated, waker, changed, stop>>
      BY <1>24, Zenon DEF AllSent, work, wakers
  <2>2. main' \in {"polling", "done"} => main \in {"polling", "done"} \/ sent = Shutdowns
      BY <1>24, Zenon DEF AllSent
  <2>3. \A w \in Workers : CanTake(w)' => CanTake(w)
      BY <2>1, Zenon DEF CanTake, Expects
  <2> QED
      BY <1>0, <2>1, <2>2, <2>3, SupplyKept, Zenon
<1>25. CASE AllStopped
  <2>1. UNCHANGED <<queue, sent, wpc, batch, leader, terminated, waker, changed, stop>>
      BY <1>25, Zenon DEF AllStopped, work, wakers
  <2>2. main' \in {"polling", "done"} => main \in {"polling", "done"} \/ sent = Shutdowns
      BY <1>25, Zenon DEF AllStopped
  <2>3. \A w \in Workers : CanTake(w)' => CanTake(w)
      BY <2>1, Zenon DEF CanTake, Expects
  <2> QED
      BY <1>0, <2>1, <2>2, <2>3, SupplyKept, Zenon
<1>26. CASE \/ \E j \in Jobs : Reject(j)
            \/ \E w \in FiberWorkers : FiberAnswers(w)
            \/ DeadlinePasses \/ UNCHANGED vars
  <2>1. UNCHANGED <<queue, sent, main, wpc, batch, leader, terminated, waker, changed, stop>>
      BY <1>26, Zenon DEF FiberAnswers, Reject, DeadlinePasses, vars, work, wakers, control
  <2> QED
      BY <1>40, <2>1, Zenon DEF CanTake, Expects
<1> QED
    BY <1>1, <1>2, <1>3, <1>4, <1>5, <1>6, <1>7, <1>8, <1>9, <1>10, <1>11, <1>12, <1>13,
       <1>14, <1>15, <1>16, <1>17, <1>18, <1>19, <1>20, <1>21, <1>22, <1>23, <1>24, <1>25,
       <1>26,
       Zenon DEF Next, ThreadStep, FiberStep, WakerStep, MainStep

\* Once SingleMode::run has sent its Shutdowns, what is left of them in each
\* channel suffices for the workers that still wait for one, however the
\* workers and their wakers have shared them: none stays in recv for ever.
THEOREM EnoughShutdownsCorrect == Spec => []EnoughShutdowns
<1> DEFINE Inv == PoolInv /\ Supply
<1>1. Init => Inv
  <2> SUFFICES ASSUME Init PROVE Supply
      BY PoolInvHolds, Zenon
  <2>1. TypeOK /\ PoolInv
      BY PoolInvHolds, Zenon DEF PoolInv
  <2>2. ASSUME NEW c \in Channels
        PROVE  Cardinality(Left(queue[c])) + Cardinality(On(c)) >= SentTo(c) + Cardinality(Takers(c))
    <3>1. SentTo(c) = 0
        BY DEF Init, SentTo
    <3>2. Cardinality(Left(queue[c])) \in Nat
        BY <2>1, LeftFacts, Zenon DEF TypeOK
    <3>3. Takers(c) \subseteq On(c)
        BY Zenon DEF Takers, On
    <3>4. Cardinality(Takers(c)) <= Cardinality(On(c)) /\ Cardinality(On(c)) \in Nat /\ Cardinality(Takers(c)) \in Nat
        BY <3>3, Counted, FS_Subset, Zenon
    <3> QED
        BY <3>1, <3>2, <3>4
  <2> QED
      BY <2>2, Zenon DEF Init, Supply
<1>2. Inv /\ [Next]_vars => Inv'
    BY PoolInvHolds, SupplyStep, Zenon
<1>3. Inv => EnoughShutdowns
  <2> SUFFICES ASSUME Inv, main \in {"polling", "done"}, NEW c \in Channels
               PROVE  Cardinality({w \in Workers : Chan(w) = c /\ ~Stopping(w)})
                        <= Cardinality({i \in DOMAIN queue[c] : queue[c][i] = Shutdown})
      BY Zenon DEF EnoughShutdowns
  <2> DEFINE Needy == {w \in Workers : Chan(w) = c /\ ~Stopping(w)}
  <2>1. Needy \subseteq Takers(c)
    <3>1. \A w \in Workers : ~Stopping(w) => CanTake(w)
        BY WorkerFacts, Zenon DEF PoolInv, Stopping, CanTake
    <3> QED
        BY <3>1, Zenon DEF Takers
  <2>2. Cardinality(Needy) \in Nat /\ Cardinality(Needy) <= Cardinality(Takers(c))
      BY <2>1, Counted, Zenon
  <2>3. sent = Shutdowns /\ Cardinality(Left(queue[c])) + Cardinality(On(c)) >= SentTo(c) + Cardinality(Takers(c))
      BY Zenon DEF Supply
  <2>4. /\ Cardinality(On(c)) \in Nat /\ Cardinality(Takers(c)) \in Nat /\ Cardinality(Workers) \in Nat
        /\ Cardinality(On(c)) <= Cardinality(Workers)
      BY Counted, Zenon
  <2>5. SentTo(c) \in Int /\ SentTo(c) >= Cardinality(Workers)
      BY <2>3, <2>4 DEF SentTo, Shutdowns
  <2>6. Cardinality(Left(queue[c])) \in Nat
      BY LeftFacts, Zenon DEF PoolInv, TypeOK
  <2>7. Cardinality(Needy) <= Cardinality(Left(queue[c]))
      BY <2>2, <2>3, <2>4, <2>5, <2>6
  <2> QED
      BY <2>7, Zenon DEF Left
<1> QED
    BY <1>1, <1>2, <1>3, PTL DEF Spec

=============================================================================
