-------------------------- MODULE TaskContextProofs ---------------------------
(***************************************************************************)
(* TaskContext: the task misses neither a runnable nor a timeout, and its  *)
(* list of timeouts stays sorted and exact, whoever calls and whenever;    *)
(* for every set of timeouts and runnables, every assignment of callers,   *)
(* every modulus and tick length.                                          *)
(*                                                                         *)
(* The inductive invariant adds to the properties where the task and a     *)
(* caller of lower priority are in their calls: that nobody else has the   *)
(* timeout either of them is about to link (LowInv, TakenInv) and that the *)
(* time each has read is not so old that diff() would be wrong.            *)
(***************************************************************************)
EXTENDS TaskContext, TimerProofs

\* Events that have been fetched are handled before the task waits again.
MaskInv == pc \in {"wait", "blocked"} => mask = {}

\* A timeout is held exactly while it is processed.
CurrentInv == current # NoTimeout <=> pc \in {"reschedule", "insert", "expired"}

\* The linked timeouts: exact, in the window, in order.
ListInv == SortedByDue /\ \A t \in Timeouts : Linked(t) => InWindow(t, Reach)

\* The timeout that has been taken off the list to be linked again, and the time `now' that
\* has been read for it.
TakenInv ==
  pc \in {"reschedule", "insert"} =>
    /\ InWindow(current, IF pc = "insert" THEN Reach ELSE Reach - MaxDelay)
    /\ \E r \in Nat : ref = r % Modulus /\ r <= clock /\ clock <= r + MaxLate

\* The timeout that a caller of lower priority is about to link: it is not linked, nobody
\* else has it, and the time that was read for it is recent.
LowInv ==
  low.op = "insert" =>
    /\ CallerOf[low.timeout] = "low" /\ ~Linked(low.timeout) /\ low.timeout # current
    /\ time[low.timeout] = low.due % Modulus
    /\ low.at <= clock /\ clock <= low.at + MaxLate
    /\ low.at <= low.due /\ low.due <= low.at + MaxDelay

TaskInv == /\ TaskTypeOK /\ MaskInv /\ CurrentInv /\ ListInv /\ TakenInv /\ LowInv
           /\ NoLostRunnable /\ WakesForTimeout
-------------------------------------------------------------------------------
\* What the assumptions say of the constants.
LEMMA TaskConstants ==
  /\ Modulus \in Nat \ {0} /\ Half \in Nat \ {0} /\ Half * 2 = Modulus
  /\ MaxDelay \in Nat \ {0} /\ MaxLate \in Nat /\ MaxClock \in Nat
  /\ Reach \in Nat /\ MaxDelay <= Reach /\ Reach + MaxLate < Half
  /\ TickLength \in Nat \ {0} /\ WaitTicks \in Nat
  /\ \A t \in Timeouts : CallerOf[t] = "high" => Reach = 2 * MaxDelay
<1>1. /\ Modulus \in Nat \ {0} /\ Half \in Nat \ {0} /\ Half * 2 = Modulus
      /\ MaxDelay \in Nat \ {0} /\ MaxLate \in Nat /\ MaxClock \in Nat
  BY TimerAssumption DEF Half
<1>2. Reach = 2 * MaxDelay \/ Reach = MaxDelay
  BY DEF Reach
<1>3. ASSUME NEW t \in Timeouts, CallerOf[t] = "high" PROVE Reach = 2 * MaxDelay
  BY <1>3 DEF Reach
<1>. QED BY <1>1, <1>2, <1>3, TaskAssumption

\* The types the proofs use, apart from those of the callers.
LEMMA TaskTypes ==
  ASSUME TaskInv
  PROVE  /\ timeoutList \in Seq(Timeouts) /\ IsInjective(timeoutList)
         /\ time \in [Timeouts -> 0 .. Modulus - 1] /\ cycle \in [Timeouts -> 0 .. MaxDelay]
         /\ due \in [Timeouts -> Nat] /\ due \in [Timeouts -> Int]
         /\ clock \in Nat /\ clock \in 0 .. MaxClock /\ Sorted(timeoutList, due)
         /\ ref \in 0 .. Modulus - 1 /\ wakeTick \in Nat
         /\ current \in Timeouts \cup {NoTimeout}
<1>1. TaskTypeOK /\ SortedByDue /\ MaxClock \in Nat
  BY TaskConstants DEF TaskInv, ListInv
<1>2. TimerTypeOK
  BY <1>1 DEF TaskTypeOK
<1>3. due \in [Timeouts -> Nat] /\ clock \in 0 .. MaxClock
  BY <1>2 DEF TimerTypeOK
<1>4. due \in [Timeouts -> Int] /\ clock \in Nat
  BY <1>1, <1>3
<1>. QED BY <1>1, <1>2, <1>4, SortedDef DEF TaskTypeOK, TimerTypeOK

\* Linking a timeout with the time `at' in mind keeps the list in order and in the window.
LEMMA AddEffect ==
  ASSUME TaskInv, NEW t \in Timeouts, ~Contains(timeoutList, t), NEW d \in Nat, NEW at \in Nat,
         at <= clock, clock <= at + MaxLate,
         clock - MaxLate <= d, d <= clock + Reach,
         timeoutList' = Added(timeoutList, t, d, at), due' = [due EXCEPT ![t] = d],
         time' = [time EXCEPT ![t] = d % Modulus], clock' = clock
  PROVE  /\ timeoutList' \in Seq(Timeouts) /\ IsInjective(timeoutList') /\ ListInv'
         /\ time' \in [Timeouts -> 0 .. Modulus - 1] /\ due' \in [Timeouts -> Nat]
         /\ \A u \in Timeouts : Contains(timeoutList', u) <=> u = t \/ Contains(timeoutList, u)
         /\ PlaceOf(timeoutList, d, at) # 1 =>
              /\ timeoutList # <<>> /\ Head(timeoutList') = Head(timeoutList)
              /\ due'[Head(timeoutList')] = due[Head(timeoutList)]
<1>1. /\ timeoutList \in Seq(Timeouts) /\ IsInjective(timeoutList) /\ due \in [Timeouts -> Nat]
      /\ Sorted(timeoutList, due) /\ clock \in Nat /\ time \in [Timeouts -> 0 .. Modulus - 1]
      /\ due \in [Timeouts -> Int]
  BY TaskTypes
<1>2. d - at \in -Half .. Half - 1 /\ at \in Int
  BY <1>1, TaskConstants
<1>3. ASSUME NEW u \in Timeouts, Contains(timeoutList, u)
      PROVE  time[u] = due[u] % Modulus /\ due[u] - at \in -Half .. Half - 1
  <2>1. Within(time[u], due[u], clock, Reach) /\ due[u] \in Nat
    BY <1>1, <1>3 DEF TaskInv, ListInv, Linked, InWindow
  <2>2. clock - MaxLate <= due[u] /\ due[u] <= clock + Reach /\ time[u] = due[u] % Modulus
    BY <2>1 DEF Within
  <2>3. due[u] - at \in -Half .. Half - 1
    <3>. DEFINE x == due[u]
    <3>1. x \in Nat /\ clock - MaxLate <= x /\ x <= clock + Reach /\ clock \in Nat
      BY <1>1, <2>1, <2>2
    <3>. HIDE DEF x
    <3>2. x - at \in -Half .. Half - 1
      BY ONLY <3>1, TaskConstants, at \in Nat, at <= clock, clock <= at + MaxLate
    <3>. QED BY <3>2 DEF x
  <2>. QED BY <2>2, <2>3
<1>. DEFINE l == Added(timeoutList, t, d, at)
<1>4. /\ l \in Seq(Timeouts) /\ IsInjective(l) /\ Sorted(l, [due EXCEPT ![t] = d])
      /\ \A u \in Timeouts : Contains(l, u) <=> u = t \/ Contains(timeoutList, u)
      /\ IF PlaceOf(timeoutList, d, at) = 1 THEN Head(l) = t
         ELSE timeoutList # <<>> /\ Head(l) = Head(timeoutList)
  BY ONLY <1>1, <1>2, <1>3, AddFacts, t \in Timeouts, ~Contains(timeoutList, t), d \in Nat
<1>. HIDE DEF l
<1>5. timeoutList' = l
  BY DEF l
<1>6. ASSUME NEW u \in Timeouts, Contains(timeoutList', u)
      PROVE  Within(time'[u], due'[u], clock', Reach)
  <2>1. CASE u = t
    <3>1. time'[u] = d % Modulus /\ due'[u] = d /\ clock' = clock
      BY <1>1, <2>1
    <3>. QED BY <3>1 DEF Within
  <2>2. CASE u # t
    <3>1. Within(time[u], due[u], clock, Reach)
      BY <1>4, <1>5, <1>6, <2>2 DEF TaskInv, ListInv, Linked, InWindow
    <3>2. time'[u] = time[u] /\ due'[u] = due[u] /\ clock' = clock
      BY <1>1, <2>2
    <3>. QED BY <3>1, <3>2
  <2>. QED BY <2>1, <2>2
<1>7. ListInv'
  BY <1>4, <1>5, <1>6 DEF ListInv, SortedByDue, Sorted, Linked, InWindow
<1>8. d % Modulus \in 0 .. Modulus - 1
  BY ONLY TaskConstants, DivMod, d \in Nat
<1>9. PlaceOf(timeoutList, d, at) # 1 => due'[Head(timeoutList')] = due[Head(timeoutList)]
  <2>1. ASSUME timeoutList # <<>>
        PROVE  Head(timeoutList) \in Timeouts /\ Head(timeoutList) # t
    BY <1>1, <2>1, TailFacts
  <2>. QED BY <1>1, <1>4, <1>5, <2>1
<1>. QED BY <1>1, <1>4, <1>5, <1>7, <1>8, <1>9

\* Taking timeouts off the list keeps it in order; what is now the first is due no earlier.
LEMMA RemoveEffect ==
  ASSUME TaskInv, UNCHANGED <<time, due, clock>>,
         \/ timeoutList' = timeoutList
         \/ timeoutList # <<>> /\ timeoutList' = Tail(timeoutList)
         \/ \E p \in 1 .. Len(timeoutList) : timeoutList' = RemoveAt(timeoutList, p)
  PROVE  /\ timeoutList' \in Seq(Timeouts) /\ IsInjective(timeoutList') /\ ListInv'
         /\ \A u \in Timeouts : Contains(timeoutList', u) => Contains(timeoutList, u)
         /\ timeoutList' # <<>> =>
              /\ timeoutList # <<>> /\ Head(timeoutList) \in Timeouts
              /\ due[Head(timeoutList)] <= due'[Head(timeoutList')]
<1>1. /\ timeoutList \in Seq(Timeouts) /\ IsInjective(timeoutList) /\ due \in [Timeouts -> Int]
      /\ Sorted(timeoutList, due)
  BY TaskTypes
<1>2. /\ timeoutList' \in Seq(Timeouts) /\ IsInjective(timeoutList') /\ Sorted(timeoutList', due)
      /\ \A u \in Timeouts : Contains(timeoutList', u) => Contains(timeoutList, u)
  <2>1. CASE timeoutList' = timeoutList
    BY <1>1, <2>1
  <2>2. CASE timeoutList # <<>> /\ timeoutList' = Tail(timeoutList)
    <3>. DEFINE l == Tail(timeoutList)
    <3>1. /\ l \in Seq(Timeouts) /\ IsInjective(l) /\ Sorted(l, due)
          /\ \A u \in Timeouts : Contains(l, u) => Contains(timeoutList, u)
      BY <1>1, <2>2, TailFacts
    <3>. QED BY <2>2, <3>1
  <2>3. ASSUME NEW p \in 1 .. Len(timeoutList), timeoutList' = RemoveAt(timeoutList, p)
        PROVE  /\ timeoutList' \in Seq(Timeouts) /\ IsInjective(timeoutList')
               /\ Sorted(timeoutList', due)
               /\ \A u \in Timeouts : Contains(timeoutList', u) => Contains(timeoutList, u)
    <3>. DEFINE l == RemoveAt(timeoutList, p)
    <3>1. /\ l \in Seq(Timeouts) /\ IsInjective(l) /\ Sorted(l, due)
          /\ \A u \in Timeouts : Contains(l, u) => Contains(timeoutList, u)
      BY <1>1, RemoveKeepsOrder
    <3>. QED BY <2>3, <3>1
  <2>. QED BY <2>1, <2>2, <2>3
<1>3. ListInv'
  BY <1>2 DEF TaskInv, ListInv, SortedByDue, Sorted, Linked, InWindow
<1>4. ASSUME timeoutList' # <<>>
      PROVE  /\ timeoutList # <<>> /\ Head(timeoutList) \in Timeouts
             /\ due[Head(timeoutList)] <= due[Head(timeoutList')]
  <2>1. Head(timeoutList') \in Timeouts /\ Contains(timeoutList', Head(timeoutList'))
    <3>1. 1 \in 1 .. Len(timeoutList') /\ Head(timeoutList') = timeoutList'[1]
      BY <1>2, <1>4, EmptySeq
    <3>. QED BY <1>2, <3>1 DEF Contains
  <2>2. Contains(timeoutList, Head(timeoutList')) /\ timeoutList # <<>>
    BY <1>2, <2>1 DEF Contains
  <2>. QED BY <1>1, <2>1, <2>2, TailFacts
<1>. QED BY <1>2, <1>3, <1>4

\* A step that leaves the timer and the clock alone keeps what is said of them.
LEMMA QuietFrame ==
  ASSUME TaskInv, UNCHANGED <<timerVars, clock>>
  PROVE  /\ UNCHANGED <<timeoutList, time, cycle, due, clock, tickCount>>
         /\ TimerTypeOK' /\ ListInv'
<1>1. UNCHANGED <<timeoutList, time, cycle, due, clock>>
  BY DEF timerVars
<1>2. UNCHANGED tickCount
  BY <1>1 DEF tickCount
<1>3. TimerTypeOK'
  BY <1>1 DEF TaskInv, TaskTypeOK, TimerTypeOK
<1>4. ListInv'
  BY <1>1 DEF TaskInv, ListInv, SortedByDue, Linked, InWindow
<1>. QED BY <1>1, <1>2, <1>3, <1>4

\* The steps of the task that change neither the list nor the times.
LEMMA QuietTaskSteps ==
  ASSUME TaskInv,
         Notified \/ TimedOut \/ HandleEvents \/ ExecuteRunnable \/ QueueEmpty \/ NothingDue \/ Expired
  PROVE  TaskInv'
<1>. USE DEF TaskInv
<1>0. /\ UNCHANGED <<timerVars, clock>>
      /\ UNCHANGED <<bound, low, calls, cancelled>>
  BY DEF Notified, TimedOut, HandleEvents, ExecuteRunnable, QueueEmpty, NothingDue, Expired,
         clientVars
<1>1. /\ UNCHANGED <<timeoutList, time, cycle, due, clock, tickCount>>
      /\ TimerTypeOK' /\ ListInv'
  BY <1>0, QuietFrame
<1>2. TaskTypeOK'
  <2>1. TaskTypeOK /\ 0 \in 0 .. Modulus - 1
    BY TaskConstants
  <2>2. queue' \in Seq(Runnables) /\ requested' \in SUBSET Runnables
    <3>1. queue \in Seq(Runnables) /\ requested \in SUBSET Runnables
      BY <2>1 DEF TaskTypeOK
    <3>. QED BY <3>1 DEF Notified, TimedOut, HandleEvents, ExecuteRunnable, QueueEmpty, NothingDue,
           Expired, clientVars
  <2>3. events' \in SUBSET {"execute", "timer", "stop"} /\ mask' \in SUBSET {"execute", "timer", "stop"}
    <3>1. events \in SUBSET {"execute", "timer", "stop"} /\ mask \in SUBSET {"execute", "timer", "stop"}
      BY <2>1 DEF TaskTypeOK
    <3>. QED BY <3>1 DEF Notified, TimedOut, HandleEvents, ExecuteRunnable, QueueEmpty, NothingDue,
           Expired, taskVars
  <2>4. pc' \in {"wait", "handle", "execute", "timer", "stopped"}
    BY DEF Notified, TimedOut, HandleEvents, ExecuteRunnable, QueueEmpty, NothingDue, Expired, taskVars
  <2>5. (wakeTick' = wakeTick \/ wakeTick' = 0) /\ (hasDelta' = hasDelta \/ hasDelta' = FALSE)
    BY DEF Notified, TimedOut, HandleEvents, ExecuteRunnable, QueueEmpty, NothingDue, Expired, taskVars
  <2>6. \/ UNCHANGED <<current, ref, exact>>
        \/ current' = NoTimeout /\ ref' = 0 /\ exact' = FALSE
    BY DEF Notified, TimedOut, HandleEvents, ExecuteRunnable, QueueEmpty, NothingDue, Expired, taskVars
  <2>7. wakeTick' \in Nat /\ hasDelta' \in BOOLEAN /\ exact' \in BOOLEAN
        /\ current' \in Timeouts \cup {NoTimeout} /\ ref' \in 0 .. Modulus - 1
    <3>1. /\ wakeTick \in Nat /\ hasDelta \in BOOLEAN /\ exact \in BOOLEAN
          /\ current \in Timeouts \cup {NoTimeout} /\ ref \in 0 .. Modulus - 1
      BY <2>1 DEF TaskTypeOK
    <3>2. hasDelta' \in BOOLEAN /\ exact' \in BOOLEAN
      BY <2>5, <2>6, <3>1, Zenon
    <3>3. wakeTick' \in Nat /\ current' \in Timeouts \cup {NoTimeout} /\ ref' \in 0 .. Modulus - 1
      BY <2>1, <2>5, <2>6, <3>1
    <3>. QED BY <3>2, <3>3
  <2>8. /\ bound' \in [Timeouts -> BOOLEAN] /\ low' \in LowCalls /\ calls' \in 0 .. MaxCalls
        /\ cancelled' \in SUBSET Timeouts
    BY <1>0, <2>1 DEF TaskTypeOK
  <2>. QED BY <1>1, <2>2, <2>3, <2>4, <2>7, <2>8 DEF TaskTypeOK
<1>3. MaskInv' /\ CurrentInv' /\ NoLostRunnable'
  <2>1. CASE Notified \/ TimedOut
    BY <1>0, <2>1 DEF MaskInv, CurrentInv, NoLostRunnable, Notified, TimedOut
  <2>2. CASE HandleEvents
    BY <1>0, <2>2 DEF MaskInv, CurrentInv, NoLostRunnable, HandleEvents, TaskTypeOK
  <2>3. CASE ExecuteRunnable \/ QueueEmpty
    BY <1>0, <2>3 DEF MaskInv, CurrentInv, NoLostRunnable, ExecuteRunnable, QueueEmpty, taskVars
  <2>4. CASE NothingDue \/ Expired
    BY <1>0, <2>4 DEF MaskInv, CurrentInv, NoLostRunnable, NothingDue, Expired
  <2>. QED BY <2>1, <2>2, <2>3, <2>4
<1>4. pc' # "blocked" /\ pc' \notin {"reschedule", "insert"} /\ (current' = current \/ current' = NoTimeout)
  BY DEF Notified, TimedOut, HandleEvents, ExecuteRunnable, QueueEmpty, NothingDue, Expired, taskVars
<1>5. TakenInv' /\ WakesForTimeout'
  BY <1>4 DEF TakenInv, WakesForTimeout
<1>6. LowInv'
  <2>1. low.op = "insert" => low.timeout \in Timeouts
    BY DEF TaskTypeOK, LowCalls, Idle
  <2>2. NoTimeout \notin Timeouts
    BY TaskAssumption
  <2>. QED BY <1>0, <1>1, <1>4, <2>1, <2>2 DEF LowInv, Linked
<1>. QED BY <1>1, <1>2, <1>3, <1>5, <1>6

\* The steps of callers that change neither the list nor the times, and stuttering.
LEMMA QuietClientSteps ==
  ASSUME TaskInv,
         \/ \E r \in Runnables : Execute(r) \/ LowExecute(r)
         \/ LowSetEvent \/ StopDispatch \/ UNCHANGED vars
  PROVE  TaskInv'
<1>. USE DEF TaskInv
<1>0. /\ UNCHANGED <<timerVars, clock>>
      /\ UNCHANGED <<mask, pc, wakeTick, hasDelta, current, ref, exact, bound, cancelled>>
  BY DEF Execute, LowExecute, LowSetEvent, StopDispatch, taskVars, clientVars, vars
<1>1. /\ UNCHANGED <<timeoutList, time, cycle, due, clock, tickCount>>
      /\ TimerTypeOK' /\ ListInv'
  BY <1>0, QuietFrame
<1>2. TaskTypeOK'
  <2>1. ASSUME NEW r \in Runnables, Execute(r) \/ LowExecute(r) PROVE TaskTypeOK'
    <3>1. queue' \in Seq(Runnables) /\ requested' \in SUBSET Runnables
      BY SMTT(60), <2>1 DEF TaskTypeOK, Execute, LowExecute, Enqueued
    <3>2. calls' \in 0 .. MaxCalls
      BY <2>1, TaskAssumption DEF TaskTypeOK, Execute, LowExecute, Called
    <3>3. low' \in LowCalls /\ events' \in SUBSET {"execute", "timer", "stop"}
      BY <2>1 DEF TaskTypeOK, Execute, LowExecute, LowCalls
    <3>. QED BY <1>0, <1>1, <3>1, <3>2, <3>3 DEF TaskTypeOK
  <2>2. CASE LowSetEvent
    BY <1>0, <1>1, <2>2 DEF TaskTypeOK, LowSetEvent, LowCalls
  <2>3. CASE StopDispatch
    <3>1. calls' \in 0 .. MaxCalls
      BY <2>3, TaskAssumption DEF TaskTypeOK, StopDispatch, Called
    <3>. QED BY <1>0, <1>1, <2>3, <3>1 DEF TaskTypeOK, StopDispatch
  <2>4. CASE UNCHANGED vars
    BY <1>0, <1>1, <2>4 DEF TaskTypeOK, vars, clientVars
  <2>. QED BY <2>1, <2>2, <2>3, <2>4
<1>3. MaskInv' /\ CurrentInv'
  BY <1>0 DEF MaskInv, CurrentInv
<1>4. TakenInv'
  BY <1>0, <1>1 DEF TakenInv, InWindow
<1>5. ASSUME NEW r \in Runnables, Execute(r) \/ LowExecute(r)
      PROVE  LowInv' /\ NoLostRunnable' /\ WakesForTimeout'
  <2>1. CASE Execute(r)
    <3>1. low' = low /\ "execute" \in events' /\ events \subseteq events'
      BY <2>1 DEF Execute
    <3>. QED BY <1>0, <1>1, <3>1 DEF LowInv, Linked, NoLostRunnable, WakesForTimeout
  <2>2. CASE LowExecute(r)
    <3>1. low'.op = "execute" /\ low.op = "none" /\ events' = events
      BY <2>2 DEF LowExecute, MayCall, Idle
    <3>. QED BY <1>0, <1>1, <3>1 DEF LowInv, NoLostRunnable, WakesForTimeout
  <2>. QED BY <1>5, <2>1, <2>2
<1>6. ASSUME LowSetEvent PROVE LowInv' /\ NoLostRunnable' /\ WakesForTimeout'
  <2>1. low'.op = "none" /\ queue' = queue /\ events \subseteq events'
    BY <1>6 DEF LowSetEvent, Idle
  <2>2. (low.op = "execute" => "execute" \in events') /\ (low.op = "event" => "timer" \in events')
    BY <1>6 DEF LowSetEvent
  <2>. QED BY <1>0, <1>1, <2>1, <2>2 DEF LowInv, NoLostRunnable, WakesForTimeout
<1>7. ASSUME StopDispatch \/ UNCHANGED vars PROVE LowInv' /\ NoLostRunnable' /\ WakesForTimeout'
  <2>1. low' = low /\ queue' = queue /\ events \subseteq events'
    BY <1>7 DEF StopDispatch, vars, clientVars
  <2>. QED BY <1>0, <1>1, <2>1 DEF LowInv, Linked, NoLostRunnable, WakesForTimeout
<1>. QED BY <1>1, <1>2, <1>3, <1>4, <1>5, <1>6, <1>7

\* waitEvents(): the wait is long enough for no timeout to be late by more than a tick.
LEMMA WaitEventsKeepsInv ==
  ASSUME TaskInv, WaitEvents PROVE TaskInv'
<1>. USE DEF TaskInv
<1>1. /\ UNCHANGED <<timerVars, clock, queue, events, mask, current, ref, exact>>
      /\ UNCHANGED <<bound, low, calls, requested, cancelled>>
      /\ pc = "wait" /\ pc' = "blocked" /\ hasDelta' = (timeoutList # <<>>)
  BY DEF WaitEvents, clientVars
<1>2. /\ UNCHANGED <<timeoutList, time, cycle, due, clock, tickCount>>
      /\ TimerTypeOK' /\ ListInv'
  BY <1>1, QuietFrame
<1>3. wakeTick' \in Nat /\ WakesForTimeout'
  <2>0. /\ TickLength \in Nat \ {0} /\ WaitTicks \in Nat /\ clock \in Nat
        /\ Reach \in Nat /\ Reach < Half
    BY TaskConstants, TaskTypes
  <2>1. tickCount \in Nat /\ TickLength * tickCount <= clock
    BY <2>0, DivOrder DEF tickCount
  <2>2. CASE timeoutList = <<>>
    <3>1. wakeTick' = tickCount + WaitTicks
      BY <2>2 DEF WaitEvents
    <3>. QED BY <1>2, <2>0, <2>1, <2>2, <3>1 DEF WakesForTimeout
  <2>3. CASE timeoutList # <<>>
    <3>. DEFINE x == due[Head(timeoutList)]  n == NextDelta
                k == (n + TickLength - 1) \div TickLength
    <3>1. n = IF x < clock THEN 0 ELSE x - clock
      BY <2>0, <2>3, TaskTypes, WindowIsExact DEF ListInv
    <3>2. x \in Nat
      BY <2>3, TaskTypes, TailFacts
    <3>3. wakeTick' = tickCount + k
      BY <2>3 DEF WaitEvents
    <3>. HIDE DEF x, n
    <3>4. n \in Nat /\ n + TickLength - 1 \in Nat
      BY ONLY <2>0, <3>1, <3>2
    <3>5. k \in Nat /\ TickLength * k <= n + TickLength - 1
      BY ONLY <2>0, <3>4, DivOrder
    <3>. HIDE DEF k
    <3>6. TickLength * (tickCount + k) = TickLength * tickCount + TickLength * k
      BY ONLY <2>0, <2>1, <3>5
    <3>7. x >= clock => wakeTick' * TickLength < x + TickLength
      <4>1. wakeTick' * TickLength = TickLength * tickCount + TickLength * k
        BY ONLY <2>0, <2>1, <3>3, <3>5, <3>6
      <4>2. TickLength * tickCount \in Int /\ TickLength * k \in Int
        BY ONLY <2>0, <2>1, <3>5
      <4>. QED BY ONLY <2>0, <2>1, <3>1, <3>2, <3>4, <3>5, <4>1, <4>2
    <3>8. x < clock => wakeTick' <= tickCount
      <4>1. ASSUME x < clock PROVE k = 0
        <5>1. n = 0
          BY ONLY <3>1, <4>1
        <5>2. k \in Nat /\ TickLength * k <= TickLength - 1
          BY ONLY <2>0, <3>5, <5>1
        <5>3. ASSUME k >= 1 PROVE TickLength * k >= TickLength
          BY ONLY <2>0, <3>5, <5>3
        <5>4. TickLength * k \in Int
          BY ONLY <2>0, <3>5
        <5>. QED BY ONLY <2>0, <5>2, <5>3, <5>4
      <4>. QED BY ONLY <2>1, <3>3, <3>5, <4>1
    <3>9. wakeTick' \in Nat
      BY ONLY <2>1, <3>3, <3>5
    <3>10. hasDelta'
      BY <1>1, <2>3, Zenon
    <3>11. due'[Head(timeoutList')] = x /\ tickCount' = tickCount
      BY <1>2 DEF x
    <3>12. x >= clock \/ x < clock
      BY <2>0, <3>2
    <3>. QED BY <3>7, <3>8, <3>9, <3>10, <3>11, <3>12 DEF WakesForTimeout
  <2>. QED BY <2>2, <2>3
<1>4. TaskTypeOK'
  <2>1. hasDelta' \in BOOLEAN
    BY <1>1, Zenon
  <2>. QED BY <1>1, <1>2, <1>3, <2>1 DEF TaskTypeOK
<1>5. MaskInv' /\ CurrentInv' /\ TakenInv' /\ NoLostRunnable'
  BY <1>1 DEF MaskInv, CurrentInv, TakenInv, NoLostRunnable
<1>6. LowInv'
  BY <1>1, <1>2 DEF LowInv, Linked
<1>. QED BY <1>2, <1>3, <1>4, <1>5, <1>6

\* A step that changes neither the list nor the due times nor the clock, and no timestamp of a
\* linked timeout, keeps the list as it is described.
LEMMA UnlinkedFrame ==
  ASSUME TaskInv, UNCHANGED <<timeoutList, clock>>, NEW t \in Timeouts, ~Linked(t),
         NEW d \in Nat, NEW s \in 0 .. Modulus - 1,
         due' = [due EXCEPT ![t] = d], time' = [time EXCEPT ![t] = s],
         cycle' \in [Timeouts -> 0 .. MaxDelay]
  PROVE  TimerTypeOK' /\ ListInv'
<1>. USE DEF TaskInv
<1>1. /\ timeoutList \in Seq(Timeouts) /\ due \in [Timeouts -> Nat]
      /\ time \in [Timeouts -> 0 .. Modulus - 1] /\ clock \in 0 .. MaxClock
      /\ IsInjective(timeoutList)
  BY TaskTypes
<1>2. TimerTypeOK'
  BY <1>1 DEF TimerTypeOK
<1>3. \A i \in DOMAIN timeoutList : timeoutList[i] \in Timeouts /\ timeoutList[i] # t
  BY <1>1 DEF Linked, Contains
<1>4. \A i \in DOMAIN timeoutList : due'[timeoutList[i]] = due[timeoutList[i]]
  BY <1>1, <1>3
<1>5. SortedByDue'
  BY <1>4 DEF ListInv, SortedByDue
<1>6. ASSUME NEW u \in Timeouts, Linked(u)' PROVE InWindow(u, Reach)'
  <2>1. Linked(u) /\ u # t
    BY <1>6 DEF Linked
  <2>2. InWindow(u, Reach)
    BY <2>1 DEF ListInv
  <2>3. time'[u] = time[u] /\ due'[u] = due[u]
    BY <1>1, <2>1
  <2>. QED BY <2>2, <2>3 DEF InWindow
<1>. QED BY <1>2, <1>5, <1>6 DEF ListInv

\* processNextTimeout(): the timeout that is taken is due, by no more than MaxLate.
LEMMA TakeTimeoutKeepsInv ==
  ASSUME TaskInv, TakeTimeout PROVE TaskInv'
<1>. USE DEF TaskInv
<1>. DEFINE h == Head(timeoutList)
<1>1. /\ UNCHANGED <<time, cycle, due, clock, queue, events, mask, wakeTick, hasDelta>>
      /\ UNCHANGED <<bound, low, calls, requested, cancelled>>
      /\ pc = "timer" /\ pc' = "reschedule" /\ timeoutList # <<>>
      /\ timeoutList' = Tail(timeoutList) /\ current' = h /\ ref' = now
      /\ exact' = (Diff(time[h], now) = 0) /\ Diff(time[h], now) <= 0
  BY DEF TakeTimeout, FrontDue, clientVars
<1>2. /\ timeoutList' \in Seq(Timeouts) /\ IsInjective(timeoutList') /\ ListInv'
      /\ \A u \in Timeouts : Contains(timeoutList', u) => Contains(timeoutList, u)
  BY <1>1, RemoveEffect
<1>3. h \in Timeouts /\ Linked(h)
  BY <1>1, TaskTypes, TailFacts DEF Linked
<1>. HIDE DEF h
<1>4. now \in 0 .. Modulus - 1 /\ clock \in Nat
  <2>1. clock \in Nat
    BY TaskTypes
  <2>2. clock % Modulus \in 0 .. Modulus - 1
    BY ONLY <2>1, TaskConstants, DivMod
  <2>. QED BY <2>1, <2>2 DEF now
<1>5. TaskTypeOK'
  <2>1. TimerTypeOK'
    BY <1>1, <1>2 DEF TimerTypeOK, TaskTypeOK
  <2>2. exact' \in BOOLEAN
    BY <1>1, Zenon
  <2>. QED BY <1>1, <1>3, <1>4, <2>1, <2>2 DEF TaskTypeOK
<1>6. MaskInv' /\ CurrentInv' /\ NoLostRunnable' /\ WakesForTimeout'
  <2>1. h # NoTimeout
    BY <1>3, TaskAssumption
  <2>. QED BY <1>1, <2>1 DEF MaskInv, CurrentInv, NoLostRunnable, WakesForTimeout
<1>7. TakenInv'
  <2>1. due[h] \in Nat /\ Within(time[h], due[h], clock, Reach)
    BY <1>3, TaskTypes DEF ListInv, InWindow
  <2>2. Diff(time[h], now) = due[h] - clock
    <3>1. Reach \in Nat /\ Reach < Half
      BY TaskConstants
    <3>2. TimesAreExact
      BY <3>1, TaskTypes, WindowIsExact DEF ListInv
    <3>. QED BY <1>3, <3>2 DEF TimesAreExact, TimeLeftIsExact
  <2>3. due[h] <= clock
    BY <1>1, <1>4, <2>1, <2>2
  <2>4. Within(time[h], due[h], clock, Reach - MaxDelay)
    <3>1. due[h] <= clock + (Reach - MaxDelay)
      BY ONLY <1>4, <2>1, <2>3, TaskConstants
    <3>. QED BY <2>1, <3>1 DEF Within
  <2>5. InWindow(current, IF pc = "insert" THEN Reach ELSE Reach - MaxDelay)'
    <3>1. time'[current'] = time[h] /\ due'[current'] = due[h] /\ clock' = clock /\ pc' # "insert"
      BY <1>1
    <3>. QED BY <2>4, <3>1 DEF InWindow
  <2>6. ref' = clock % Modulus /\ clock <= clock' /\ clock' <= clock + MaxLate
    BY <1>1, <1>4, TaskConstants DEF now
  <2>. QED BY <1>4, <2>5, <2>6 DEF TakenInv
<1>8. LowInv'
  BY <1>1, <1>2, <1>3 DEF LowInv, Linked, TaskTypeOK, LowCalls, Idle
<1>. QED BY <1>2, <1>5, <1>6, <1>7, <1>8

\* rescheduleCyclicTimeout(): the next expiry is at most one period ahead.
LEMMA RescheduleKeepsInv ==
  ASSUME TaskInv, Reschedule PROVE TaskInv'
<1>. USE DEF TaskInv
<1>1. /\ UNCHANGED <<timeoutList, cycle, clock, queue, events, mask, wakeTick, hasDelta>>
      /\ UNCHANGED <<current, ref, exact, bound, low, calls, requested, cancelled>>
      /\ pc = "reschedule" /\ pc' \in {"insert", "expired"}
  BY DEF Reschedule, clientVars
<1>2. current \in Timeouts
  BY <1>1, TaskTypes DEF CurrentInv
<1>3. MaskInv' /\ CurrentInv' /\ NoLostRunnable' /\ WakesForTimeout'
  BY <1>1 DEF MaskInv, CurrentInv, NoLostRunnable, WakesForTimeout
<1>4. CASE ~(cycle[current] > 0 /\ ~Linked(current))
  <2>1. pc' = "expired" /\ UNCHANGED <<time, due>>
    BY <1>4 DEF Reschedule
  <2>2. TimerTypeOK' /\ ListInv'
    BY <1>1, <2>1, QuietFrame DEF timerVars
  <2>3. TaskTypeOK'
    BY <1>1, <2>1, <2>2 DEF TaskTypeOK
  <2>4. LowInv' /\ TakenInv'
    BY <1>1, <2>1 DEF LowInv, TakenInv, Linked
  <2>. QED BY <1>3, <2>2, <2>3, <2>4
<1>5. CASE cycle[current] > 0 /\ ~Linked(current)
  <2>. DEFINE d == due[current] + cycle[current]
  <2>1. /\ time' = [time EXCEPT ![current] = Rescheduled(current)] /\ pc' = "insert"
        /\ due' = [due EXCEPT ![current] = d]
    BY <1>5 DEF Reschedule
  <2>2. /\ due[current] \in Nat /\ cycle[current] \in 0 .. MaxDelay /\ clock \in Nat
        /\ Within(time[current], due[current], clock, Reach - MaxDelay)
    BY <1>1, <1>2, TaskTypes DEF TakenInv, InWindow
  <2>3. PICK r \in Nat : ref = r % Modulus /\ r <= clock /\ clock <= r + MaxLate
    BY <1>1 DEF TakenInv
  <2>4. Rescheduled(current) = d % Modulus
    <3>1. cycle[current] \in Int /\ due[current] \in Int
      BY <2>2
    <3>2. (cycle[current] + (due[current] % Modulus)) % Modulus
            = (cycle[current] + due[current]) % Modulus
      BY <3>1, ModSum, TaskConstants
    <3>3. cycle[current] + due[current] = d
      BY <3>1
    <3>. QED BY <2>2, <3>2, <3>3 DEF Rescheduled, Within
  <2>5. clock - MaxLate <= d /\ d <= clock + Reach /\ d \in Nat
    <3>. DEFINE x == due[current]  c == cycle[current]
    <3>1. /\ x \in Nat /\ c \in 0 .. MaxDelay /\ clock - MaxLate <= x
          /\ x <= clock + (Reach - MaxDelay) /\ d = x + c
      BY <2>2 DEF Within
    <3>. HIDE DEF x, c, d
    <3>. QED BY ONLY <2>2, <3>1, TaskConstants
  <2>. HIDE DEF d
  <2>6. d % Modulus \in 0 .. Modulus - 1
    <3>1. d \in Int /\ Modulus \in Nat \ {0}
      BY ONLY <2>5, TaskConstants
    <3>. QED BY ONLY <3>1, DivMod
  <2>7. TimerTypeOK' /\ ListInv'
    <3>1. cycle' \in [Timeouts -> 0 .. MaxDelay] /\ time' = [time EXCEPT ![current] = d % Modulus]
      BY <1>1, <2>1, <2>4, TaskTypes
    <3>. QED BY <1>1, <1>2, <1>5, <2>1, <2>5, <2>6, <3>1, UnlinkedFrame
  <2>8. TaskTypeOK'
    BY <1>1, <2>1, <2>7 DEF TaskTypeOK
  <2>9. TakenInv'
    <3>1. time'[current'] = d % Modulus /\ due'[current'] = d
      BY <1>1, <1>2, <2>1, <2>4, TaskTypes
    <3>2. Within(time'[current'], due'[current'], clock', Reach)
      BY <1>1, <2>5, <3>1 DEF Within
    <3>. QED BY <1>1, <2>1, <2>3, <3>2 DEF TakenInv, InWindow
  <2>10. LowInv'
    <3>1. low.op = "insert" => low.timeout \in Timeouts
      BY DEF TaskTypeOK, LowCalls, Idle
    <3>2. low.op = "insert" => time'[low.timeout] = time[low.timeout]
      BY <2>1, <3>1, TaskTypes DEF LowInv
    <3>. QED BY <1>1, <3>2 DEF LowInv, Linked
  <2>. QED BY <1>3, <2>7, <2>8, <2>9, <2>10
<1>. QED BY <1>4, <1>5

\* addTimeout() of a cyclic timeout: it is linked at its place, seen from the time read for it.
LEMMA InsertCyclicKeepsInv ==
  ASSUME TaskInv, InsertCyclic PROVE TaskInv'
<1>. USE DEF TaskInv
<1>1. /\ UNCHANGED <<time, cycle, due, clock, queue, events, mask, wakeTick, hasDelta>>
      /\ UNCHANGED <<current, ref, exact, bound, low, calls, requested, cancelled>>
      /\ pc = "insert" /\ pc' = "expired"
  BY DEF InsertCyclic, clientVars
<1>2. current \in Timeouts
  BY <1>1, TaskTypes DEF CurrentInv
<1>3. MaskInv' /\ CurrentInv' /\ TakenInv' /\ NoLostRunnable' /\ WakesForTimeout'
  BY <1>1 DEF MaskInv, CurrentInv, TakenInv, NoLostRunnable, WakesForTimeout
<1>4. /\ timeoutList' \in Seq(Timeouts) /\ IsInjective(timeoutList') /\ ListInv'
      /\ \A u \in Timeouts : Contains(timeoutList', u) => u = current \/ Contains(timeoutList, u)
  <2>1. CASE Linked(current)
    <3>1. timeoutList' = timeoutList
      BY <2>1 DEF InsertCyclic
    <3>. QED BY <1>1, <3>1, RemoveEffect
  <2>2. CASE ~Linked(current)
    <3>. DEFINE d == due[current]
    <3>1. PICK r \in Nat : ref = r % Modulus /\ r <= clock /\ clock <= r + MaxLate
      BY <1>1 DEF TakenInv
    <3>2. d \in Nat /\ Within(time[current], d, clock, Reach)
      BY <1>1, <1>2, TaskTypes DEF TakenInv, InWindow
    <3>3. time[current] = d % Modulus /\ clock - MaxLate <= d /\ d <= clock + Reach
      BY <3>2 DEF Within
    <3>4. timeoutList' = Added(timeoutList, current, d, r)
      BY <2>2, <3>1, <3>3 DEF InsertCyclic, Added, PlaceOf
    <3>5. due' = [due EXCEPT ![current] = d] /\ time' = [time EXCEPT ![current] = d % Modulus]
      BY <1>1, <1>2, <3>3, TaskTypes
    <3>6. ~Contains(timeoutList, current) /\ clock' = clock
      BY <1>1, <2>2 DEF Linked
    <3>. HIDE DEF d
    <3>. QED BY ONLY TaskInv, <1>2, <3>1, <3>2, <3>3, <3>4, <3>5, <3>6, AddEffect
  <2>. QED BY <2>1, <2>2
<1>5. TaskTypeOK'
  <2>1. TimerTypeOK'
    BY <1>1, <1>4 DEF TaskTypeOK, TimerTypeOK
  <2>. QED BY <1>1, <2>1 DEF TaskTypeOK
<1>6. LowInv'
  BY <1>1, <1>4 DEF LowInv, Linked, TaskTypeOK, LowCalls, Idle
<1>. QED BY <1>3, <1>4, <1>5, <1>6

\* schedule() and scheduleAtFixedRate() in one piece: a timeout that goes to the front wakes the
\* task; one that is being processed belongs to a caller of higher priority.
LEMMA ScheduleKeepsInv ==
  ASSUME TaskInv, NEW t \in Timeouts, NEW cyclic \in BOOLEAN, NEW delay \in 0 .. MaxDelay,
         Schedule(t, delay, cyclic)
  PROVE  TaskInv'
<1>. USE DEF TaskInv
<1>. DEFINE d == clock + delay
<1>1. /\ UNCHANGED <<clock, queue, mask, pc, wakeTick, hasDelta, current, ref, exact, low, requested>>
      /\ CallerOf[t] # "low" /\ MayCall(CallerOf[t]) /\ Called
      /\ bound' = [bound EXCEPT ![t] = TRUE] /\ cancelled' = cancelled \ {t}
  BY DEF Schedule, taskVars
<1>2. /\ ~Linked(t) /\ time' = [time EXCEPT ![t] = (delay + now) % Modulus]
      /\ due' = [due EXCEPT ![t] = d]
      /\ timeoutList' = InsertAt(timeoutList, InsertPosition(timeoutList, (delay + now) % Modulus, now), t)
  BY DEF Schedule, Set, SetCyclic, AddTimeout
<1>3. cycle' = [cycle EXCEPT ![t] = 0] \/ cycle' = [cycle EXCEPT ![t] = delay]
  BY DEF Schedule, Set, SetCyclic, AddTimeout
<1>4. events' = events \cup {"timer"} \/ (events' = events /\ ~FrontInserted((delay + now) % Modulus))
  BY DEF Schedule
<1>5. clock \in Nat /\ delay \in Nat /\ delay <= MaxDelay /\ d \in Nat /\ delay + clock = d
  BY SMTT(60), TaskTypes, TaskConstants
<1>6. (delay + now) % Modulus = d % Modulus
  <2>1. (delay + (clock % Modulus)) % Modulus = (delay + clock) % Modulus
    <3>1. clock \in Int /\ delay \in Int /\ Modulus \in Nat \ {0}
      BY <1>5, TaskConstants
    <3>. QED BY ONLY <3>1, ModSum
  <2>. QED BY <1>5, <2>1 DEF now
<1>. HIDE DEF d
<1>7. clock - MaxLate <= d /\ d <= clock + MaxDelay /\ d <= clock + Reach
  BY ONLY <1>5, TaskConstants
<1>8. timeoutList' = Added(timeoutList, t, d, clock) /\ time' = [time EXCEPT ![t] = d % Modulus]
  BY <1>2, <1>6 DEF Added, PlaceOf, now
<1>9. /\ timeoutList' \in Seq(Timeouts) /\ IsInjective(timeoutList') /\ ListInv'
      /\ time' \in [Timeouts -> 0 .. Modulus - 1] /\ due' \in [Timeouts -> Nat]
      /\ \A u \in Timeouts : Contains(timeoutList', u) <=> u = t \/ Contains(timeoutList, u)
      /\ PlaceOf(timeoutList, d, clock) # 1 =>
           /\ timeoutList # <<>> /\ Head(timeoutList') = Head(timeoutList)
           /\ due'[Head(timeoutList')] = due[Head(timeoutList)]
  <2>1. /\ ~Contains(timeoutList, t) /\ clock' = clock
        /\ clock <= clock /\ clock <= clock + MaxLate
    BY <1>1, <1>2, <1>5, TaskConstants DEF Linked
  <2>. QED BY ONLY TaskInv, t \in Timeouts, <1>2, <1>5, <1>7, <1>8, <2>1, AddEffect
<1>10. TaskTypeOK'
  <2>1. cycle' \in [Timeouts -> 0 .. MaxDelay]
    <3>1. cycle \in [Timeouts -> 0 .. MaxDelay] /\ 0 \in 0 .. MaxDelay
      BY TaskTypes, TaskConstants
    <3>. QED BY <1>3, <3>1
  <2>2. TimerTypeOK'
    BY <1>1, <1>9, <2>1, TaskTypes DEF TimerTypeOK
  <2>3. calls' \in 0 .. MaxCalls
    BY <1>1, TaskAssumption DEF TaskTypeOK, Called
  <2>4. bound' \in [Timeouts -> BOOLEAN]
    BY <1>1 DEF TaskTypeOK
  <2>5. cancelled' \in SUBSET Timeouts /\ events' \in SUBSET {"execute", "timer", "stop"}
    BY <1>1, <1>4 DEF TaskTypeOK
  <2>. QED BY <1>1, <2>2, <2>3, <2>4, <2>5 DEF TaskTypeOK
<1>11. MaskInv' /\ CurrentInv' /\ NoLostRunnable'
  BY <1>1, <1>4 DEF MaskInv, CurrentInv, NoLostRunnable
<1>12. WakesForTimeout'
  <2>1. tickCount' = tickCount /\ events \subseteq events'
    BY <1>1, <1>4 DEF tickCount
  <2>2. PlaceOf(timeoutList, d, clock) = 1 => "timer" \in events'
    BY <1>4, <1>6 DEF FrontInserted, PlaceOf, now
  <2>. QED BY <1>1, <1>9, <2>1, <2>2 DEF WakesForTimeout
<1>13. LowInv'
  <2>1. low.op = "insert" => low.timeout \in Timeouts /\ low.timeout # t
    BY <1>1 DEF TaskTypeOK, LowCalls, Idle, LowInv
  <2>2. low.op = "insert" => time'[low.timeout] = time[low.timeout]
    BY <1>8, <2>1, TaskTypes
  <2>. QED BY <1>1, <1>9, <2>1, <2>2 DEF LowInv, Linked
<1>14. TakenInv'
  <2>1. SUFFICES ASSUME pc \in {"reschedule", "insert"}
                 PROVE  Within(time'[current], due'[current], clock,
                               IF pc = "insert" THEN Reach ELSE Reach - MaxDelay)
    BY <1>1 DEF TakenInv, InWindow
  <2>2. CASE current # t
    <3>1. current \in Timeouts
      BY <2>1, TaskTypes DEF CurrentInv
    <3>2. time'[current] = time[current] /\ due'[current] = due[current]
      BY <1>2, <1>8, <2>2, <3>1, TaskTypes
    <3>. QED BY <2>1, <3>2 DEF TakenInv, InWindow
  <2>3. CASE current = t
    <3>1. CallerOf[t] = "high"
      BY <1>1, <2>1 DEF MayCall, InCallback
    <3>2. Reach = 2 * MaxDelay
      BY <3>1, TaskConstants
    <3>3. time'[current] = d % Modulus /\ due'[current] = d
      BY <1>2, <1>8, <2>3, TaskTypes
    <3>4. d <= clock + (Reach - MaxDelay)
      BY ONLY <1>5, <1>7, <3>2, TaskConstants
    <3>. QED BY <1>7, <3>3, <3>4 DEF Within
  <2>. QED BY <2>2, <2>3
<1>. QED BY <1>9, <1>10, <1>11, <1>12, <1>13, <1>14

\* The first half of a call of schedule() by a task of lower priority: the fields.
LEMMA LowScheduleKeepsInv ==
  ASSUME TaskInv, NEW t \in Timeouts, NEW cyclic \in BOOLEAN, NEW delay \in 0 .. MaxDelay,
         LowSchedule(t, delay, cyclic)
  PROVE  TaskInv'
<1>. USE DEF TaskInv
<1>. DEFINE d == clock + delay
<1>1. /\ UNCHANGED <<timeoutList, due, clock, queue, events, requested>>
      /\ UNCHANGED <<mask, pc, wakeTick, hasDelta, current, ref, exact>>
      /\ CallerOf[t] = "low" /\ ~Linked(t) /\ Called /\ pc = "blocked" /\ low = Idle
      /\ bound' = [bound EXCEPT ![t] = TRUE] /\ cancelled' = cancelled \ {t}
      /\ low' = [op |-> "insert", timeout |-> t, at |-> clock, due |-> d]
      /\ time' = [time EXCEPT ![t] = (delay + now) % Modulus]
      /\ cycle' = [cycle EXCEPT ![t] = IF cyclic THEN delay ELSE 0]
  BY DEF LowSchedule, taskVars, MayCall, LowMayRun
<1>2. clock \in Nat /\ delay \in Nat /\ delay <= MaxDelay /\ d \in Nat /\ delay + clock = d
  BY TaskTypes, TaskConstants
<1>3. (delay + now) % Modulus = d % Modulus
  <2>1. (delay + (clock % Modulus)) % Modulus = (delay + clock) % Modulus
    <3>1. clock \in Int /\ delay \in Int /\ Modulus \in Nat \ {0}
      BY <1>2, TaskConstants
    <3>. QED BY ONLY <3>1, ModSum
  <2>. QED BY <1>2, <2>1 DEF now
<1>. HIDE DEF d
<1>4. d % Modulus \in 0 .. Modulus - 1
  <2>1. d \in Int /\ Modulus \in Nat \ {0}
    BY <1>2, TaskConstants
  <2>. QED BY ONLY <2>1, DivMod
<1>5. TimerTypeOK' /\ ListInv'
  <2>1. cycle' \in [Timeouts -> 0 .. MaxDelay]
    <3>1. cycle \in [Timeouts -> 0 .. MaxDelay] /\ 0 \in 0 .. MaxDelay
      BY TaskTypes, TaskConstants
    <3>. QED BY <1>1, <3>1
  <2>2. /\ time' = [time EXCEPT ![t] = d % Modulus] /\ due' = [due EXCEPT ![t] = due[t]]
        /\ due[t] \in Nat
    BY <1>1, <1>3, TaskTypes
  <2>. QED BY ONLY TaskInv, t \in Timeouts, <1>1, <1>4, <2>1, <2>2, UnlinkedFrame
<1>6. TaskTypeOK'
  <2>1. calls' \in 0 .. MaxCalls
    BY <1>1, TaskAssumption DEF TaskTypeOK, Called
  <2>2. bound' \in [Timeouts -> BOOLEAN] /\ cancelled' \in SUBSET Timeouts
    BY <1>1 DEF TaskTypeOK
  <2>3. low' \in LowCalls
    BY <1>1, <1>2 DEF LowCalls
  <2>. QED BY <1>1, <1>5, <2>1, <2>2, <2>3 DEF TaskTypeOK
<1>7. MaskInv' /\ CurrentInv' /\ TakenInv'
  BY <1>1 DEF MaskInv, CurrentInv, TakenInv
<1>8. NoLostRunnable' /\ WakesForTimeout'
  <2>1. tickCount' = tickCount /\ low.op = "none"
    BY <1>1 DEF tickCount, Idle
  <2>. QED BY <1>1, <2>1 DEF NoLostRunnable, WakesForTimeout
<1>9. LowInv'
  <2>1. current # t
    BY <1>1, TaskAssumption DEF CurrentInv
  <2>2. time'[t] = d % Modulus
    BY <1>1, <1>3, TaskTypes
  <2>3. clock <= clock /\ clock <= clock + MaxLate /\ clock <= d /\ d <= clock + MaxDelay
    BY ONLY <1>2, TaskConstants
  <2>. QED BY <1>1, <2>1, <2>2, <2>3 DEF LowInv, Linked
<1>. QED BY <1>5, <1>6, <1>7, <1>8, <1>9

\* The second half: the list, seen from the time the first half has read.
LEMMA LowInsertKeepsInv ==
  ASSUME TaskInv, LowInsert PROVE TaskInv'
<1>. USE DEF TaskInv
<1>. DEFINE t == low.timeout  d == low.due  at == low.at
<1>1. /\ UNCHANGED <<time, cycle, clock, queue, events, bound, calls, requested, cancelled>>
      /\ UNCHANGED <<mask, pc, wakeTick, hasDelta, current, ref, exact>>
      /\ pc = "blocked" /\ low.op = "insert" /\ due' = [due EXCEPT ![t] = d]
      /\ timeoutList' = InsertAt(timeoutList, InsertPosition(timeoutList, time[t], at % Modulus), t)
      /\ low' = IF InsertPosition(timeoutList, time[t], at % Modulus) = 1 THEN [op |-> "event"] ELSE Idle
  BY DEF LowInsert, taskVars, LowMayRun
<1>2. t \in Timeouts /\ d \in Nat /\ at \in Nat
  BY <1>1 DEF TaskTypeOK, LowCalls, Idle
<1>3. /\ ~Contains(timeoutList, t) /\ time[t] = d % Modulus /\ at <= clock /\ clock <= at + MaxLate
      /\ at <= d /\ d <= at + MaxDelay
  BY <1>1 DEF LowInv, Linked
<1>. HIDE DEF t, d, at
<1>4. clock \in Nat /\ clock - MaxLate <= d /\ d <= clock + Reach /\ clock' = clock
  <2>1. clock \in Nat
    BY TaskTypes
  <2>. QED BY ONLY <1>1, <1>2, <1>3, <2>1, TaskConstants
<1>5. /\ timeoutList' = Added(timeoutList, t, d, at)
      /\ time' = [time EXCEPT ![t] = d % Modulus]
  BY <1>1, <1>2, <1>3, TaskTypes DEF Added, PlaceOf
<1>6. /\ timeoutList' \in Seq(Timeouts) /\ IsInjective(timeoutList') /\ ListInv'
      /\ time' \in [Timeouts -> 0 .. Modulus - 1] /\ due' \in [Timeouts -> Nat]
      /\ PlaceOf(timeoutList, d, at) # 1 =>
           /\ timeoutList # <<>> /\ Head(timeoutList') = Head(timeoutList)
           /\ due'[Head(timeoutList')] = due[Head(timeoutList)]
  BY ONLY TaskInv, <1>1, <1>2, <1>3, <1>4, <1>5, AddEffect
<1>7. TaskTypeOK'
  <2>1. TimerTypeOK'
    BY <1>1, <1>6, TaskTypes DEF TimerTypeOK
  <2>2. low' \in LowCalls
    BY <1>1 DEF LowCalls
  <2>. QED BY <1>1, <2>1, <2>2 DEF TaskTypeOK
<1>8. low'.op # "insert" /\ (PlaceOf(timeoutList, d, at) = 1 => low'.op = "event")
  BY <1>1, <1>3 DEF PlaceOf, Idle
<1>9. MaskInv' /\ CurrentInv' /\ TakenInv' /\ LowInv' /\ NoLostRunnable'
  BY <1>1, <1>8 DEF MaskInv, CurrentInv, TakenInv, LowInv, NoLostRunnable
<1>10. WakesForTimeout'
  <2>1. tickCount' = tickCount
    BY <1>1 DEF tickCount
  <2>. QED BY <1>1, <1>6, <1>8, <2>1 DEF WakesForTimeout
<1>. QED BY <1>6, <1>7, <1>9, <1>10

\* cancel(), under one lock: a shorter list; the task may wake up too early, never too late.
LEMMA CancelKeepsInv ==
  ASSUME TaskInv, NEW t \in Timeouts, CancelTimeout(t) PROVE TaskInv'
<1>. USE DEF TaskInv
<1>1. /\ UNCHANGED <<time, cycle, due, clock, queue, events, low, requested>>
      /\ UNCHANGED <<mask, pc, wakeTick, hasDelta, current, ref, exact>>
      /\ Called /\ bound' = [bound EXCEPT ![t] = FALSE] /\ cancelled' = cancelled \cup {t}
      /\ timeoutList' = timeoutList \/ timeoutList' = RemoveFirst(timeoutList, t)
  BY DEF CancelTimeout, Cancel, taskVars, timerVars
<1>2. \/ timeoutList' = timeoutList
      \/ \E p \in 1 .. Len(timeoutList) : timeoutList' = RemoveAt(timeoutList, p)
  <2>1. CASE \E i \in 1 .. Len(timeoutList) : timeoutList[i] = t
    BY <1>1, <2>1, TaskTypes, RemoveFirstFacts
  <2>2. CASE ~\E i \in 1 .. Len(timeoutList) : timeoutList[i] = t
    BY <1>1, <2>2 DEF RemoveFirst
  <2>. QED BY <2>1, <2>2
<1>3. /\ timeoutList' \in Seq(Timeouts) /\ IsInjective(timeoutList') /\ ListInv'
      /\ \A u \in Timeouts : Contains(timeoutList', u) => Contains(timeoutList, u)
      /\ timeoutList' # <<>> =>
           /\ timeoutList # <<>> /\ Head(timeoutList) \in Timeouts
           /\ due[Head(timeoutList)] <= due'[Head(timeoutList')]
  BY <1>1, <1>2, RemoveEffect
<1>4. TaskTypeOK'
  <2>1. TimerTypeOK'
    BY <1>1, <1>3, TaskTypes DEF TimerTypeOK
  <2>2. calls' \in 0 .. MaxCalls
    BY <1>1, TaskAssumption DEF TaskTypeOK, Called
  <2>3. bound' \in [Timeouts -> BOOLEAN] /\ cancelled' \in SUBSET Timeouts
    BY <1>1 DEF TaskTypeOK
  <2>. QED BY <1>1, <2>1, <2>2, <2>3 DEF TaskTypeOK
<1>5. MaskInv' /\ CurrentInv' /\ NoLostRunnable'
  BY <1>1 DEF MaskInv, CurrentInv, NoLostRunnable
<1>6. TakenInv'
  BY <1>1 DEF TakenInv, InWindow
<1>7. LowInv'
  BY <1>1, <1>3 DEF LowInv, Linked, TaskTypeOK, LowCalls, Idle
<1>8. WakesForTimeout'
  <2>1. SUFFICES ASSUME pc' = "blocked", timeoutList' # <<>>
                 PROVE  \/ "timer" \in events' \/ low'.op = "event"
                        \/ hasDelta' /\ wakeTick' * TickLength < due'[Head(timeoutList')] + TickLength
                        \/ wakeTick' <= tickCount'
    BY DEF WakesForTimeout
  <2>. DEFINE x == due[Head(timeoutList)]  y == due'[Head(timeoutList')]
  <2>2. x \in Nat /\ y \in Nat /\ x <= y /\ tickCount' = tickCount
    <3>1. Head(timeoutList') \in Timeouts
      BY <1>3, <2>1
    <3>. QED BY <1>1, <1>3, <2>1, <3>1, TaskTypes DEF tickCount
  <2>3. \/ "timer" \in events \/ low.op = "event"
        \/ hasDelta /\ wakeTick * TickLength < x + TickLength
        \/ wakeTick <= tickCount
    BY <1>1, <1>3, <2>1 DEF WakesForTimeout
  <2>4. wakeTick * TickLength < x + TickLength => wakeTick * TickLength < y + TickLength
    <3>. HIDE DEF x, y
    <3>. DEFINE w == wakeTick * TickLength
    <3>1. w \in Int /\ TickLength \in Nat
      BY TaskTypes, TaskConstants
    <3>. HIDE DEF w
    <3>2. w < x + TickLength => w < y + TickLength
      BY ONLY <2>2, <3>1
    <3>. QED BY <3>2 DEF w
  <2>. QED BY <1>1, <2>2, <2>3, <2>4
<1>. QED BY <1>3, <1>4, <1>5, <1>6, <1>7, <1>8

\* Time passes: nothing leaves its window, and the task wakes up no later than before.
LEMMA ClockTickKeepsInv ==
  ASSUME TaskInv, ClockTick PROVE TaskInv'
<1>. USE DEF TaskInv
<1>1. /\ UNCHANGED <<timeoutList, time, cycle, due, queue, events>>
      /\ UNCHANGED <<mask, pc, wakeTick, hasDelta, current, ref, exact>>
      /\ UNCHANGED <<bound, low, calls, requested, cancelled>>
      /\ clock' = clock + 1 /\ clock < MaxClock
      /\ \A t \in Timeouts : Linked(t) => clock < due[t] + MaxLate
      /\ low.op = "insert" => clock < low.at + MaxLate
      /\ current # NoTimeout => clock < due[current] + MaxLate /\ Diff(now, ref) < MaxLate
  BY DEF ClockTick, Tick, TickAllowed, timerVars, taskVars, clientVars
<1>2. clock \in Nat /\ clock' \in Nat /\ clock' \in 0 .. MaxClock
  <2>1. clock \in Nat /\ MaxClock \in Nat
    BY TaskTypes, TaskConstants
  <2>. QED BY ONLY <1>1, <2>1
<1>3. TimerTypeOK' /\ TaskTypeOK'
  <2>1. TimerTypeOK'
    BY <1>1, <1>2, TaskTypes DEF TimerTypeOK
  <2>. QED BY <1>1, <2>1 DEF TaskTypeOK
<1>4. ASSUME NEW s, NEW d \in Nat, NEW ahead \in Int, Within(s, d, clock, ahead), clock < d + MaxLate
      PROVE  Within(s, d, clock', ahead)
  <2>1. s = d % Modulus /\ d <= clock + ahead
    BY <1>4 DEF Within
  <2>2. clock' - MaxLate <= d /\ d <= clock' + ahead
    BY ONLY <1>1, <1>2, <1>4, <2>1, TaskConstants
  <2>. QED BY <2>1, <2>2 DEF Within
<1>5. ListInv'
  <2>1. SortedByDue'
    BY <1>1 DEF ListInv, SortedByDue
  <2>2. ASSUME NEW t \in Timeouts, Linked(t)' PROVE InWindow(t, Reach)'
    <3>1. Linked(t) /\ Within(time[t], due[t], clock, Reach) /\ due[t] \in Nat
      BY <1>1, <2>2, TaskTypes DEF ListInv, Linked, InWindow
    <3>2. Within(time[t], due[t], clock', Reach)
      BY <1>1, <1>4, <3>1, TaskConstants
    <3>. QED BY <1>1, <3>2 DEF InWindow
  <2>. QED BY <2>1, <2>2 DEF ListInv
<1>6. TakenInv'
  <2>1. SUFFICES ASSUME pc \in {"reschedule", "insert"}
                 PROVE  /\ Within(time[current], due[current], clock',
                                  IF pc = "insert" THEN Reach ELSE Reach - MaxDelay)
                        /\ \E r \in Nat : ref = r % Modulus /\ r <= clock' /\ clock' <= r + MaxLate
    BY <1>1 DEF TakenInv, InWindow
  <2>2. current \in Timeouts /\ current # NoTimeout /\ due[current] \in Nat
    BY <2>1, TaskTypes DEF CurrentInv
  <2>. DEFINE ahead == IF pc = "insert" THEN Reach ELSE Reach - MaxDelay
  <2>3. Within(time[current], due[current], clock, ahead)
    BY <2>1 DEF TakenInv, InWindow
  <2>4. ahead \in Int
    BY TaskConstants
  <2>. HIDE DEF ahead
  <2>5. Within(time[current], due[current], clock', ahead)
    BY <1>1, <1>4, <2>2, <2>3, <2>4
  <2>6. PICK r \in Nat : ref = r % Modulus /\ r <= clock /\ clock <= r + MaxLate
    BY <2>1 DEF TakenInv
  <2>7. Diff(clock % Modulus, r % Modulus) = clock - r
    <3>1. clock \in Int /\ r \in Int /\ clock - r \in -Half .. Half - 1
      BY ONLY <1>2, <2>6, TaskConstants
    <3>. QED BY ONLY <3>1, DiffExact
  <2>8. clock - r < MaxLate
    BY <1>1, <2>2, <2>6, <2>7 DEF now
  <2>9. r <= clock' /\ clock' <= r + MaxLate
    BY ONLY <1>1, <1>2, <2>6, <2>8, TaskConstants
  <2>. QED BY <2>5, <2>6, <2>9 DEF ahead
<1>7. LowInv'
  <2>1. low.op = "insert" => low.at \in Nat
    BY DEF TaskTypeOK, LowCalls, Idle
  <2>2. low.op = "insert" => low.at <= clock' /\ clock' <= low.at + MaxLate
    BY <1>1, <1>2, <2>1, TaskConstants DEF LowInv
  <2>. QED BY <1>1, <2>2 DEF LowInv, Linked
<1>8. MaskInv' /\ CurrentInv' /\ NoLostRunnable'
  BY <1>1 DEF MaskInv, CurrentInv, NoLostRunnable
<1>9. WakesForTimeout'
  <2>1. tickCount \in Nat /\ tickCount' \in Nat /\ tickCount <= tickCount'
    <3>1. TickLength \in Nat \ {0} /\ clock <= clock' /\ clock' <= clock'
      BY <1>1, <1>2, TaskConstants
    <3>2. /\ clock \div TickLength \in Nat /\ clock' \div TickLength \in Nat
          /\ clock \div TickLength <= clock' \div TickLength
      BY ONLY <1>2, <3>1, DivOrder
    <3>. QED BY <3>2 DEF tickCount
  <2>2. wakeTick \in Nat
    BY TaskTypes
  <2>3. wakeTick <= tickCount => wakeTick <= tickCount'
    BY ONLY <2>1, <2>2
  <2>. QED BY <1>1, <2>3 DEF WakesForTimeout
<1>. QED BY <1>3, <1>5, <1>6, <1>7, <1>8, <1>9

\* The inductive invariant of the task.
LEMMA TaskInvInductive ==
  /\ Init => TaskInv
  /\ TaskInv /\ [Next]_vars => TaskInv'
<1>1. ASSUME Init PROVE TaskInv
  <2>1. TimerTypeOK
    <3>1. timeoutList = <<>> /\ timeoutList \in Seq(Timeouts) /\ IsInjective(timeoutList)
      BY <1>1 DEF Init, TimerInit, IsInjective
    <3>. QED BY <1>1, <3>1, TaskConstants DEF Init, TimerTypeOK, TimerInit
  <2>2. TaskTypeOK
    <3>1. queue = <<>> /\ queue \in Seq(Runnables)
      BY <1>1 DEF Init
    <3>2. 0 \in 0 .. MaxCalls /\ 0 \in 0 .. Modulus - 1
      BY TaskConstants, TaskAssumption
    <3>3. hasDelta \in BOOLEAN /\ exact \in BOOLEAN
      BY <1>1, Zenon DEF Init
    <3>4. bound \in [Timeouts -> BOOLEAN]
      BY <1>1 DEF Init
    <3>5. low \in LowCalls
      BY <1>1 DEF Init, LowCalls
    <3>. QED BY <1>1, <2>1, <3>1, <3>2, <3>3, <3>4, <3>5 DEF Init, TaskTypeOK
  <2>3. timeoutList = <<>> /\ \A t : ~Contains(timeoutList, t)
    BY <1>1 DEF Init, TimerInit, Contains
  <2>4. ListInv
    BY <2>3 DEF ListInv, SortedByDue, Linked
  <2>5. MaskInv /\ CurrentInv /\ TakenInv /\ LowInv /\ NoLostRunnable /\ WakesForTimeout
    BY <1>1 DEF Init, MaskInv, CurrentInv, TakenInv, LowInv, NoLostRunnable, WakesForTimeout, Idle
  <2>. QED BY <2>2, <2>4, <2>5 DEF TaskInv
<1>2. ASSUME TaskInv, [Next]_vars PROVE TaskInv'
  <2>1. CASE TaskStep
    BY <1>2, <2>1, QuietTaskSteps, WaitEventsKeepsInv, TakeTimeoutKeepsInv, RescheduleKeepsInv,
       InsertCyclicKeepsInv DEF TaskStep
  <2>2. CASE ClientStep
    <3>1. ASSUME NEW t \in Timeouts, NEW cyclic \in BOOLEAN,
                 NEW delay \in (IF cyclic THEN 1 ELSE 0) .. MaxDelay,
                 Schedule(t, delay, cyclic) \/ LowSchedule(t, delay, cyclic)
          PROVE  TaskInv'
      <4>1. delay \in 0 .. MaxDelay
        BY TaskConstants
      <4>. QED BY <1>2, <3>1, <4>1, ScheduleKeepsInv, LowScheduleKeepsInv
    <3>2. ASSUME NEW t \in Timeouts, CancelTimeout(t) PROVE TaskInv'
      BY <1>2, <3>2, CancelKeepsInv
    <3>3. CASE (\E r \in Runnables : Execute(r) \/ LowExecute(r)) \/ LowSetEvent
      BY <1>2, <3>3, QuietClientSteps
    <3>4. CASE LowInsert
      BY <1>2, <3>4, LowInsertKeepsInv
    <3>. QED BY <2>2, <3>1, <3>2, <3>3, <3>4, Zenon DEF ClientStep
  <2>3. CASE StopDispatch \/ UNCHANGED vars
    BY <1>2, <2>3, QuietClientSteps
  <2>4. CASE ClockTick
    BY <1>2, <2>4, ClockTickKeepsInv
  <2>. QED BY <1>2, <2>1, <2>2, <2>3, <2>4 DEF Next
<1>. QED BY <1>1, <1>2

-------------------------------------------------------------------------------
\* The inductive invariant, with the types, of the task and its callers.
THEOREM TaskInvariant == Spec => []TaskInv
  BY TaskInvInductive, PTL DEF Spec

\* RunnableExecutor, dispatch(): no order of enqueue(), setEvents() and the steps of the task
\* leaves a runnable in the queue with nobody to look at it.
THEOREM RunnablesAreNotLost == Spec => []NoLostRunnable
<1>1. TaskInv => NoLostRunnable
  BY DEF TaskInv
<1>. QED BY <1>1, TaskInvariant, PTL

\* waitEvents(), addTimeout(), setEvents(): a sleeping task has been woken for, or has set its
\* wait by, the first timeout of the list, whoever linked or removed timeouts while it slept.
THEOREM TaskWakesUp == Spec => []WakesForTimeout
<1>1. TaskInv => WakesForTimeout
  BY DEF TaskInv
<1>. QED BY <1>1, TaskInvariant, PTL

\* addTimeout() with a `now' that has become stale: the list of the concurrent task stays in the
\* order of the true due times, and its times are exact, across every wrap of the counter.
THEOREM TaskListExact == Spec => [](TimesAreExact /\ SortedByDue)
<1>1. ASSUME TaskInv PROVE TimesAreExact /\ SortedByDue
  <2>1. Reach \in Nat /\ Reach < Half
    BY TaskConstants
  <2>. QED BY <1>1, <2>1, TaskTypes, WindowIsExact DEF TaskInv, ListInv
<1>. QED BY <1>1, TaskInvariant, PTL
===============================================================================
