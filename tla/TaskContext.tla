----------------------------- MODULE TaskContext -----------------------------
(***************************************************************************)
(* libs/bsw/asyncFreeRtos and asyncImpl: the task behind an async context. *)
(* It sleeps in xTaskNotifyWait, runs the queued runnables when notified   *)
(* of them and the due timeouts when the wait times out.                   *)
(*                                                                         *)
(* Tasks have fixed priorities on one core.  A caller of higher priority   *)
(* (or an interrupt) runs its whole call between two steps of the task; a  *)
(* caller of lower priority runs only while the task sleeps, and the task  *)
(* may wake up between two steps of its call; a runnable or a timeout of   *)
(* the task itself calls between two steps of the task.                    *)
(***************************************************************************)
EXTENDS Timer

CONSTANTS Runnables,    \* the runnables given to the context
          NoTimeout,    \* no timeout is being processed
          CallerOf,     \* CallerOf[t]: who schedules and cancels timeout t
          TickLength,   \* Config::TICK_IN_US
          WaitTicks,    \* Binding::WAIT_EVENTS_TICK_COUNT
          MaxCalls      \* bound: the number of calls of the async API

\* How far ahead a due time may be: a cyclic timeout that a task of higher priority sets and
\* cancels again while its last expiry is being processed is linked one more period later.
Reach == IF \E t \in Timeouts : CallerOf[t] = "high" THEN 2 * MaxDelay ELSE MaxDelay

\* A `now' that has become stale must not bring a timeout half the range away.
ASSUME TaskAssumption == /\ Reach + MaxLate < Half
                         /\ NoTimeout \notin Timeouts
                         /\ CallerOf \in [Timeouts -> {"own", "low", "high"}]
                         /\ TickLength \in Nat \ {0} /\ WaitTicks \in Nat \ {0}
                         /\ MaxCalls \in Nat

VARIABLES
  queue,      \* RunnableExecutor::_queue
  events,     \* the notification bits of the task
  mask,       \* the events waitEvents() returned, as far as not handled
  pc,         \* the place of the task in dispatch()
  wakeTick,   \* the tick at which xTaskNotifyWait times out
  hasDelta,   \* waitEvents(): a timeout was linked
  current,    \* processNextTimeout(): the timeout taken off the list
  ref,        \* processNextTimeout(): `now'
  exact,      \* processNextTimeout(): diffTimeout = 0
  bound,      \* TimeoutType::_context is not CONTEXT_INVALID
  low,        \* the call a task of lower priority is in
  calls,      \* the number of calls so far
  requested,  \* runnables whose execute() has been asked for and not begun
  cancelled   \* timeouts cancelled and not scheduled since

taskVars   == <<mask, pc, wakeTick, hasDelta, current, ref, exact>>
clientVars == <<bound, low, calls, requested, cancelled>>
vars == <<timerVars, clock, queue, events, taskVars, clientVars>>

Idle == [op |-> "none"]

LowCalls == {Idle, [op |-> "execute"], [op |-> "event"]}
            \cup [op : {"insert"}, timeout : Timeouts, at : Nat, due : Nat]

TaskTypeOK ==
  /\ TimerTypeOK
  /\ queue \in Seq(Runnables)
  /\ events \in SUBSET {"execute", "timer", "stop"} /\ mask \in SUBSET {"execute", "timer", "stop"}
  /\ pc \in {"wait", "blocked", "handle", "execute", "timer", "reschedule", "insert",
             "expired", "stopped"}
  /\ wakeTick \in Nat /\ hasDelta \in BOOLEAN /\ exact \in BOOLEAN
  /\ current \in Timeouts \cup {NoTimeout} /\ ref \in 0 .. Modulus - 1
  /\ bound \in [Timeouts -> BOOLEAN]
  /\ low \in LowCalls
  /\ calls \in 0 .. MaxCalls
  /\ requested \in SUBSET Runnables /\ cancelled \in SUBSET Timeouts

Init == /\ TimerInit
        /\ queue = <<>> /\ events = {} /\ mask = {} /\ pc = "wait"
        /\ wakeTick = 0 /\ hasDelta = FALSE
        /\ current = NoTimeout /\ ref = 0 /\ exact = FALSE
        /\ bound = [t \in Timeouts |-> TRUE]
        /\ low = Idle /\ calls = 0 /\ requested = {} /\ cancelled = {}

tickCount == clock \div TickLength

\* xTaskNotifyWait is about to return.
Wakeable == events # {} \/ tickCount >= wakeTick

LowMayRun == pc = "blocked" /\ ~Wakeable

\* The task is inside a runnable or a timeout of its own.
InCallback == pc = "execute" \/ pc = "expired"

MayCall(caller) == \/ caller = "high"
                   \/ caller = "own" /\ InCallback
                   \/ caller = "low" /\ LowMayRun /\ low = Idle

------------------------------------------------------------------------------
\* The task: dispatch().

\* waitEvents() up to the notification wait: the number of ticks is rounded up.
WaitEvents ==
  /\ pc = "wait"
  /\ pc' = "blocked"
  /\ hasDelta' = (timeoutList # <<>>)
  /\ wakeTick' = tickCount + (IF timeoutList # <<>>
                              THEN (NextDelta + TickLength - 1) \div TickLength
                              ELSE WaitTicks)
  /\ UNCHANGED <<timerVars, clock, queue, events, mask, current, ref, exact, clientVars>>

\* xTaskNotifyWait returns the bits and clears them ...
Notified ==
  /\ pc = "blocked" /\ events # {}
  /\ mask' = events /\ events' = {}
  /\ pc' = "handle" /\ wakeTick' = 0 /\ hasDelta' = FALSE
  /\ UNCHANGED <<timerVars, clock, queue, current, ref, exact,
                 clientVars>>

\* Mutant: the end of the wait is not taken for the timer event.
TimedOutNoTimer ==
  /\ pc = "blocked" /\ events = {} /\ tickCount >= wakeTick
  /\ mask' = {}
  /\ pc' = "handle" /\ wakeTick' = 0 /\ hasDelta' = FALSE
  /\ UNCHANGED <<timerVars, clock, queue, events, current, ref, exact,
                 clientVars>>

\* ... or times out, which counts as the timer event if a timeout was linked.
TimedOut ==
  /\ pc = "blocked" /\ events = {} /\ tickCount >= wakeTick
  /\ mask' = IF hasDelta THEN {"timer"} ELSE {}
  /\ pc' = "handle" /\ wakeTick' = 0 /\ hasDelta' = FALSE
  /\ UNCHANGED <<timerVars, clock, queue, events, current, ref, exact,
                 clientVars>>

\* handleEvents(): first the runnables, then the timeouts; STOP ends dispatch().
HandleEvents ==
  /\ pc = "handle"
  /\ pc' = IF "execute" \in mask THEN "execute"
           ELSE IF "timer" \in mask THEN "timer"
           ELSE IF "stop" \in mask THEN "stopped" ELSE "wait"
  /\ mask' = IF "execute" \in mask THEN mask \ {"execute"} ELSE mask \ {"timer"}
  /\ UNCHANGED <<timerVars, clock, queue, events, wakeTick, hasDelta, current, ref, exact,
                 clientVars>>

\* Mutant: one runnable per event.
ExecuteOneRunnable ==
  /\ pc = "execute" /\ queue # <<>>
  /\ queue' = Tail(queue)
  /\ requested' = requested \ {Head(queue)}
  /\ pc' = "handle"
  /\ UNCHANGED <<timerVars, clock, events, mask, wakeTick, hasDelta, current, ref, exact, bound,
                 low, calls, cancelled>>

\* One round of RunnableExecutor::handleEvent(): dequeue and execute.
ExecuteRunnable ==
  /\ pc = "execute" /\ queue # <<>>
  /\ queue' = Tail(queue)
  /\ requested' = requested \ {Head(queue)}
  /\ UNCHANGED <<timerVars, clock, events, taskVars, bound, low, calls, cancelled>>

QueueEmpty ==
  /\ pc = "execute" /\ queue = <<>>
  /\ pc' = "handle"
  /\ UNCHANGED <<timerVars, clock, queue, events, mask, wakeTick, hasDelta, current, ref, exact,
                 clientVars>>

\* handleTimeout(), processNextTimeout(): the locked part takes the due timeout.
TakeTimeout ==
  /\ pc = "timer" /\ FrontDue
  /\ current' = Head(timeoutList)
  /\ timeoutList' = Tail(timeoutList)
  /\ ref' = now /\ exact' = (Diff(time[Head(timeoutList)], now) = 0)
  /\ pc' = "reschedule"
  /\ UNCHANGED <<time, cycle, due, clock, queue, events, mask, wakeTick, hasDelta,
                 clientVars>>

NothingDue ==
  /\ pc = "timer" /\ ~FrontDue
  /\ pc' = "handle"
  /\ UNCHANGED <<timerVars, clock, queue, events, mask, wakeTick, hasDelta, current, ref, exact,
                 clientVars>>

\* rescheduleCyclicTimeout(), addTimeout() before the lock: a timeout that is
\* linked again is left alone, the others get their next time.
Reschedule ==
  /\ pc = "reschedule"
  /\ IF cycle[current] > 0 /\ ~Linked(current)
     THEN /\ time' = [time EXCEPT ![current] = Rescheduled(current)]
          /\ due' = [due EXCEPT ![current] = @ + cycle[current]]
          /\ pc' = "insert"
     ELSE pc' = "expired" /\ UNCHANGED <<time, due>>
  /\ UNCHANGED <<timeoutList, cycle, clock, queue, events, mask, wakeTick, hasDelta, current,
                 ref, exact, clientVars>>

\* addTimeout(), the locked part; insert_after refuses a timeout that
\* is linked (the assertion intrusive_forward_list_value_is_already_linked).
InsertCyclic ==
  /\ pc = "insert"
  /\ timeoutList' = IF Linked(current) THEN timeoutList
                    ELSE InsertAt(timeoutList, InsertPosition(timeoutList, time[current], ref), current)
  /\ pc' = "expired"
  /\ UNCHANGED <<time, cycle, due, clock, queue, events, mask, wakeTick, hasDelta, current,
                 ref, exact, clientVars>>

\* expired() runs the runnable; processNextTimeout() asks to be called again only if
\* the timeout was exactly on time.
Expired ==
  /\ pc = "expired"
  /\ pc' = IF exact THEN "timer" ELSE "handle"
  /\ current' = NoTimeout /\ ref' = 0 /\ exact' = FALSE
  /\ UNCHANGED <<timerVars, clock, queue, events, mask, wakeTick, hasDelta, clientVars>>

TaskStep == \/ WaitEvents \/ Notified \/ TimedOut \/ HandleEvents
            \/ ExecuteRunnable \/ QueueEmpty
            \/ TakeTimeout \/ NothingDue \/ Reschedule \/ InsertCyclic \/ Expired
------------------------------------------------------------------------------
\* The callers.

Called == calls < MaxCalls /\ calls' = calls + 1

\* RunnableExecutor::enqueue() under the lock: a queued runnable is not queued again.
Enqueued(r) == IF Contains(queue, r) THEN queue ELSE Append(queue, r)

\* async::execute() from an interrupt, a task of higher priority or the task itself.
Execute(r) ==
  /\ Called
  /\ queue' = Enqueued(r)
  /\ events' = events \cup {"execute"}
  /\ requested' = requested \cup {r}
  /\ UNCHANGED <<timerVars, clock, taskVars, bound, low, cancelled>>

\* async::execute() from a task of lower priority: the event follows the queue.
LowExecute(r) ==
  /\ Called /\ MayCall("low")
  /\ queue' = Enqueued(r)
  /\ requested' = requested \cup {r}
  /\ low' = [op |-> "execute"]
  /\ UNCHANGED <<timerVars, clock, events, taskVars, bound, cancelled>>

LowSetEvent ==
  /\ LowMayRun /\ low.op \in {"execute", "event"}
  /\ events' = events \cup {IF low.op = "execute" THEN "execute" ELSE "timer"}
  /\ low' = Idle
  /\ UNCHANGED <<timerVars, clock, queue, taskVars, bound, calls, requested, cancelled>>

\* TaskContext::schedule() and scheduleAtFixedRate() in one piece.
Schedule(t, delay, cyclic) ==
  /\ Called /\ CallerOf[t] # "low" /\ MayCall(CallerOf[t])
  /\ IF cyclic THEN SetCyclic(t, delay) ELSE Set(t, delay)
  /\ events' = IF FrontInserted((delay + now) % Modulus) THEN events \cup {"timer"} ELSE events
  /\ bound' = [bound EXCEPT ![t] = TRUE]
  /\ cancelled' = cancelled \ {t}
  /\ UNCHANGED <<clock, queue, taskVars, low, requested>>

\* The same from a task of lower priority: the fields, the list, the event.
LowSchedule(t, delay, cyclic) ==
  /\ Called /\ CallerOf[t] = "low" /\ MayCall("low") /\ ~Linked(t)
  /\ time' = [time EXCEPT ![t] = (delay + now) % Modulus]
  /\ cycle' = [cycle EXCEPT ![t] = IF cyclic THEN delay ELSE 0]
  /\ bound' = [bound EXCEPT ![t] = TRUE]
  /\ low' = [op |-> "insert", timeout |-> t, at |-> clock, due |-> clock + delay]
  /\ cancelled' = cancelled \ {t}
  /\ UNCHANGED <<timeoutList, due, clock, queue, events, taskVars, requested>>

\* Mutant: the event is set unless the timeout goes to the front.
LowInsertNoEvent ==
  /\ LowMayRun /\ low.op = "insert"
  /\ LET at == InsertPosition(timeoutList, time[low.timeout], low.at % Modulus)
     IN /\ timeoutList' = InsertAt(timeoutList, at, low.timeout)
        /\ low' = IF at # 1 THEN [op |-> "event"] ELSE Idle
  /\ due' = [due EXCEPT ![low.timeout] = low.due]
  /\ UNCHANGED <<time, cycle, clock, queue, events, taskVars, bound, calls, requested,
                 cancelled>>

LowInsert ==
  /\ LowMayRun /\ low.op = "insert"
  /\ LET at == InsertPosition(timeoutList, time[low.timeout], low.at % Modulus)
     IN /\ timeoutList' = InsertAt(timeoutList, at, low.timeout)
        /\ low' = IF at = 1 THEN [op |-> "event"] ELSE Idle
  /\ due' = [due EXCEPT ![low.timeout] = low.due]
  /\ UNCHANGED <<time, cycle, clock, queue, events, taskVars, bound, calls, requested,
                 cancelled>>

\* TimeoutType::cancel(), FreeRtosAdapter::cancel(): under one lock; a timeout that
\* has been cancelled before is left alone.
CancelTimeout(t) ==
  /\ Called /\ MayCall(CallerOf[t])
  /\ IF bound[t] THEN Cancel(t) ELSE UNCHANGED timerVars
  /\ bound' = [bound EXCEPT ![t] = FALSE]
  /\ cancelled' = cancelled \cup {t}
  /\ UNCHANGED <<clock, queue, events, taskVars, low, requested>>

\* stopDispatch().
StopDispatch ==
  /\ Called
  /\ events' = events \cup {"stop"}
  /\ UNCHANGED <<timerVars, clock, queue, taskVars, bound, low, requested, cancelled>>

\* Time passes, but neither the task, since it has read `now', nor an interrupted caller is
\* held up for more than MaxLate.
ClockTick ==
  /\ Tick
  /\ low.op = "insert" => clock < low.at + MaxLate
  /\ current # NoTimeout => clock < due[current] + MaxLate /\ Diff(now, ref) < MaxLate
  /\ UNCHANGED <<queue, events, taskVars, clientVars>>

ClientStep == \/ \E r \in Runnables : Execute(r) \/ LowExecute(r)
              \/ LowSetEvent \/ LowInsert
              \/ \E t \in Timeouts, cyclic \in BOOLEAN :
                   \E delay \in (IF cyclic THEN 1 ELSE 0) .. MaxDelay :
                      Schedule(t, delay, cyclic) \/ LowSchedule(t, delay, cyclic)
              \/ \E t \in Timeouts : CancelTimeout(t)

Next == pc # "stopped" /\ (TaskStep \/ ClientStep \/ StopDispatch \/ ClockTick)

Spec == Init /\ [][Next]_vars

\* The task runs when it can, a caller in the middle of a call goes on when the task
\* sleeps, time passes.
FairSpec == /\ Spec
            /\ WF_vars(TaskStep) /\ WF_vars(LowSetEvent \/ LowInsert) /\ WF_vars(ClockTick)
------------------------------------------------------------------------------
\* A queued runnable is never forgotten: the task is looking at the queue, has the
\* event, or is going to get it from a caller that has been interrupted.
NoLostRunnable ==
  queue # <<>> => \/ "execute" \in events \cup mask
                  \/ pc \in {"execute", "stopped"}
                  \/ low.op = "execute"

\* A sleeping task wakes up within a tick of the time its first timeout is due,
\* whoever linked it and whenever.
WakesForTimeout ==
  pc = "blocked" /\ timeoutList # <<>> =>
    \/ "timer" \in events \/ low.op = "event"
    \/ hasDelta /\ wakeTick * TickLength < due[Head(timeoutList)] + TickLength
    \/ wakeTick <= tickCount

\* "It can be cancelled using its cancel() method": a cancelled timeout is not linked.
CancelledIsInactive == \A t \in cancelled : ~Linked(t)

\* A runnable that has been given to the context is executed, unless the task is stopped.
RunnableIsExecuted ==
  \A r \in Runnables : r \in requested ~> r \notin requested \/ pc = "stopped"

\* A linked one-shot timeout expires or is cancelled, unless the task is stopped or the
\* time ends before it.
TimeoutIsServed ==
  \A t \in Timeouts :
    Linked(t) /\ cycle[t] = 0 /\ due[t] + 2 * TickLength <= MaxClock
      ~> ~Linked(t) \/ pc = "stopped"
==============================================================================
