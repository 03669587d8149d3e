# OpenBSW: a TLA+ model of its run-time core

OpenBSW is a C++ stack for automotive control units: a small operating-system
abstraction (asynchronous contexts, timers), a lifecycle manager, and
communication stacks (CAN transport, UDS diagnostics, DoIP, SOME/IP) on top of
it. This directory holds TLA+ models of its core logic, the TLC runs that check
them on small instances, and TLAPS proofs for all instances.

All models are translated from the source; every definition that models code is
listed with its file and lines under `map` in `PROJECT.json`. Paths below are
relative to `src/`.

## 1. Inventory

| Part | State | Operations | Talks to | What is hard |
|---|---|---|---|---|
| `libs/bsw/lifecycle` | registry of components per level, executors of the running transition, target / current / initialised level | `addComponent`, `transitionToLevel`, `execute`, `transitionDone`, listeners | `async` (queues itself and its executors), components, listeners | answers come from other contexts without a lock; requests change in the middle of a transition |
| `libs/bsw/timer` | sorted list of timeouts with 32-bit times | `set`, `setCyclic`, `cancel`, `processNextTimeout`, `getNextDelta` | `async` | wrap-around, late processing, locks that cover parts of an operation |
| `libs/bsw/async`, `asyncImpl`, `asyncFreeRtos`, `asyncThreadX` | per task: queue of runnables, event bits, timer | `execute`, `schedule`, `scheduleAtFixedRate`, `cancel`, `dispatch` | the RTOS, everyone | lost wake-ups, preemption between two steps of a call |
| `libs/bsw/docan` transmitter | list of message transmitters, send iterator, counters, the one frame that is pending | `send`, `flowControlFrameReceived`, `dataFramesSent`, `cyclicTask`, `tick`, `shutdown` | CAN transceiver, peer, `async`, listeners | callbacks, flow control and timers in every order; cancelled frames; shared addresses |
| `libs/bsw/docan` receiver | list of message receivers, their buffers, blocked flags and timers | `firstDataFrameReceived`, `consecutiveDataFrameReceived`, `transportMessageProcessed`, `processMessageReceivers`, `cyclicTask`, `shutdown` | CAN transceiver, message provider, upper layer | an allocation that is retried, receptions that cancel each other, refused flow control, a list sorted by timers |
| `libs/bsw/transport`, `transportRouterSimple` | message buffers, locks | `getTransportMessage`, `messageReceived`, `releaseTransportMessage` | DoCAN, DoIP, UDS | buffers returned exactly once |
| `libs/bsw/uds` dispatcher and connections | queue of requests, pool of connections, per connection the response, its callbacks and two timeouts | `send`, `processQueue`, responses of jobs, `transportMessageProcessed`, timeouts, `shutdown` | router, jobs, `async` | RESPONSE_PENDING against responses and timeouts, nested requests, who gives the buffer back |
| `libs/bsw/uds` jobs, sessions, authentication | session, store of asynchronous jobs | services | connections | session expiry |
| `libs/bsw/doip` server | connections with state, timer, send jobs; alive checks; list of connections to release | accepted sockets, frames, acknowledgements, timers, `send`, `closeConnection` | TCP stack, router, application | callbacks that close the connection they run in, alive checks inside alive checks, `send` from another context |
| `libs/bsw/cpp2someip` | services, subscriptions with time to live | service discovery messages, timers | sockets | time-outs against renewals |
| `libs/bsw/io` | `MemoryQueue`: two atomic indices over a buffer | `allocate`, `commit`, `peek`, `release` | two cores or contexts | lock-free |
| `libs/bsw/storage` | job queue, mapping | `process`, callbacks | drivers in another context | a job handed between contexts |
| `libs/safety/safeMonitor` | expected checkpoint, counters | `hit`, `service`, `check` | handlers | handler and mutex |
| `libs/bsw/cpp2can`, `platforms/*/bsp` CAN transceivers | transmit queue, bus state | `write`, interrupts, callbacks | hardware, docan | callback order, bus-off |
| `libs/bsw/middleware`, `routing`, `cpp2ethernet`, `lwipSocket`, `logger`, `runtime`, `util`, `shed`, `blob` | see `PROJECT.json` | | | |

The properties that make each part correct are, in short: lifecycle - components
are asked for transitions in a legal order, level by level, and every request
ends at its target; timer and async - nothing given to a context is forgotten,
nothing expires early or out of order, what is cancelled stays cancelled; DoCAN -
the bus sees what the peer has granted, every accepted message is reported once
and with the right result, the internal counters and iterators stay exact; what is
received is what was sent, no buffer is lost, every reception ends. The lock-free
queue hands over whole messages in order. UDS - every request buffer has one owner
and is given back, and nothing follows the final response. DoIP - a tester has one
route and a socket group no more than it may, alive checks end, and connections,
jobs and messages are released once and not while they are used.

The hazards, with the line where each one bites and the properties that watch
it, are in `PROJECT.json`.

## 2. Plan

Done (in the order of dependence: everything above uses contexts and timers, the
lifecycle manager is the first user, DoCAN the most intricate one):

1. `LifecycleLevels`, `LifecycleManager`
2. `Timer`, then `TaskContext`, which extends it
3. `DoCanTransmitter`, `DoCanReceiver`
4. `Fifo`, `MemoryQueue`
5. `IncomingDiagConnection`, `DiagDispatcher` (which composes the connections with
   the dispatcher and the buffers of the router)
6. `DoIpServer`
7. the proofs: `LifecycleManagerProofs`, `TimerProofs`, `TaskContextProofs`,
   `MemoryQueueProofs`, `DiagDispatcherProofs`, `DoCanTransmitterProofs`,
   `DoCanReceiverProofs`, on `SequenceFacts`

Next, in this order:

8. the listener list of the lifecycle manager
9. `DoCanLink`, which composes both ends and refines an abstract lossy message
    channel (each message delivered at most once, whole, with the frames in order)
10. `QueuingStorage`, `SafeMonitor`, `CanTransceiver`, the subscriptions of
    `cpp2someip`, vehicle identification of `doip`

## 3. Modules

### LifecycleManager (with LifecycleLevels)

`LifecycleManager.cpp`. The manager's runnable is split at the points where
something else can run: `Execute*` (the runnable leaves the queue and
`checkLevelTransitionDone()` decides), `NotifyDone` (the listeners have been
called; in between they may call `transitionToLevel()`), `Choose*` (the four
branches of `execute()`), one `StartExecutor` per round of its loop, and
`EndStart`. `transitionDone()` is three steps, as it runs without a lock in the
context of the component: it clears its executor, clears the pending flag of the
component through the reference it holds, and schedules `execute()`. The
executors are a vector with memory: `slot` keeps its content after `clear()`,
because an interrupted `transitionDone()` may still refer to it. Components in
`InManagerContext` return `CONTEXT_INVALID` and run in the manager's context,
never between two of its steps. (A component that changes its context from one
transition to the next is not modelled.) `transitionToLevel()` is called from the
manager's context or from a listener, as in the reference application.

`LifecycleLevels` is what the library promises to components: INIT once and
first, RUN and SHUTDOWN alternating, a level up only on complete levels below,
down only below levels that are down. It knows neither contexts nor executors.

### Timer and TaskContext

`Timer.h`. Time is a counter modulo `Modulus`, which stands for 2^32; `due` keeps
the absolute times the counters stand for and exists only for the properties.
`Timer` has the operators and, for a run of its own, the operations in one piece.
The clock advances as long as no linked timeout is more than `MaxLate` behind it.

`TaskContext` (`TaskContext.h`, `RunnableExecutor.h`, `EventDispatcher.h`,
`FreeRtosAdapter.h`) interleaves them. Tasks have fixed priorities on one core:
a caller of higher priority or an interrupt runs its whole call between two steps
of the task; a caller of lower priority makes progress only while the task
sleeps, and is split where the lock is released (`LowExecute` / `LowSetEvent`,
`LowSchedule` / `LowInsert` / `LowSetEvent`); the task's own callbacks call
between steps of `dispatch()`. `processNextTimeout()` is split at its lock and at
the lock of `addTimeout()`: `TakeTimeout`, `Reschedule`, `InsertCyclic`,
`Expired`. `xTaskNotifyWait` is external: it returns the bits, or times out at
`wakeTick`. Reading the next delta and starting the wait are one step.

### DoCanTransmitter

`DoCanTransmitter.h`, `DoCanMessageTransmitProtocolHandler.h`,
`DoCanMessageTransmitter.h`, `DoCanPhysicalCanTransceiver.h`. The protocol
handler is a set of functions from a job to a result, as in the code
(`FrameSending`, `FramesSent`, `HandleFlowControl`, `Expired`); `HandleResults`
is `handleResult()` with `resetTimer()`. A search of the list is `First`, a removal
`Chosen` (module `Subsequences`: elements chosen by a set, in a form that can be
reasoned about). A handler (`ProcessMessageTransmitters`,
`FlowControlFrameReceived`, `CanFrameSent`, `CyclicTask`, `Shutdown`) does its
own work and then the destructor of its `RemoveGuard`: send the next frame,
remove what is finished, notify, and for the cyclic task sort. The handlers run
in one async context (`docan/doc/index.rst`), so no two of them overlap; `send()`
may be called from anywhere and falls between any two steps.

Of a message only the number of frames is kept, of a timer the time left (the
wrap is the subject of `Timer`). `DoCanPhysicalCanTransceiver` hands over one
frame at a time, so `framesSent()` with more than one frame and the results
`QUEUED` and `INVALID` do not occur; `_sendLock` and `_removeLockCount` guard
against nested handlers, which this context does not have. External are the CAN
controller, a queue of `HwCapacity` frames whose first one is sent and confirmed
at some time, and the peer, which answers the frames it has got. `FAILED`
(`write()` returns an error other than a full queue) may happen whenever a frame
is written. After a shutdown the model keeps running: the late callbacks and
timers find nothing to do.

### DoCanReceiver

`DoCanReceiver.h`, `DoCanMessageReceiver.h`,
`DoCanMessageReceiveProtocolHandler.h`. A handler is a function of a record `s` of the
receiver's members, composed as the code calls its helpers one after the other
(`HandlePending`, `Allocate`, `Done`, `Release`, `SendFlowControl`). A loop over the
list is a recursive function of the place it has reached (`DoneAll`, `ExpiredAll`,
`ProcessAll`), a search of the list is `First`, the removal `Chosen`
(`Subsequences`). `Become` ends a handler with `releaseRemoveLock()`, which removes
what has been released and passes the end of the list (`overrun`) if there is less
than `_releasedReceiverCount` says.
The handlers do not overlap; `transportMessageProcessed()` comes from any context
and only gives the message back and queues `processMessageReceivers()`.

A receiver is known by the number of its first frame, and its content by the
frames copied into it, so that `DeliveredAsSent` can tell whose data a message
holds. External: the provider (a count of free messages, and the pairs it answers
with an error), the upper layer (which may refuse a message, or keeps it for any
time), the transceiver (which may refuse a flow control frame) and the senders, who
send the next frame when they have been granted it, one at a time; the bus loses
frames and doubles them. `refused` and `untold` remember the senders a full pool or a
refused flow control frame has kept in the dark; only `DeliveredAsSent` reads them.

### MemoryQueue and Fifo

`MemoryQueue.h`. Writer and reader run on different cores; an action touches what
they share at most once, and `commit()` is two (the size, then the index).
`Slice` reads the bytes an index stands for. `Fifo` is what `IWriter` and `IReader`
promise; `queue <- Stored` decodes the array from `received` to `sent` (an array that
cannot be decoded is no queue at all). `release()`
without a preceding `peek()` is allowed by the code and not done by its users.

### IncomingDiagConnection and DiagDispatcher

`IncomingDiagConnection.cpp`, `NestedDiagRequest.cpp`,
`MultipleReadDataByIdentifier.cpp`, `AbstractDiagJob.cpp`; `DiagDispatcher.cpp`,
`DiagJobRoot.cpp`, `TransportRouterSimple.cpp`. A connection is a record, each of its
functions an operator from record to record; what jobs and the transport layer call
from elsewhere only sets arguments and queues a closure (`Execute`), which
`Closure(c)` runs later. `queue` keeps the closures in order, `flight` the messages the
transport layer has not reported. Destroying a connection keeps its closures,
flights and timeouts in sight, for `NothingOutlivesConnection` says that there are
none.

`DiagDispatcher` adds the queue of requests, `processQueue()` split at its locks
(`PopJob`, `PrecheckRequest`, then `DispatchIncomingRequest`, `NoConnection`,
`SendBusyResponse` or `DropRequest`), the buffers, and the shutdown in the order of
`UdsSystem::shutdown()` of the reference application. The sender of a request has a
higher priority, so `MessageReceived` falls between any two of these steps, and a
job that fills the queue overwrites the one `processQueue()` still refers to
(`EnqueueMessage`). Jobs are external: they answer, ask for time, or never
answer. Assumed: a job that is part of a nested request answers before the global
timeout, one bus for testers, no `disableResponseTimeout()`,
`disableGlobalTimeout()`, `resume()` or second `init()`, no outgoing connections.

### DoIpServer

`DoIpServerTransportLayer.cpp`, `DoIpServerConnectionHandler.cpp`,
`DoIpServerTransportMessageHandler.cpp`, `DoIpTcpConnection.cpp` and the connection
provider and pool. Handlers call one another through callbacks (a close answers an
alive check, which activates a connection, whose answer finds no job, which closes
it), so they are operators on a state record that call each other, recursively
where the code recurses: `Close`, `SendAnswer`, `RoutingActivationCompleted`,
`EndAliveCheck`, `StartAliveChecks`. An action is a frame, an acknowledgement, a
lost connection, an expiry or a runnable of the layer, complete with all it
calls.

Everything runs in one context but `send()`, whose steps (`SendBegin`, `SendCheck`,
`SendPush`, `SendEnd`) belong to a context of lower priority: it goes on only when no
runnable is queued in the other one, and anything may happen between its steps.
`DoIpTcpConnection::sendMessage()` is split between its test and its insertion.
`locks` is `_removeLockCount`.

Of the bytes only frames are kept, of a send job its pool, whether it closes the
connection and the message it carries. `checkRoutingActivation()` and the message
provider may decide either way. An expiry in a state other than INACTIVE or ACTIVE
changes nothing and is left out, as is the part of `CheckAll` after the element it
stands on has closed itself (see the observations). The internal address is the
source address; every socket group has an alive check helper of the pool; a
connection starts with its socket established.

### MC modules

`MCTimer`, `MCTaskContext`, `MCDoCanTransmitter` and `MCDoCanReceiver` give the
constants their values (message lengths, addresses, callers). The other modules
are checked directly.

## 4. Runs

Passing:

| Run | Instance | Shows |
|---|---|---|
| `lifecycle` | 3 components, 2 levels, 2 per level, one component in the manager's context | the safety properties, the refinement of `LifecycleLevels` and `TargetReached` |
| `timer` | 3 symmetric timeouts, modulus 8, one wrap, up to 4 units late | times, order and waiting time are exact |
| `task` | 2 timeouts, 2 runnables, modulus 8, 3 calls | no lost runnable, wake-up in time under preemption; runnables are executed and timeouts served |
| `docan_tx` | messages of 3 and 1 frames, every status, stalled bus, shutdown | grants respected, `_pendingSend` sound, every message reported |
| `docan_tx_punctual` | messages of 3, 2 and 1 frames, continue-to-send only, bus not stalled | iterator, counters, callbacks and grants exact; a completed message stays completed |
| `docan_rx` | 2 senders (one functional), 4 messages of 1 to 3 frames, 2 receivers, 1 buffer | no buffer lost, data not mixed, timeouts noticed, every reception ends |
| `memory_queue` | 7 bytes, slices of 1 and 2 bytes behind a size of 1 | a queue of whole messages, without a lock |
| `uds` | 1 connection, 2 buffers, nested requests of 2, shutdown | one owner of each buffer, clean end of a connection, nothing after the final response, requests given back |
| `doip` | 2 connections, 2 testers, 1 socket group that routes 1, all pools of 1, a sender | limit kept, alive checks exact, application informed, connections released, requests decided |

`NothingForgotten`, `TimesAreExact` and `ListIsConsistent` are conjunctions of
invariants that the modules define one by one (`NoLostWakeup` and `NoLostRequest`;
`TimeLeftIsExact` and `NextDeltaIsExact`; `IteratorValid`, `ReleasedCountIsExact` and
`SendingCountIsExact`). The type invariants are not part of the runs; they are part of
the inductive invariants that section 6 proves.

Why the bounds are enough. Lifecycle: a level may stay empty below another one,
two components per level give the race of two answers; requests are not bounded
(and the proofs cover every number). Timer: three timeouts give an insertion in
the middle of the list, and `MaxClock` lies behind a wrap of the counter;
`MaxDelay` and `MaxLate` reach the limits the code has (half the range). Task:
three calls are one runnable or timeout pending, one interrupted, one new; the
clock wraps once, and the task is late by the rounding to ticks (`task_cancel` has only
the two calls it is about). DoCAN: three
frames are a first frame, a block of one and a second block; two messages
interleave, a third one lets the iterator pass over removed elements;
`HwCapacity` 2 leaves room for one frame of a cancelled job beside a new one.
Every message is sent once, and `MaxLate` is 0: the timers themselves still
expire before, at and after any other event. `docan_tx_punctual` leaves out the
causes of the first three observations below. The receiver: four messages are two of one sender
that follow each other, with one of the other in between and one more that finds
the pool full; one buffer makes every other message wait, and three frames with a
block size of one need two flow control frames. `MemoryQueue`: seven bytes are not a
multiple of any element with its size, so that the skipped piece at the end has
every length, and the indices run round twice. UDS: with one connection the second
request meets a busy dispatcher, two buffers are one for a request and one for a
copy; with short buffers as well (`NumShortBuffers = 1`, 412,000 states) the
invariants hold too. DoIP: a second connection with the address of the first, or with
another one when the group is full, gives both kinds of alive check, pools of one
make every second allocation fail; two accepted connections never reuse a place, but the
invariants also hold for three accepted connections in two places (630,000
states) and, without a sender, for three connections, two testers and a limit of two
(1.5 million states).

Deadlock is checked for the lifecycle manager, the timer, the receiver and the memory
queue. `TaskContext` may be stopped and its clock ends; in `DoCanTransmitter` every
message is sent once; after its shutdown `DiagDispatcher` has nothing left to do, and
neither has `DoIpServer` when the last connection it may accept has been released.

Violations. Each run shows one disagreement between the code and a statement in
the repository (quoted under `findings`):

| Run | What happens |
|---|---|
| `lifecycle_info` | an interrupted `transitionDone()` clears the pending flag of the next transition through a stale reference |
| `task_cancel` | a `cancel()` between the removal of a cyclic timeout and its rescheduling finds it not linked and is lost: the timeout is linked again |
| `doip_rival` | a wrong address in an alive check response closes the connection only after the next alive check has begun: two connections of one tester are routed |

Observations: things the models reach that contradict no statement in the
repository clearly enough to be a run, or that a change of a constant or of one
definition shows.

DoCAN transmitter:

* A WAIT that arrives before the transmit callback leaves the flow control state
  RECEIVED_WAIT, and the CTS that follows is ignored
  (`DoCanMessageTransmitProtocolHandler.h:387`): `GrantIsHeard` fails in
  `docan_tx_punctual` with WAIT among `Statuses`.
* A single frame that waits for its transmit callback takes the flow control of a segmented message
  to the same address (`DoCanTransmitter.h:636`): `GrantIsHeard` fails when two
  messages share an address.
* The callback of a frame whose job has been cancelled is counted for the next job
  (`DoCanPhysicalCanTransceiver.h:190`): `CountedFramesWereSent` fails when the bus
  may stall.
* With `MayShutdown = TRUE`, `docan_tx_punctual` loses `CompletedStaysCompleted` and
  `ListIsConsistent`: `shutdown()` cancels a transmitter that is in state SUCCESS and
  waits for its removal, counts it a second time in `_releasedTransmitterCount`, and
  the removal loop passes the end of the list (`overrun`; the model stops there).
  `EveryMessageProcessed` therefore speaks of a layer that stays open.

Timer, in the window of `task_cancel`:

* A caller of higher priority can also link the timeout again; `InsertCyclic` then meets a
  timeout that is linked, which the list answers with an assertion (`Timer.h:200`).
* With a third call (`MaxCalls = 3`) a one-shot timeout will do: it is taken, the caller
  links it with `scheduleAtFixedRate()` and erases it with `cancel()`, and
  `rescheduleCyclicTimeout()` then reads the new cycle time and links it once more.

DoCAN receiver:

* A receiver whose flow control frame the transceiver refuses stays in state SEND
  without a timer; `cyclicTask()` ends its loop there (`DoCanReceiver.h:367`), and the
  receivers behind it time out only when the list is sorted again. `TimeoutsNoticed`
  and `ReceptionEnds` except this state (`Stuck`).
* A first frame that finds the pool full does not end the earlier reception of its
  address, which goes on with the frames of the new message (`DoCanReceiver.h:263`);
  `DeliveredAsSent` excepts these addresses (`refused`).
* A segmented receiver whose WAIT frame is refused has a timer that is due at once, and
  the sort puts it before single frames of its address that came earlier. It gets the
  next buffer first and is delivered before them: with `PoolSize` 4, five messages of one
  and two frames from one address, one buffer, `MaxBlockSize` 0 and `AllocateTimeout` 2
  after 14 steps. `DeliveredAsSent` excepts the order, not the rest, of these
  addresses (`untold`).
* A consecutive frame that comes in state SEND is copied and not counted.

io: `release()` after an unsuccessful `peek()` takes a message that was committed in
between. `SplitWriter::allocate()` returns an earlier slice when the next one cannot be
had (`SplitWriter.h:119`).

UDS:

* With a queue of fewer places than the router has buffers, `BuffersHeldOnce` fails:
  `processQueue()` goes on with a job whose memory has been used again
  (`DiagDispatcher.cpp:447`). The reference application has 16 places and 11 buffers.
* Without the guard of `GlobalTimeout` (jobs of a nested request are in time), the
  answer of a nested job and the global timeout lead to a null pointer in
  `triggerNextNestedRequest()` after eight steps, and a second nested job that does
  not answer keeps its connection for ever.
* `forwardMessageToTransportLayer()` reports success when no layer is registered
  (`TransportRouterSimple.cpp:212`): the buffer stays locked (`dropped`).
* `_busIdToReply` (`TransportRouterSimple.cpp:144`) is the bus of the latest request,
  whichever request is answered; one bus is modelled.

DoIP:

* A send job pushed after its connection has closed (`DoIpTcpConnection.cpp:151`) is
  never released; `ClosedHoldsNothing` excepts the jobs of `send()`.
* `routingActivationCompleted()` without a free send job closes the connection and
  then sets it ACTIVE again (`DoIpServerConnectionHandler.cpp:184-190`). It is not in
  the list any more, so nothing finds it, but its timer has been started again and
  the application is told that its address is routed, until the release.
* `connectionClosed` of an address may be reported after `routingActive` of the
  connection that has taken the address over.
* Any frame restarts the timer of a pending alive check with the long timeout
  (`DoIpServerConnectionHandler.cpp:271`): see the fairness.
* With two socket groups, a connection with the address of one in the other group is
  never decided: the answer is looked for among the helpers of the wrong group
  (`DoIpServerTransportLayer.cpp:308`).
* `findActivatingConnection()` prefers the latest connection; an earlier one may wait as
  long as new ones come.
* When a connection closes itself in the loop of `startAliveCheck()`, `++it` goes on
  along the list of connections to release.
* A connection that is closed by a callback while `executeEventClose()` has it in its
  own list is pushed to a second list while it is linked, which is ignored.

## 5. Fairness

* Lifecycle: the transition context runs what is queued, a started transition
  calls `transitionDone()` (the contract of `ILifecycleComponent`), and a call
  that has begun goes on. Nothing is assumed of the callers of
  `transitionToLevel()`: `TargetReached` speaks of targets that stay.
* Task: the task runs when it is ready, an interrupted caller goes on when the
  task sleeps (the RTOS schedules them), time passes. Calls are not fair.
* DoCAN: a handler that has begun ends, time passes; the queued
  `processMessageTransmitters` and the cyclic task get their turn (strong
  fairness: the context serves a FIFO queue and its timeouts, so a handler that is
  asked for again and again is not overtaken for ever). Nothing is assumed of the
  bus and of the peer.
* DoCAN receiver: time passes and `cyclicTask()` is called again and again (module
  `TaskContext` shows that a timeout is served). Nothing is assumed of senders,
  provider and upper layer.
* UDS: closures and timeouts of the context are served in turn, the context becomes
  idle again and again, the transport layer reports every message it has accepted
  (its contract, and `EveryMessageProcessed` of DoCAN) and does not refuse
  RESPONSE_PENDING for ever, and a nested job that can answer does. Jobs of plain
  requests may never answer: the global timeout ends those.
* DoIP (stated on states): the queue of the context and the call of `send()` come to
  their end, a last answer is acknowledged or its connection lost, and an alive check
  is answered or times out, which holds unless its tester keeps sending other frames
  (see the observations).
* The memory queue and the timer have no liveness property.

## 6. Proofs

All theorems hold for every value of the constants that the assumption of the module
admits, and no theorem has another premise unless the table names it. Each component has
one inductive invariant, proved by one lemma per action; the properties follow from
it.

| Module | Theorem | States |
|---|---|---|
| `LifecycleManagerProofs` | `Invariant`, `TypeCorrect` | the inductive invariant, `TypeOK` |
| | `ListenersToldTheTruth` | `ReportedLevelIsReached` |
| | `OrderedTransitions`, `LevelsInOrder` | `TransitionsInOrder`, `OneLevelAtATime` |
| | `ExecutorCapacity`, `NothingLost` | `ExecutorsFit`, `NothingForgotten` |
| | `ManagerImplementsLevels` | the refinement of `LifecycleLevels` |
| `TimerProofs` | `TimerInvariant`, `ExactTimes`, `ListInOrder` | `TimesAreExact`, `SortedByDue` |
| `TaskContextProofs` | `TaskInvariant`, `RunnablesAreNotLost` | `NoLostRunnable` |
| | `TaskWakesUp` | `WakesForTimeout` |
| | `TaskListExact` | `TimesAreExact` and `SortedByDue` under preemption |
| `MemoryQueueProofs` | `QueueInvariant`, `AllocationsAreFree` | `AllocationIsFree` |
| | `PeeksAreIntact` | `PeekIsIntact` |
| | `QueueIsFifo` | the refinement of `Fifo` |
| `DiagDispatcherProofs` | `DiagInvariant`, `ConnectionsEndCleanly` | `NothingOutlivesConnection` |
| | `OneMessageAtATime` | `OneMessageInFlight` |
| | `FinalResponseIsLast` | `NothingAfterFinalResponse` (a step property) |
| | `BuffersAreHeldOnce` | `BuffersHeldOnce`, if `RoomForAll` |
| `DoCanTransmitterProofs` | `TransmitterInvariant`, `FramesOnTheBus` | `FramesAsGranted` |
| | `CallbacksCome` | `CallbackWillCome` |
| | `ListAgrees`, `CompletedIsFinal` | `ListIsConsistent`, `CompletedStaysCompleted` (a step property), without `shutdown()` |
| | `CountedWereSent` | `CountedFramesWereSent`, if `Punctual` |
| | `GrantsAreHeard` | `GrantIsHeard`, if `Punctual` and the addresses differ |
| `DoCanReceiverProofs` | `ReceiverInvariant`, `ReceiverTypes` | the inductive invariant, `TypeOK` |
| | `ReceiverConservesBuffers` | `BuffersConserved` |
| | `ReceiverRemovesFinished` | `FinishedLeave` |
| | `ReceiverNoticesTimeouts` | `TimeoutsNoticed` |
| | `ReceiverDeliversAsSent` | `DeliveredAsSent` |

The arguments:

* Lifecycle. None of the properties is inductive. `IInv` has six parts: `TypeOK`;
  `RegistryInv` (the level indices grow from level to level up to the number of
  components, at most `MaxPerLevel` apart, so that levels are disjoint);
  `ControlInv` (how the place in `execute()`, the transition and the three level
  counters belong together); `ExecutorInv` (the executors are the first `size`
  components of the transition level, in order); `LifeInv` (what every component
  has completed, from its level, the counters and its executor: this is where the
  order of transitions comes from); `WakeInv` (something is still to come while
  work is left). The refinement uses that only `addComponent()` and the first step
  of `transitionDone()` change what the components see.
* Timer. A wrapped time orders nothing by itself. `WindowInv` says that the time of
  a linked timeout is its due time modulo `Modulus`, and that the due time lies in a
  window around the clock, within half the range on either side. Inside the window `diff()`
  is the true difference (`DiffExact`), so the comparison of wrapped times that
  places a timeout agrees with the due times. The code guarantees the
  window only if delays are shorter than half the range and the context is not later
  than the rest of it (`TimerAssumption`).
* Task context. `TaskInv` adds where the task and an interrupted caller of lower
  priority are in their calls: the timeout either is about to link belongs to
  nobody else (`TakenInv`, `LowInv`), and the time each has read is recent. A
  cyclic timeout that a caller of higher priority sets and cancels again while
  `processNextTimeout()` reschedules it is linked one period later still: `Reach` is
  how far ahead a due time may be, and `TaskAssumption` (`Reach + MaxLate < Half`)
  is what keeps the comparison right with a `now` that has become stale.
* Memory queue. The indices run modulo twice the capacity, so nothing in the state
  says which of two slices is the earlier one. `LayoutInv` says that there are places
  on a line, from the reader's index to the writer's, each the end of the slice
  before it, spanning no more than the capacity, none with less than one element to
  the end of the array. Only the writer extends this line, only the reader shortens
  it, and a write falls outside of it. `Stored` is the sequence of the slices at these
  places: `commit()` appends to it with the step that publishes the index and with no
  other, which is the refinement.
* Diagnostics. An open connection is in one of seven phases (`Phase`), which say what is
  queued, in flight, outstanding and what the job is doing; each function of
  `IncomingDiagConnection` leads from a phase to a phase or to a connection that
  nothing is left of. The buffers are shared out among the queue,
  `processQueue()`, the connections and those that a shutdown has dropped. `RoomForAll`:
  no fewer places in the queue than buffers of the router. Without it a job that is
  being processed is overwritten and the statement is false (see the
  observations); the reference application has 16 places and 11 buffers.
* DoCAN transmitter. A job is in one of five phases (`GoodJob`), which bound its frame
  index by the block granted to it and fix what the flow control state may be while
  a callback is outstanding. `AddressInv` (two segmented messages never share an address)
  is why a flow control frame reaches the message it was meant for; `SendInv` ties
  the pending callback to one job in the list; `FramesInv` says that the frames of a
  message in the controller are the next ones in a row, up to the one its job is at,
  also when the job has been cancelled or a callback has been taken for another
  frame. `CountInv` has the counters: with `shutdown()` only an inequality holds, as it
  counts a finished transmitter twice, so `ListAgrees` and `CompletedIsFinal` speak
  of a layer that stays open. `Punctual` (the bus sends a frame before the timeout
  of its callback, no shutdown, the peer only grants) is the instance of run
  `docan_tx_punctual`; with a late bus, a WAIT or a shared address the statements are
  false (see the observations). With it the controller has one frame at a time, its
  callback is the one the job waits for (`BusInv`), and a job knows exactly what has been
  granted (`GrantInv`).
* DoCAN receiver. The invariant is one of the states a handler goes through
  (`HandlerInv`), so that it holds between any two receivers a loop serves; between
  handlers (`ReceiverInv`) nothing is in ALLOCATE or DONE besides. Whatever a handler does
  with a receiver has one of two results (`Result`): the reception ends and the receiver is
  counted as released, or it goes on and waits for a message, for a frame, or is stuck.
  `AllocateResult`, `ExpiredResult` and `ConsecutiveFrameResult` say so of the
  functions, `ResultKeeps` that a result keeps the invariant, and the loops are
  inductions over the list. `CountsInv` is why no message is lost and why the removal loop
  finds each released receiver. `ContentInv`: a receiver that follows its sender has
  all frames up to its index, or is at least 16 frames behind, where the sequence numbers
  are the same again: it takes frames for others, but its sender runs out of them before
  the message is complete.
  `TurnsInv` gives the order of delivery: of two receivers of an address the earlier one
  is a single frame that waits, it stands before the other in the list and its timer ends
  no later, which the stable sort preserves. Where the sender could not be told to wait
  this is false, and so is the order (see the observations). As the loops serve the list
  in its order, a receiver that gets a message is the first one of its address (`InTurn`).

`SequenceFacts` has what several proofs need: least numbers, remainders, and what
insertion, removal, choice (`Chosen`) and a stable sort do to a sequence and to the order
of its elements. A recursive function is
reasoned about through the least argument at which a claim would fail
(`LeastNumber`, `InductionOverSet`), as the induction theorems of the library are out of
the provers' reach.

Only model-checked:

* all liveness properties: the proof system handles neither fairness nor ENABLED;
* `DoIpServer`: the code recurses through its callbacks, and so do its operators, which
  the provers do not take.

## 7. Not modelled

See `components` in `PROJECT.json` for the reason of each. The repository has some
1,300 implementation files; the models cover the part of them that has control
worth checking and that an application on this stack depends on, which is a small
share of the lines.

* Byte encodings, parsing and formatting, register-level drivers, generated tables
  and third-party code (FreeRTOS, ThreadX, lwIP, ETL, CMSIS): out of scope.
* In the plan: SOME/IP service discovery, storage, the safety monitors, the CAN
  transceivers, vehicle identification.
* Within the modelled parts: the listener list of the lifecycle manager,
  `dispatchWhileWork()` of the idle task, the ThreadX binding, outgoing and resumed
  diagnostic connections, and of DoIP `detach()`, `suspendSending()`, reading and
  writing in pieces, and the start and stop of the server sockets.
