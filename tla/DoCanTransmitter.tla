--------------------------- MODULE DoCanTransmitter ---------------------------
(***************************************************************************)
(* libs/bsw/docan: the parallel transmission of transport messages as CAN  *)
(* frames (ISO 15765-2).  The handlers (flow control, transmit callback,   *)
(* timers, shutdown) run one after the other in the transport layer's      *)
(* async context; every handler ends by sending the next frame and by      *)
(* removing the finished transmitters.  send() may be called from any      *)
(* context, so it also falls between the steps of a handler.               *)
(*                                                                         *)
(* Of a message only its number of frames is kept.  The CAN controller and *)
(* the receiving node are external: a queue of frames, and a peer that     *)
(* answers the frames it has got with flow control frames.                 *)
(***************************************************************************)
EXTENDS Integers, Sequences, SequencesExt, FiniteSets, Subsequences

CONSTANTS Messages,       \* the transport messages; each one is sent once
          Address,        \* Address[m]: where the flow control for m comes from
          FrameCount,     \* FrameCount[m]: getEncodedFrameCount()
          End,            \* _messageTransmitters.end(), no message
          PoolSize,       \* _messageTransmitterPool.max_size()
          HwCapacity,     \* the frames the CAN transceiver takes
          TxTimeout, FcTimeout, SepTime, \* the three timeouts, in units of time
          MaxWaitCount,   \* getMaxFlowControlWaitCount()
          MaxLate,        \* how long the context may leave a timer waiting
          BlockSizes,     \* the block sizes the peer asks for
          Statuses,       \* the flow statuses the peer answers with
          BusMayStall,    \* time passes while a frame waits for the bus
          MayShutdown     \* the transport layer is shut down once

ASSUME TransmitterAssumption ==
  /\ FrameCount \in [Messages -> Nat \ {0}] /\ End \notin Messages
  /\ PoolSize \in Nat \ {0} /\ HwCapacity \in Nat \ {0}
  /\ TxTimeout \in Nat \ {0} /\ FcTimeout \in Nat \ {0} /\ SepTime \in Nat \ {0}
  /\ MaxWaitCount \in Nat /\ MaxLate \in Nat /\ BlockSizes \subseteq Nat
  /\ Statuses \subseteq {"CTS", "WAIT", "OVFLW", "INVALID"}
  /\ BusMayStall \in BOOLEAN /\ MayShutdown \in BOOLEAN

VARIABLES
  list,           \* _messageTransmitters
  job,            \* the DoCanMessageTransmitter of every message
  sendIt,         \* _sendMessageTransmitterIt
  pendingSend, releasedCount, switchContext, timersUpdated,
  sendingCount,   \* _sendingConsecutiveFramesCount
  enqueued,       \* _processMessageTransmitters is queued in the context
  handler,        \* the handler that is running and its place in RemoveGuard
  removed,        \* removedTransmitters: still to be notified and destroyed
  overrun,        \* the loop of releaseRemoveLock() has passed the end of the list
  sendPending, sendJob, \* DoCanPhysicalCanTransceiver
  hw, hwSent,     \* the frames in the CAN controller; the first one has been sent
  got, granted,   \* the peer: frames received, frames allowed by flow control
  accepted,       \* messages send() has taken
  processed,      \* processed[m]: the result given to the notification listener
  open            \* the transport layer has not been shut down

transmitterVars == <<job, pendingSend, releasedCount, switchContext, timersUpdated,
                     sendingCount, sendPending>>
busVars  == <<hw, hwSent, got>>
vars == <<list, transmitterVars, sendIt, enqueued, handler, removed, overrun, sendJob,
          busVars, granted, accepted, processed, open>>

States   == {"INITIALIZED", "SEND", "WAIT", "SUCCESS", "FAIL"}
Flows    == {"UNEXPECTED", "EXPECTED", "RECEIVED_CTS", "RECEIVED_WAIT"}
TimeoutsOfJob == {"NONE", "TX_CALLBACK", "FLOW_CONTROL", "SEPARATION_TIME"}
Errors   == {"NONE", "TX_CALLBACK_TIMEOUT_EXPIRED", "FLOW_CONTROL_WAIT_COUNT_EXCEEDED",
             "FLOW_CONTROL_OVERFLOW", "FLOW_CONTROL_TIMEOUT_EXPIRED", "FLOW_CONTROL_INVALID",
             "ILLEGAL_STATE"}
Results  == {"none", "NO_ERROR", "ERROR_TIMEOUT", "ERROR_OVERFLOW", "ERROR_ABORT",
             "ERROR_GENERAL"}
Handlers == {"none", "flowControl", "sent", "cyclic", "process", "shutdown"}

\* The members of DoCanMessageTransmitter and its protocol handler; `timer' is the
\* time left (the wrap of the counter is the subject of module Timer).
Job == [state : States, timeout : TimeoutsOfJob, flow : Flows, frameIndex : Nat, blockEnd : Nat,
        waitCount : Nat, separated : BOOLEAN, error : Errors,
        timer : Int, timerSet : BOOLEAN, consecutive : BOOLEAN]

Live == ToSet(list)

IsDone(j) == j.state \in {"SUCCESS", "FAIL"}

TypeOK ==
  /\ list \in Seq(Messages) /\ IsInjective(list)
  /\ job \in [Messages -> Job]
  /\ sendIt \in Messages \cup {End}
  /\ pendingSend \in BOOLEAN /\ releasedCount \in Nat /\ switchContext \in BOOLEAN
  /\ timersUpdated \in BOOLEAN /\ sendingCount \in Nat /\ enqueued \in BOOLEAN
  /\ handler \in [name : Handlers, step : {"none", "send", "remove", "notify", "sort"},
                  switch : BOOLEAN]
  /\ removed \in Seq(Messages) /\ overrun \in BOOLEAN
  /\ sendPending \in BOOLEAN /\ sendJob \in Messages \cup {End}
  /\ hw \in Seq([message : Messages, index : Nat]) /\ hwSent \in BOOLEAN
  /\ got \in [Messages -> Nat] /\ granted \in [Messages -> Nat]
  /\ accepted \subseteq Messages
  /\ processed \in [Messages -> Results]
  /\ open \in BOOLEAN

NewJob == [state |-> "INITIALIZED", timeout |-> "NONE", flow |-> "UNEXPECTED", frameIndex |-> 0,
           blockEnd |-> 1, waitCount |-> 0, separated |-> FALSE, error |-> "NONE",
           timer |-> 0, timerSet |-> FALSE, consecutive |-> FALSE]

NoHandler == [name |-> "none", step |-> "none", switch |-> FALSE]

Init ==
  /\ list = <<>> /\ job = [m \in Messages |-> NewJob] /\ sendIt = End
  /\ pendingSend = FALSE /\ releasedCount = 0 /\ switchContext = FALSE
  /\ timersUpdated = FALSE /\ sendingCount = 0 /\ enqueued = FALSE
  /\ handler = NoHandler /\ removed = <<>> /\ overrun = FALSE
  /\ sendPending = FALSE /\ sendJob = End
  /\ hw = <<>> /\ hwSent = FALSE
  /\ got = [m \in Messages |-> 0] /\ granted = [m \in Messages |-> 1]
  /\ accepted = {} /\ processed = [m \in Messages |-> "none"]
  /\ open = TRUE
-------------------------------------------------------------------------------
\* DoCanMessageTransmitProtocolHandler: every event maps a job to a result.

Result(j, transition) == [job |-> j, transition |-> transition, cancelSend |-> FALSE]

SetState(j, state, flow, timeout) ==
  Result([j EXCEPT !.state = state, !.flow = flow, !.timeout = timeout], TRUE)

SetSend(j) == SetState(j, "SEND", "UNEXPECTED", "TX_CALLBACK")

\* Mutant: the frame in the transceiver is not cancelled.
SetFailedKeepSend(j, message) ==
  [job |-> [j EXCEPT !.state = "FAIL", !.flow = "UNEXPECTED", !.timeout = "NONE",
                     !.error = message],
   transition |-> TRUE, cancelSend |-> FALSE]

\* CANCEL_SEND is set while the transceiver has a frame of the job.
SetFailed(j, message) ==
  [job |-> [j EXCEPT !.state = "FAIL", !.flow = "UNEXPECTED", !.timeout = "NONE",
                     !.error = message],
   transition |-> TRUE,
   cancelSend |-> j.state = "WAIT" /\ j.timeout = "TX_CALLBACK"]

\* Mutant: the end of a block is not looked for.
FrameSendingNoBlock(j, frameCount) ==
  IF j.state # "SEND" THEN SetFailed(j, "ILLEGAL_STATE")
  ELSE IF j.frameIndex = 0 /\ frameCount > 1
       THEN SetState([j EXCEPT !.waitCount = 0], "WAIT", "EXPECTED", "TX_CALLBACK")
       ELSE SetState(j, "WAIT", "UNEXPECTED", "TX_CALLBACK")

\* The last frame of a block expects flow control.
FrameSending(j, frameCount) ==
  IF j.state # "SEND" THEN SetFailed(j, "ILLEGAL_STATE")
  ELSE IF j.frameIndex + 1 = j.blockEnd /\ j.frameIndex + 1 # frameCount
       THEN SetState([j EXCEPT !.waitCount = 0], "WAIT", "EXPECTED", "TX_CALLBACK")
       ELSE SetState(j, "WAIT", "UNEXPECTED", "TX_CALLBACK")

\* framesSent(1): the transceiver reports every frame by itself.
FramesSent(j, frameCount) ==
  LET next == [j EXCEPT !.frameIndex = @ + 1]
  IN CASE j.state # "WAIT" \/ j.timeout # "TX_CALLBACK" -> Result(j, TRUE)
       [] OTHER ->
            IF next.frameIndex >= frameCount THEN SetState(next, "SUCCESS", "UNEXPECTED", "NONE")
            ELSE IF j.flow = "RECEIVED_CTS" THEN SetSend(next)
            ELSE IF j.flow \in {"RECEIVED_WAIT", "EXPECTED"}
                 THEN SetState(next, "WAIT", j.flow, "FLOW_CONTROL")
            ELSE IF j.separated
                 THEN SetState(next, "WAIT", "UNEXPECTED", "SEPARATION_TIME")
            ELSE SetSend(next)

\* Mutant: a continue-to-send before the transmit callback is dropped.
HandleCTSLate(j, frameCount, blockSize, separated) ==
  IF j.timeout = "FLOW_CONTROL"
  THEN SetSend([j EXCEPT !.blockEnd = IF blockSize > 0 THEN @ + blockSize ELSE frameCount,
                         !.separated = separated])
  ELSE Result(j, FALSE)

\* A continue-to-send that comes before the transmit callback is kept for it.
HandleCTS(j, frameCount, blockSize, separated) ==
  LET next == [j EXCEPT !.blockEnd = IF blockSize > 0 THEN @ + blockSize ELSE frameCount,
                        !.separated = separated]
  IN IF j.timeout = "FLOW_CONTROL" THEN SetSend(next)
     ELSE Result([next EXCEPT !.flow = "RECEIVED_CTS"], FALSE)

HandleWait(j) ==
  LET next == [j EXCEPT !.waitCount = @ + 1]
  IN IF j.waitCount >= MaxWaitCount THEN SetFailed(j, "FLOW_CONTROL_WAIT_COUNT_EXCEEDED")
     ELSE IF j.timeout = "FLOW_CONTROL" THEN SetState(next, "WAIT", "EXPECTED", "FLOW_CONTROL")
     ELSE Result([next EXCEPT !.flow = "RECEIVED_WAIT"], FALSE)

HandleFlowControl(j, frameCount, status, blockSize, separated) ==
  IF j.flow # "EXPECTED" THEN Result(j, FALSE)
  ELSE CASE status = "CTS" -> HandleCTS(j, frameCount, blockSize, separated)
         [] status = "WAIT" -> HandleWait(j)
         [] status = "OVFLW" -> SetFailed(j, "FLOW_CONTROL_OVERFLOW")
         [] status = "INVALID" -> SetFailed(j, "FLOW_CONTROL_INVALID")

\* Mutant: a timer that nobody waits for fails the transmission.
ExpiredFails(j) ==
  CASE j.timeout = "TX_CALLBACK" -> SetFailed(j, "TX_CALLBACK_TIMEOUT_EXPIRED")
    [] j.timeout = "FLOW_CONTROL" -> SetFailed(j, "FLOW_CONTROL_TIMEOUT_EXPIRED")
    [] j.timeout = "SEPARATION_TIME" -> SetSend(j)
    [] j.timeout = "NONE" -> SetFailed(j, "NONE")

\* The timer of a finished transmitter means nothing.
Expired(j) ==
  CASE j.timeout = "TX_CALLBACK" -> SetFailed(j, "TX_CALLBACK_TIMEOUT_EXPIRED")
    [] j.timeout = "FLOW_CONTROL" -> SetFailed(j, "FLOW_CONTROL_TIMEOUT_EXPIRED")
    [] j.timeout = "SEPARATION_TIME" -> SetSend(j)
    [] j.timeout = "NONE" -> Result(j, FALSE)
-------------------------------------------------------------------------------
\* DoCanTransmitter.

\* Mutant: nothing is set to wait for flow control.
ResetTimerNoFlowControl(j) ==
  [j EXCEPT !.timer = CASE j.timeout = "TX_CALLBACK" -> TxTimeout
                        [] j.timeout = "SEPARATION_TIME" -> SepTime
                        [] OTHER -> 0,
            !.timerSet = j.timeout # "FLOW_CONTROL",
            !.consecutive = j.timeout = "SEPARATION_TIME"]

\* resetTimer().
ResetTimer(j) ==
  [j EXCEPT !.timer = CASE j.timeout = "TX_CALLBACK" -> TxTimeout
                        [] j.timeout = "FLOW_CONTROL" -> FcTimeout
                        [] j.timeout = "SEPARATION_TIME" -> SepTime
                        [] j.timeout = "NONE" -> 0,
            !.timerSet = TRUE,
            !.consecutive = j.timeout = "SEPARATION_TIME"]

\* resetTimer(): _sendingConsecutiveFramesCount.
CountSending(changed, jobs) ==
  sendingCount + Cardinality({m \in changed : jobs[m].consecutive})
               - Cardinality({m \in changed : job[m].consecutive})

\* handleResult() of the results R[m] of some messages: the timer and the counters, a
\* cancelled send and the release of a finished transmitter.  `pending' and `sending'
\* are _pendingSend and the transceiver's _sendPending before it.
HandleResults(R, pending, sending) ==
  LET changed == {m \in DOMAIN R : R[m].transition}
      done    == {m \in changed : IsDone(R[m].job)}
      aborted == {m \in done : R[m].cancelSend}
      jobs    == [m \in Messages |-> IF m \in changed THEN ResetTimer(R[m].job)
                                     ELSE IF m \in DOMAIN R THEN R[m].job ELSE job[m]]
  IN /\ job' = jobs
     /\ sendingCount' = CountSending(changed, jobs)
     /\ releasedCount' = releasedCount + Cardinality(done)
     /\ switchContext' = (switchContext \/ done # {})
     /\ timersUpdated' = (timersUpdated \/ changed # done)
     /\ pendingSend' = (pending /\ aborted = {})
     /\ sendPending' = (sending /\ sendJob \notin aborted)

\* release() makes the job handle and the address of a finished transmitter invalid.
Released(m) == IsDone(job[m])

Idle == handler = NoHandler /\ ~overrun
Begin(name) == Idle /\ handler' = [name |-> name, step |-> "send", switch |-> FALSE]
InStep(step) == handler.step = step /\ ~overrun

\* send(): a segmented message is refused while its address is in use, every message
\* when the pool is used up.
Send(m) ==
  /\ ~overrun /\ m \notin accepted
  /\ FrameCount[m] > 1 => \A n \in Live : Released(n) \/ Address[n] # Address[m]
  /\ Len(list) + Len(removed) < PoolSize
  /\ list' = Append(list, m)
  /\ accepted' = accepted \cup {m}
  /\ enqueued' = TRUE
  /\ UNCHANGED <<transmitterVars, sendIt, handler, removed, overrun, sendJob, busVars, granted,
                 processed, open>>

\* processMessageTransmitters(): starts what send() has added.
ProcessMessageTransmitters ==
  /\ enqueued /\ Begin("process")
  /\ enqueued' = FALSE
  /\ HandleResults([m \in {n \in Live : job[n].state = "INITIALIZED"} |-> SetSend(job[m])],
                   pendingSend, sendPending)
  /\ UNCHANGED <<list, sendIt, removed, overrun, sendJob, busVars, granted, accepted,
                 processed, open>>

\* findMessageTransmitterByReceptionAddress(): the first one of the list, if any.
Receivers(address) == First(list, {m \in Live : ~Released(m) /\ Address[m] = address})

\* flowControlFrameReceived().
FlowControlFrameReceived(address, status, blockSize, separated) ==
  /\ open /\ Begin("flowControl")
  /\ HandleResults([m \in Receivers(address) |->
                      HandleFlowControl(job[m], FrameCount[m], status, blockSize, separated)],
                   pendingSend, sendPending)
  /\ UNCHANGED <<list, sendIt, enqueued, removed, overrun, sendJob, busVars, accepted,
                 processed, open>>

\* DoCanPhysicalCanTransceiver::canFrameSent() and dataFramesSent().
CanFrameSent ==
  /\ hwSent /\ Idle
  /\ hw' = Tail(hw) /\ hwSent' = FALSE
  /\ IF sendPending
     THEN /\ Begin("sent")
          /\ HandleResults([m \in {n \in Live : n = sendJob /\ ~Released(n)} |->
                              FramesSent(job[m], FrameCount[m])], FALSE, FALSE)
     ELSE UNCHANGED <<handler, transmitterVars>>
  /\ UNCHANGED <<list, sendIt, enqueued, removed, overrun, sendJob, got, granted, accepted,
                 processed, open>>

\* updateTimer(): has the timer of a transmitter expired?
TimerExpired(m) == job[m].timerSet /\ job[m].timer <= 0

\* The loop of cyclicTask() ends at the first timer that has not expired.
ExpiredPrefix == {list[i] : i \in {k \in DOMAIN list : \A h \in 1 .. k : TimerExpired(list[h])}}

\* cyclicTask() up to its guard; tick() calls it as well.
CyclicTask ==
  /\ Begin("cyclic")
  /\ HandleResults([m \in ExpiredPrefix |-> Expired([job[m] EXCEPT !.timerSet = FALSE])],
                   pendingSend, sendPending)
  /\ UNCHANGED <<list, sendIt, enqueued, removed, overrun, sendJob, busVars, granted, accepted,
                 processed, open>>

\* processShutdown(): every transmitter of the list is cancelled, then the transceiver
\* no longer listens.
Shutdown ==
  /\ MayShutdown /\ open /\ Begin("shutdown")
  /\ HandleResults([m \in Live |-> SetFailed(job[m], "NONE")], pendingSend, sendPending)
  /\ open' = FALSE
  /\ UNCHANGED <<list, sendIt, enqueued, removed, overrun, sendJob, busVars, granted, accepted,
                 processed>>
-------------------------------------------------------------------------------
\* ~RemoveGuard: releaseRemoveLock().

\* setSendLock(): the messages in the order of the search, from the iterator on.
SearchOrder ==
  LET start == IF sendIt = End THEN 1 ELSE SelectInSeq(list, LAMBDA m : m = sendIt)
  IN SubSeq(list, start, Len(list)) \o SubSeq(list, 1, start - 1)

Candidates == IF pendingSend THEN {} ELSE First(SearchOrder, {m \in Live : job[m].state = "SEND"})

\* ++it of an iterator of the list, over the messages of `gone'.
NextIterator(m, gone) ==
  LET i == SelectInSeq(list, LAMBDA n : n = m)
      next == First(SubSeq(list, i + 1, Len(list)), Live \ gone)
  IN IF next = {} THEN End ELSE CHOOSE n \in next : TRUE

\* sendNextFrames() finds nothing to send: an iterator at the end goes to the front.
SendNothing ==
  /\ InStep("send") /\ Candidates = {}
  /\ sendIt' = IF sendIt = End /\ ~pendingSend /\ list # <<>> THEN Head(list) ELSE sendIt
  /\ handler' = [handler EXCEPT !.step = "remove"]
  /\ UNCHANGED <<list, transmitterVars, enqueued, removed, overrun, sendJob, busVars, granted,
                 accepted, processed, open>>

\* Mutant: the transceiver takes a frame while another one is pending.
HardwareFree == Len(hw) < HwCapacity

\* startSendDataFrames() can write to the CAN transceiver.
TransceiverFree == ~sendPending /\ Len(hw) < HwCapacity

\* startSendDataFrames() gives the frame to the CAN transceiver: QUEUED_FULL.
SendFrame ==
  /\ InStep("send") /\ TransceiverFree
  /\ \E m \in Candidates :
       /\ hw' = Append(hw, [message |-> m, index |-> job[m].frameIndex])
       /\ sendJob' = m
       /\ HandleResults([n \in {m} |-> FrameSending(job[m], FrameCount[m])], TRUE, TRUE)
       /\ sendIt' = NextIterator(m, {})
  /\ handler' = [handler EXCEPT !.step = "remove"]
  /\ UNCHANGED <<list, enqueued, removed, overrun, hwSent, got, granted, accepted, processed, open>>

\* FULL: the same transmitter is tried again by the next handler.
SendFull ==
  /\ InStep("send") /\ ~TransceiverFree
  /\ sendIt' \in Candidates
  /\ handler' = [handler EXCEPT !.step = "remove"]
  /\ UNCHANGED <<list, transmitterVars, enqueued, removed, overrun, sendJob, busVars, granted,
                 accepted, processed, open>>

\* FAILED: the CAN transceiver does not take frames (any other error than a full queue).
SendFailed ==
  /\ InStep("send") /\ ~sendPending
  /\ \E m \in Candidates :
       /\ sendIt' = m
       /\ HandleResults([n \in {m} |-> SetFailed(job[m], "NONE")], pendingSend, sendPending)
  /\ handler' = [handler EXCEPT !.step = "remove"]
  /\ UNCHANGED <<list, enqueued, removed, overrun, sendJob, busVars, granted, accepted,
                 processed, open>>

\* Mutant: the iterator is left at a transmitter that is removed.
IteratorKept(gone) == sendIt

\* An iterator at a transmitter that is removed goes on to the next one.
IteratorAfter(gone) == IF sendIt \in gone THEN NextIterator(sendIt, gone) ELSE sendIt

\* The locked part of releaseRemoveLock(): the finished transmitters leave the list, in
\* the reverse of its order, as often as _releasedTransmitterCount says.
RemoveReleased ==
  /\ InStep("remove")
  /\ LET gone == IF handler.name = "sent" THEN {} ELSE {m \in Live : Released(m)}
     IN /\ list' = Chosen(list, Live \ gone)
        /\ removed' = Reverse(Chosen(list, gone))
        /\ sendIt' = IteratorAfter(gone)
        /\ pendingSend' = (pendingSend /\ sendIt \notin gone)
        /\ releasedCount' = releasedCount - Cardinality(gone)
        /\ overrun' = (handler.name # "sent" /\ releasedCount > Cardinality(gone))
  /\ switchContext' = FALSE
  /\ handler' = [handler EXCEPT !.step = "notify", !.switch = switchContext]
  /\ UNCHANGED <<job, timersUpdated, sendingCount, sendPending, enqueued, sendJob, busVars,
                 granted, accepted, processed, open>>

\* The result the notification listener is told.
ProcessingResult(j) ==
  IF j.state = "SUCCESS" THEN "NO_ERROR"
  ELSE CASE j.error = "FLOW_CONTROL_TIMEOUT_EXPIRED" -> "ERROR_TIMEOUT"
         [] j.error = "FLOW_CONTROL_OVERFLOW" -> "ERROR_OVERFLOW"
         [] j.error = "FLOW_CONTROL_INVALID" -> "ERROR_ABORT"
         [] OTHER -> "ERROR_GENERAL"

\* transportMessageProcessed(), then the transmitter goes back to the pool.
NotifyProcessed ==
  /\ InStep("notify") /\ removed # <<>>
  /\ processed' = [processed EXCEPT ![Head(removed)] = ProcessingResult(job[Head(removed)])]
  /\ removed' = Tail(removed)
  /\ UNCHANGED <<list, transmitterVars, sendIt, enqueued, handler, overrun, sendJob, busVars,
                 granted, accepted, open>>

NotifyEnd ==
  /\ InStep("notify") /\ removed = <<>>
  /\ enqueued' = (enqueued \/ handler.switch)
  /\ handler' = IF handler.name = "cyclic" THEN [handler EXCEPT !.step = "sort", !.switch = FALSE]
                ELSE NoHandler
  /\ UNCHANGED <<list, transmitterVars, sendIt, removed, overrun, sendJob, busVars, granted,
                 accepted, processed, open>>

\* operator< of two transmitters: those without a timer come last.
Less(m, n) == job[m].timerSet /\ (job[n].timerSet => job[m].timer < job[n].timer)

\* The stable sort of the list.
SortedList ==
  LET Before(i, k) == Less(list[i], list[k]) \/ (~Less(list[k], list[i]) /\ i < k)
      Rank(k) == Cardinality({i \in DOMAIN list : Before(i, k)}) + 1
  IN [r \in DOMAIN list |-> list[CHOOSE k \in DOMAIN list : Rank(k) = r]]

\* cyclicTask() ends by sorting the list.
SortTransmitters ==
  /\ InStep("sort")
  /\ list' = IF timersUpdated THEN SortedList ELSE list
  /\ timersUpdated' = FALSE
  /\ handler' = NoHandler
  /\ UNCHANGED <<job, pendingSend, releasedCount, switchContext, sendingCount, sendPending, sendIt,
                 enqueued, removed, overrun, sendJob, busVars, granted, accepted, processed, open>>

ContextStep == \/ SendNothing \/ SendFrame \/ SendFull \/ SendFailed
               \/ RemoveReleased \/ NotifyProcessed \/ NotifyEnd \/ SortTransmitters
-------------------------------------------------------------------------------
\* The environment.

\* The first frame of the CAN controller goes over the bus; the callback follows.
BusTransmit ==
  /\ hw # <<>> /\ ~hwSent
  /\ hwSent' = TRUE
  /\ got' = [got EXCEPT ![Head(hw).message] = @ + 1]
  /\ UNCHANGED <<list, transmitterVars, sendIt, enqueued, handler, removed, overrun, sendJob, hw,
                 granted, accepted, processed, open>>

\* The peer has got all it has allowed and not all there is: it answers.
PeerDue(m) == m \in Live /\ ~Released(m) /\ got[m] = granted[m] /\ got[m] < FrameCount[m]

PeerFlowControl(m) ==
  /\ PeerDue(m)
  /\ \/ "CTS" \in Statuses /\ \E blockSize \in BlockSizes, separated \in BOOLEAN :
          /\ FlowControlFrameReceived(Address[m], "CTS", blockSize, separated)
          /\ granted' = [granted EXCEPT ![m] = IF blockSize > 0 THEN @ + blockSize
                                               ELSE FrameCount[m]]
     \/ \E status \in Statuses \ {"CTS"} :
          FlowControlFrameReceived(Address[m], status, 0, FALSE) /\ UNCHANGED granted

\* A unit of time.  A timer is not left waiting for more than MaxLate.
Tick ==
  /\ ~overrun /\ (hw = <<>> \/ BusMayStall)
  /\ \A m \in Live : job[m].timerSet => job[m].timer > - MaxLate
  /\ job' = [m \in Messages |-> IF m \in Live /\ job[m].timerSet
                                THEN [job[m] EXCEPT !.timer = @ - 1] ELSE job[m]]
  /\ UNCHANGED <<list, pendingSend, releasedCount, switchContext, timersUpdated, sendingCount,
                 sendPending, sendIt, enqueued, handler, removed, overrun, sendJob, busVars,
                 granted, accepted, processed, open>>

Next == \/ \E m \in Messages : Send(m) \/ PeerFlowControl(m)
        \/ ProcessMessageTransmitters \/ CanFrameSent \/ CyclicTask \/ Shutdown
        \/ ContextStep \/ BusTransmit \/ Tick

Spec == Init /\ [][Next]_vars

\* The context serves its queue and its timeouts (module TaskContext), so a handler that
\* is asked for again and again gets its turn, and time passes.  Neither the bus nor the
\* peer is fair.
FairSpec == /\ Spec
            /\ WF_vars(ContextStep) /\ WF_vars(Tick)
            /\ SF_vars(ProcessMessageTransmitters) /\ SF_vars(CyclicTask)
-------------------------------------------------------------------------------
\* What goes on the bus is what the peer has asked for: the frames of a message in
\* their order, none twice, none left out and none beyond the granted block, however the
\* flow control, the transmit callbacks and the other messages interleave.
FramesAsGranted ==
  \A i \in DOMAIN hw :
    LET m == hw[i].message
        before == {k \in 1 .. i - 1 : hw[k].message = m /\ ~(k = 1 /\ hwSent)}
        counted == IF i = 1 /\ hwSent THEN 1 ELSE 0
    IN /\ hw[i].index = got[m] + Cardinality(before) - counted
       /\ hw[i].index < granted[m]

\* The transmitter never waits for a callback that cannot come: _pendingSend is set only
\* while the transceiver's _sendPending is, that one only while the controller has a frame
\* and the job waits for its callback.
CallbackWillCome ==
  /\ pendingSend => sendPending
  /\ sendPending => /\ hw # <<>>
                    /\ sendJob \in Live
                    /\ job[sendJob].state = "WAIT" /\ job[sendJob].timeout = "TX_CALLBACK"

\* _sendMessageTransmitterIt never points to a transmitter that has left the list.
IteratorValid == sendIt \in Live \cup {End}

\* _releasedTransmitterCount is the number of finished transmitters in the list: the loop
\* of releaseRemoveLock() that counts it down stays within the list.
ReleasedCountIsExact == releasedCount = Cardinality({m \in Live : Released(m)})

\* Consecutive frames: the counter behind isSendingConsecutiveFrames(), which keeps the
\* tick running, is the number of transmitters that wait for the separation time.
SendingCountIsExact ==
  sendingCount = Cardinality({m \in Messages : job[m].timeout = "SEPARATION_TIME"})

\* The list of transmitters, its iterator and its counters agree, whichever handler has
\* changed one of them last.
ListIsConsistent == IteratorValid /\ ReleasedCountIsExact /\ SendingCountIsExact

\* "number of frames that have been sent successfully": a frame is counted as sent only
\* after it has been on the bus.
CountedFramesWereSent == \A m \in Messages : job[m].frameIndex <= got[m]

\* "The wait timeout for the reception of the next control frame has expired": a message
\* fails for want of a flow control frame only if the peer has not sent the go-ahead.
GrantIsHeard ==
  \A m \in Messages : job[m].error = "FLOW_CONTROL_TIMEOUT_EXPIRED" => granted[m] = got[m]

\* "The transmission has completed": a message whose last frame has been sent is not
\* aborted afterwards.
CompletedStaysCompleted ==
  [][\A m \in Messages : job[m].state = "SUCCESS" => job'[m].state = "SUCCESS"]_vars

\* Every message send() has accepted is reported to its listener, whatever the bus and
\* the peer do, unless the transport layer is shut down.
EveryMessageProcessed ==
  \A m \in Messages : m \in accepted ~> processed[m] # "none" \/ ~open
===============================================================================
