---------------------------- MODULE DoCanReceiver ----------------------------
(***************************************************************************)
(* libs/bsw/docan: the reception of transport messages from CAN frames     *)
(* (ISO 15765-2).  Every single frame and every first frame takes a        *)
(* message receiver from a pool; the receiver gets a transport message     *)
(* from the provider (or waits for one, asking the sender to wait), grants *)
(* the blocks of consecutive frames and hands the complete message over.   *)
(* The handlers run one after the other in the context of the transport    *)
(* layer; the upper layer gives a message back from any context.           *)
(*                                                                         *)
(* A receiver is known by the number of its first frame.  Of the data of a *)
(* frame only the message it belongs to and its index are kept.  The       *)
(* provider, the upper layer and the sending nodes are external: a count   *)
(* of free messages, a set of messages in processing, and senders that     *)
(* send consecutive frames when they have got a flow control frame.        *)
(***************************************************************************)
EXTENDS Integers, Sequences, SequencesExt, FiniteSets, FiniteSetsExt, Subsequences

CONSTANTS Addresses,       \* reception addresses, one per sending node
          Functional,      \* those whose transmission address is INVALID_ADDRESS
          Rejected,        \* <<address, frames>> the provider answers with an error
          FrameCounts,     \* the frames a message may have; 1 is a single frame
          PoolSize,        \* _messageReceiverPool.max_size()
          Buffers,         \* transport messages of the provider
          MaxBlockSize,    \* getMaxBlockSize(); 0 is no limit
          MaxRetry,        \* getMaxAllocateRetryCount()
          RxTimeout, AllocateTimeout, \* in units of time
          MaxLate,         \* the time between two calls of cyclicTask() at most
          FcMayFail,       \* the CAN transceiver may refuse a flow control frame
          MaxMessages      \* bound: the messages all senders send together

ASSUME ReceiverAssumption ==
  /\ Functional \subseteq Addresses /\ Rejected \subseteq Addresses \X FrameCounts
  /\ FrameCounts \subseteq Nat \ {0} /\ FrameCounts # {} /\ IsFiniteSet(FrameCounts)
  /\ Addresses # {} /\ PoolSize \in Nat \ {0} /\ Buffers \in Nat
  /\ MaxBlockSize \in Nat /\ MaxRetry \in Nat /\ MaxLate \in Nat \ {0}
  /\ RxTimeout \in Nat \ {0} /\ AllocateTimeout \in Nat \ {0}
  /\ FcMayFail \in BOOLEAN /\ MaxMessages \in Nat

VARIABLES
  list,          \* _messageReceivers
  rx,            \* the DoCanMessageReceiver of every message
  timersUpdated,
  overrun,       \* the loop of releaseRemoveLock() has passed the end of the list
  queued,        \* _processMessageReceivers is queued in the context
  free,          \* the provider: transport messages left
  processing,    \* messages the upper layer has not given back
  delivered,     \* what messageReceived() was called with, in that order
  sender,        \* of every address: its last message and the frames it may send
  count,         \* messages sent so far
  refused,       \* addresses with a first frame dropped because the pool was full
  untold,        \* addresses whose flow control frame WAIT the transceiver has refused
  sinceCyclic,   \* time since the last cyclicTask()
  open           \* the transport layer has not been shut down

vars == <<list, rx, timersUpdated, overrun, queued, free, processing, delivered, sender, count,
          refused, untold, sinceCyclic, open>>

Ids  == 1 .. MaxMessages
Live == ToSet(list)

\* The frames of the longest message.
MaxFrames == Max(FrameCounts)

States   == {"ALLOCATE", "WAIT", "SEND", "PROCESSING", "DONE"}
Timeouts == {"NONE", "RX", "ALLOCATE"}
Frame    == [of : Ids, index : 0 .. MaxFrames - 1]

\* How late the model lets a timer get; beyond it `late' is all that is known.
Latest == - MaxLate - 2

\* The members of DoCanMessageReceiver and of its protocol handler.  `timer' is the time
\* left (the wrap of the counter is the subject of module Timer); `message' says whether
\* a transport message is attached, `content' what has been appended to it.
Receiver == [address : Addresses, frameCount : FrameCounts, frameIndex : 1 .. MaxFrames,
             state : States, timeout : Timeouts, blockIndex : Nat, retry : Nat,
             allocating : BOOLEAN, blocked : BOOLEAN, message : BOOLEAN, content : Seq(Frame),
             timer : Int, timerSet : BOOLEAN]

NewReceiver(a, n, isBlocked) ==
  [address |-> a, frameCount |-> n, frameIndex |-> 1, state |-> "ALLOCATE", timeout |-> "NONE",
   blockIndex |-> 0, retry |-> 0, allocating |-> TRUE, blocked |-> isBlocked, message |-> FALSE,
   content |-> <<>>, timer |-> 0, timerSet |-> FALSE]

Unused == NewReceiver(CHOOSE a \in Addresses : TRUE, MaxFrames, FALSE)

TypeOK ==
  /\ list \in Seq(Ids) /\ IsInjective(list) /\ Len(list) <= PoolSize
  /\ rx \in [Ids -> Receiver]
  /\ timersUpdated \in BOOLEAN /\ overrun \in BOOLEAN /\ queued \in BOOLEAN
  /\ free \in 0 .. Buffers /\ processing \subseteq Ids
  /\ delivered \in Seq([id : Ids, address : Addresses, content : Seq(Frame)])
  /\ sender \in [Addresses -> [id : 0 .. MaxMessages, frames : {0} \cup FrameCounts,
                               next : 0 .. MaxFrames, credit : Nat]]
  /\ count \in 0 .. MaxMessages /\ refused \subseteq Addresses /\ untold \subseteq Addresses
  /\ sinceCyclic \in 0 .. MaxLate /\ open \in BOOLEAN

Init ==
  /\ list = <<>> /\ rx = [i \in Ids |-> Unused]
  /\ timersUpdated = FALSE /\ overrun = FALSE /\ queued = FALSE
  /\ free = Buffers /\ processing = {} /\ delivered = <<>>
  /\ sender = [a \in Addresses |-> [id |-> 0, frames |-> 0, next |-> 0, credit |-> 0]]
  /\ count = 0 /\ refused = {} /\ untold = {} /\ sinceCyclic = 0 /\ open = TRUE
-------------------------------------------------------------------------------
(***************************************************************************)
(* A handler is a function of the state it finds.  `s' is that state while *)
(* the handler runs; s.released is _releasedReceiverCount, s.stop ends the *)
(* loop of processMessageReceivers().  `e' holds what the handler is told: *)
(* the receivers whose flow control frame the transceiver refuses and      *)
(* those whose message the upper layer refuses.                            *)
(***************************************************************************)
Found == [list |-> list, rx |-> rx, updated |-> timersUpdated, free |-> free,
          processing |-> processing, delivered |-> delivered, sender |-> sender,
          untold |-> untold, released |-> 0, stop |-> FALSE]

Segmented(r) == r.frameCount > 1

Duration(timeout) ==
  CASE timeout = "RX" -> RxTimeout [] timeout = "ALLOCATE" -> AllocateTimeout [] OTHER -> 0

\* setState() and what handleResult() does with a transition: resetTimer().
Transition(s, i, state, timeout) ==
  [s EXCEPT !.rx[i] = [@ EXCEPT !.state = state, !.timeout = timeout,
                                !.timer = Duration(timeout), !.timerSet = TRUE],
            !.updated = @ \/ state # "DONE"]

\* The receivers of an address.
OfAddress(s, a) == {k \in ToSet(s.list) : s.rx[k].address = a}

\* Mutant: the message goes with its receiver.
ReleaseLosing(s, i) == [s EXCEPT !.rx[i].message = FALSE, !.released = @ + 1]

\* release(): the message goes back to the provider and the first blocked receiver of the
\* address is unblocked, be it the released one itself.
Release(s, i) ==
  LET waiting == First(s.list, {k \in OfAddress(s, s.rx[i].address) : s.rx[k].blocked})
      gone == [s EXCEPT !.free = IF s.rx[i].message THEN @ + 1 ELSE @,
                        !.rx[i].message = FALSE,
                        !.released = @ + 1]
  IN IF waiting = {} THEN gone
     ELSE [gone EXCEPT !.rx[CHOOSE k \in waiting : TRUE].blocked = FALSE]

\* Mutant: a finished receiver is not released.
DoneOnly(s, i) == Transition([s EXCEPT !.rx[i].allocating = FALSE], i, "DONE", "NONE")

\* setDone(), then release().
Done(s, i) == Release(Transition([s EXCEPT !.rx[i].allocating = FALSE], i, "DONE", "NONE"), i)

\* startProcessingTransportMessage(): the message is handed over or given back at once.
StartProcessing(s, i, e) ==
  LET s1 == Transition(s, i, "PROCESSING", "NONE")
      s2 == [s1 EXCEPT !.rx[i].message = FALSE]
  IN Done(IF i \in e.rejects THEN [s2 EXCEPT !.free = @ + 1]
          ELSE [s2 EXCEPT !.processing = @ \cup {i},
                          !.delivered = Append(@, [id |-> i, address |-> s.rx[i].address,
                                                   content |-> s.rx[i].content])],
          i)

IsFlowControlWait(r) == r.retry > 0 /\ Segmented(r)

\* The frames a CTS allows the sender to send.
Credit == IF MaxBlockSize > 0 THEN MaxBlockSize ELSE MaxFrames

\* sendFlowControlFrame() and frameSent(): a refused frame leaves the receiver in SEND.
SendFlowControl(s, i, e) ==
  LET r  == s.rx[i]
      s1 == Transition(s, i, "SEND", "NONE")
  IN IF i \in e.unsent
     THEN [s1 EXCEPT !.untold = IF IsFlowControlWait(r) THEN @ \cup {r.address} ELSE @]
     ELSE IF IsFlowControlWait(r) THEN Transition(s1, i, "WAIT", "ALLOCATE")
     ELSE Transition([s1 EXCEPT !.sender[r.address].credit = Credit], i, "WAIT", "RX")

\* Mutant: the retries of a segmented message are not counted.
AllocatedNoLimit(s, i, success, e) ==
  LET r == s.rx[i]
      s1 == [s EXCEPT !.rx[i].retry = 1]
  IN IF success
     THEN LET s2 == [s EXCEPT !.rx[i] = [@ EXCEPT !.allocating = FALSE, !.retry = 0, !.message = TRUE,
                                              !.content = <<[of |-> i, index |-> 0]>>],
                              !.free = @ - 1]
          IN IF Segmented(r) THEN SendFlowControl(s2, i, e) ELSE StartProcessing(s2, i, e)
     ELSE IF ~Segmented(r) THEN Transition(s1, i, "WAIT", "ALLOCATE")
     ELSE SendFlowControl(s1, i, e)

\* allocated(): with a message the first frame is appended and the reception goes on;
\* without one it is tried again later, at most once for a single frame.
Allocated(s, i, success, e) ==
  LET r == s.rx[i]
      s1 == [s EXCEPT !.rx[i].retry = @ + 1]
  IN IF success
     THEN LET s2 == [s EXCEPT !.rx[i] = [@ EXCEPT !.allocating = FALSE, !.retry = 0, !.message = TRUE,
                                              !.content = <<[of |-> i, index |-> 0]>>],
                              !.free = @ - 1]
          IN IF Segmented(r) THEN SendFlowControl(s2, i, e) ELSE StartProcessing(s2, i, e)
     ELSE IF r.retry + 1 > (IF Segmented(r) THEN MaxRetry ELSE 1) THEN Done(s1, i)
     ELSE IF Segmented(r) THEN SendFlowControl(s1, i, e)
     ELSE Transition(s1, i, "WAIT", "ALLOCATE")

\* allocateTransportMessage(): a blocked receiver does not ask the provider.
Allocate(s, i, peek, e) ==
  LET r == s.rx[i]
      found == ~r.blocked /\ s.free > 0
  IN IF ~r.blocked /\ <<r.address, r.frameCount>> \in Rejected THEN Done(s, i)
     ELSE IF ~found /\ peek THEN s
     ELSE Allocated(s, i, found, e)

\* releaseRemoveLock(): as many finished receivers as were released leave the list.
Become(s) ==
  LET done == {n \in DOMAIN s.list : s.rx[s.list[n]].state = "DONE"}
      gone == {s.list[n] : n \in {n \in done : Cardinality({h \in done : h < n}) < s.released}}
  IN /\ list' = IF gone = {} THEN s.list ELSE Chosen(s.list, Ids \ gone)
     /\ rx' = [i \in Ids |-> IF i \in gone THEN Unused ELSE s.rx[i]]
     /\ overrun' = (overrun \/ s.released > Cardinality(done))
     /\ timersUpdated' = s.updated
     /\ free' = s.free /\ processing' = s.processing /\ delivered' = s.delivered
     /\ sender' = s.sender /\ untold' = s.untold

\* What may be refused while a handler runs.
Answers(ids) == [unsent : SUBSET {i \in ids : FcMayFail}, rejects : SUBSET ids]
-------------------------------------------------------------------------------
\* A loop over the list: the receivers in S are released, one after the other.
DoneAll(s, S) ==
  LET l == s.list
      after[k \in 0 .. Len(l)] == IF k = 0 THEN s
                                 ELSE IF l[k] \in S THEN Done(after[k - 1], l[k])
                                 ELSE after[k - 1]
  IN after[Len(l)]

\* handlePendingMessageReceivers(): a new message ends the segmented one of the address.
HandlePending(s, a) ==
  DoneAll(s, {k \in OfAddress(s, a) : Segmented(s.rx[k])})

\* A single frame or the first frame of n arrives; its sender forgets the message before.
\* firstDataFrameReceived() with the answers e.
FirstDataFrame(a, n) ==
  /\ open /\ ~overrun /\ count < MaxMessages
  /\ count' = count + 1
  /\ LET i == count + 1
         s0 == [Found EXCEPT !.sender[a] = [id |-> i, frames |-> n, next |-> 1, credit |-> 0]]
         s1 == HandlePending(s0, a)
         blocked == \E k \in Live : rx[k].address = a /\ ~Segmented(rx[k])
         s2 == [s1 EXCEPT !.list = Append(@, i), !.rx[i] = NewReceiver(a, n, blocked)]
         functional == n > 1 /\ a \in Functional
         full == ~functional /\ Len(list) = PoolSize
     IN /\ \E s \in IF functional \/ full THEN {s0}
                    ELSE {Allocate(s2, i, FALSE, e) : e \in Answers({i})} : Become(s)
        /\ refused' = IF full THEN refused \cup {a} ELSE refused
  /\ UNCHANGED <<queued, sinceCyclic, open>>

\* Mutant: the sequence number is not compared.
ConsecutiveUnchecked(s, i, frame, e) ==
  LET r == s.rx[i]
      s1 == [s EXCEPT !.rx[i].frameIndex = @ + 1, !.rx[i].content = Append(@, frame)]
  IN IF r.frameIndex + 1 = r.frameCount THEN StartProcessing(s1, i, e)
     ELSE Transition(s1, i, "WAIT", "RX")

\* DoCanMessageReceiver::consecutiveFrameReceived(): out of sequence ends the reception;
\* a frame nobody waits for is appended all the same, as far as the message has room
\* (getExpectedConsecutiveFrameDataSize()).
ConsecutiveFrame(s, i, frame, e) ==
  LET r  == s.rx[i]
      s1 == [s EXCEPT !.rx[i].content =
                        IF Len(@) < r.frameCount THEN Append(@, frame) ELSE @]
      s2 == [s1 EXCEPT !.rx[i].frameIndex = @ + 1]
      endOfBlock == MaxBlockSize > 0 /\ r.blockIndex + 1 = MaxBlockSize
      s3 == [s2 EXCEPT !.rx[i].blockIndex = IF MaxBlockSize > 0 /\ ~endOfBlock THEN @ + 1 ELSE 0]
  IN IF r.state # "WAIT" \/ r.timeout # "RX" THEN s1
     ELSE IF r.frameIndex % 16 # frame.index % 16 THEN Done(s, i)
     ELSE IF r.frameIndex + 1 = r.frameCount THEN StartProcessing(s2, i, e)
     ELSE IF endOfBlock THEN SendFlowControl(s3, i, e)
     ELSE Transition(s3, i, "WAIT", "RX")

\* consecutiveDataFrameReceived(): the first receiver of the address gets the frame if it
\* has a message.  The outcomes, from the state s in which the sender has sent it.
ConsecutiveDataFrame(s, a, frame) ==
  LET receivers == {i \in First(s.list, OfAddress(s, a)) : s.rx[i].message}
  IN IF receivers = {} THEN {s}
     ELSE {ConsecutiveFrame(s, i, frame, e) : i \in receivers, e \in Answers(receivers)}

Sending(a) == open /\ ~overrun /\ sender[a].next < sender[a].frames

\* The sender sends the next frame it has been granted; it may get lost.
SendConsecutive(a) ==
  /\ Sending(a) /\ sender[a].credit > 0
  /\ LET s0 == [Found EXCEPT !.sender[a].next = @ + 1, !.sender[a].credit = @ - 1]
         frame == [of |-> sender[a].id, index |-> sender[a].next]
     IN \E s \in {s0} \cup ConsecutiveDataFrame(s0, a, frame) : Become(s)
  /\ UNCHANGED <<queued, count, refused, sinceCyclic, open>>

\* The last frame arrives twice, as CAN allows.
DuplicateConsecutive(a) ==
  /\ Sending(a) /\ sender[a].next > 1
  /\ LET frame == [of |-> sender[a].id, index |-> sender[a].next - 1]
     IN \E s \in ConsecutiveDataFrame(Found, a, frame) : Become(s)
  /\ UNCHANGED <<queued, count, refused, sinceCyclic, open>>

\* expired() of a receiver whose timer has run out (updateTimer() has reset it).
Expired(s, i, e) ==
  LET s1 == [s EXCEPT !.rx[i].timerSet = FALSE]
  IN CASE s.rx[i].timeout = "RX" -> Done(s1, i)
       [] s.rx[i].timeout = "ALLOCATE" ->
            Allocate(Transition(s1, i, "ALLOCATE", "NONE"), i, FALSE, e)
       [] OTHER -> s1

\* The loop over the receivers in S, whose timers have run out.
ExpiredAll(s, S, e) ==
  LET l == s.list
      after[k \in 0 .. Len(l)] == IF k = 0 THEN s
                                 ELSE IF l[k] \in S THEN Expired(after[k - 1], l[k], e)
                                 ELSE after[k - 1]
  IN after[Len(l)]

TimerExpired(r) == r.timerSet /\ r.timer <= 0

\* The loop of cyclicTask() ends at the first receiver whose timer has not expired.
ExpiredPrefix == {list[n] : n \in {n \in DOMAIN list : \A k \in 1 .. n : TimerExpired(rx[list[k]])}}

\* operator<: receivers without a timer come last.
Less(r, q) == r.timerSet /\ (q.timerSet => r.timer < q.timer)

\* The stable sort of a list of receivers.
SortedList(l, r) ==
  LET Before(i, k) == Less(r[l[i]], r[l[k]]) \/ (~Less(r[l[k]], r[l[i]]) /\ i < k)
      Rank(k) == Cardinality({i \in DOMAIN l : Before(i, k)}) + 1
  IN [n \in DOMAIN l |-> l[CHOOSE k \in DOMAIN l : Rank(k) = n]]

\* Mutant: the list keeps its order.
SortedIfUpdatedNever(s) == [s EXCEPT !.updated = FALSE]

\* The end of cyclicTask(): the receivers are sorted if a timer has been set.
SortedIfUpdated(s) ==
  IF s.updated THEN [s EXCEPT !.list = SortedList(s.list, s.rx), !.updated = FALSE] ELSE s

\* cyclicTask().  Sorting the finished receivers too does not change the order of the rest.
CyclicTask ==
  /\ ~overrun
  /\ \E s \in {SortedIfUpdated(ExpiredAll(Found, ExpiredPrefix, e)) :
                e \in Answers(ExpiredPrefix)} : Become(s)
  /\ sinceCyclic' = 0
  /\ UNCHANGED <<queued, count, refused, open>>

\* transportMessageProcessed(), from any context: the message goes back to the provider
\* and the waiting receivers are looked at later.
TransportMessageProcessed(i) ==
  /\ i \in processing
  /\ processing' = processing \ {i}
  /\ free' = free + 1
  /\ queued' = TRUE
  /\ UNCHANGED <<list, rx, timersUpdated, overrun, delivered, sender, count, refused,
                 untold, sinceCyclic, open>>

\* A step of the loop of processMessageReceivers(): it ends at the first receiver that
\* is left without a message, a single frame that has been handed over included.
ProcessReceiver(s, i, e) ==
  IF s.stop \/ ~s.rx[i].allocating THEN s
  ELSE LET s1 == Allocate(s, i, TRUE, e) IN [s1 EXCEPT !.stop = ~s1.rx[i].message]

ProcessAll(s, e) ==
  LET l == s.list
      after[k \in 0 .. Len(l)] == IF k = 0 THEN s ELSE ProcessReceiver(after[k - 1], l[k], e)
  IN after[Len(l)]

ProcessMessageReceivers ==
  /\ queued /\ ~overrun
  /\ queued' = FALSE
  /\ \E s \in {ProcessAll(Found, e) : e \in Answers({i \in Live : rx[i].allocating})} :
       Become(s)
  /\ UNCHANGED <<count, refused, sinceCyclic, open>>

\* shutdown(): every reception is cancelled (none is in PROCESSING between handlers).
Shutdown ==
  /\ open /\ ~overrun
  /\ open' = FALSE
  /\ \E s \in {DoneAll(Found, Live)} : Become(s)
  /\ UNCHANGED <<queued, count, refused, sinceCyclic>>

\* A unit of time.  cyclicTask() is called at least every MaxLate units.
Tick ==
  /\ ~overrun /\ sinceCyclic < MaxLate
  /\ sinceCyclic' = sinceCyclic + 1
  /\ rx' = [i \in Ids |-> IF i \in Live /\ rx[i].timerSet /\ rx[i].timer > Latest
                          THEN [rx[i] EXCEPT !.timer = @ - 1] ELSE rx[i]]
  /\ UNCHANGED <<list, timersUpdated, overrun, queued, free, processing, delivered, sender, count,
                 refused, untold, open>>

Next == \/ \E a \in Addresses : \/ \E n \in FrameCounts : FirstDataFrame(a, n)
                                \/ SendConsecutive(a)
                                \/ DuplicateConsecutive(a)
        \/ \E i \in Ids : TransportMessageProcessed(i)
        \/ ProcessMessageReceivers \/ CyclicTask \/ Shutdown \/ Tick

Spec == Init /\ [][Next]_vars

\* Time passes, and the context serves its cyclic timeout (module TaskContext): time goes
\* on and cyclicTask() is called again and again.  Nothing else is fair.
FairSpec == Spec /\ []<>(sinceCyclic > 0) /\ []<>(sinceCyclic = 0)
-------------------------------------------------------------------------------
\* Every transport message is in one place: with the provider, attached to one receiver,
\* or with the upper layer, whatever ends a reception and whoever gives the message back.
BuffersConserved ==
  free + Cardinality({i \in Live : rx[i].message}) + Cardinality(processing) = Buffers

\* A message is handed over once and in the order of the first frames of its address, and
\* its data is that of its own frames: whatever was lost, sent twice, cancelled or tried
\* again.  There is one exception to each.  The data: a sender whose first frame was dropped
\* by a full pool takes the flow control of the message before for its own.  The order: a
\* receiver whose sender could not be told to wait is sorted before those that came earlier.
DeliveredAsSent ==
  \A k \in DOMAIN delivered :
    LET d == delivered[k]
    IN /\ d.address \in refused
          \/ \A n \in DOMAIN d.content : d.content[n] = [of |-> d.id, index |-> n - 1]
       /\ \A l \in 1 .. k - 1 : delivered[l].address = d.address =>
            IF d.address \in untold THEN delivered[l].id # d.id ELSE delivered[l].id < d.id

\* releaseRemoveLock() finds each released receiver, and no finished one stays in the list.
FinishedLeave == ~overrun /\ \A i \in Live : rx[i].state # "DONE"

\* A receiver whose flow control frame has been refused: nothing sends it again.
Stuck(i) == rx[i].state = "SEND"

InOrderOfTimers ==
  \A m, n \in DOMAIN list : m < n => ~Less(rx[list[n]], rx[list[m]])

\* The loop of cyclicTask() ends at the first receiver whose timer runs, so none whose
\* timer ends earlier may stand behind it, unless the sort is still to come; and a receiver
\* that waits has a timer.  Receivers without one (Stuck) are the exception.
TimeoutsNoticed ==
  (\A i \in Live : ~Stuck(i)) => /\ timersUpdated \/ InOrderOfTimers
                                 /\ \A i \in Live : rx[i].timerSet

\* Every reception ends: handed over, cancelled or timed out.  It need not while a
\* receiver is stuck.
ReceptionEnds == \A i \in Ids : i \in Live ~> (i \notin Live \/ \E k \in Live : Stuck(k))
===============================================================================
