------------------------ MODULE DoCanTransmitterProofs ------------------------
(***************************************************************************)
(* Proofs about the DoCAN transmitter, for any number of messages, frames, *)
(* addresses, places of the pool and of the controller, and any timeouts.  *)
(*                                                                         *)
(* A job is always in one of five phases (GoodJob): it starts, may send,   *)
(* has given a frame to the transceiver, waits for flow control, or has    *)
(* ended.  Each phase bounds its frame index by the block the peer has     *)
(* granted; the functions of DoCanMessageTransmitter are shown once to     *)
(* lead from a phase to a phase (Event), and the handlers of               *)
(* DoCanTransmitter follow.  The other parts say how the jobs share the    *)
(* transmitter: who is in its list (ListInv), that two segmented messages  *)
(* do not share an address (AddressInv), whose callback it waits for       *)
(* (SendInv), which frames the controller still has, in order and without  *)
(* a gap (FramesInv), and what its counters count (CountInv).              *)
(*                                                                         *)
(* Some results need more of the environment, and say so: shutdown() may   *)
(* count a finished transmitter twice or abort a completed one, and a      *)
(* frame the bus sends after the timeout of its callback is taken for the  *)
(* next one.                                                               *)
(***************************************************************************)
EXTENDS DoCanTransmitter, SequenceFacts, FiniteSetTheorems, FunctionTheorems

-------------------------------------------------------------------------------
\* The inductive invariant.

\* The transceiver has a frame of the job.
AwaitsCallback(j) == j.state = "WAIT" /\ j.timeout = "TX_CALLBACK"

\* What the phases of a job say about its numbers: n is its number of frames, g the number of
\* frames the peer has granted.
Starts(j) == /\ j.state = "INITIALIZED" /\ j.timeout = "NONE" /\ j.flow = "UNEXPECTED"
             /\ j.frameIndex = 0 /\ j.blockEnd = 1

MaySend(j, n) == /\ \/ j.state = "SEND" /\ j.timeout = "TX_CALLBACK"
                    \/ j.state = "WAIT" /\ j.timeout = "SEPARATION_TIME"
                 /\ j.flow = "UNEXPECTED" /\ j.frameIndex < j.blockEnd /\ j.frameIndex < n

IsSending(j, n) ==
  /\ AwaitsCallback(j) /\ j.frameIndex < j.blockEnd /\ j.frameIndex < n
  /\ CASE j.flow = "UNEXPECTED" -> j.frameIndex + 1 < j.blockEnd \/ j.frameIndex + 1 = n
       [] j.flow = "RECEIVED_CTS" -> j.frameIndex + 1 < j.blockEnd /\ j.frameIndex + 1 < n
       [] OTHER -> j.frameIndex + 1 = j.blockEnd /\ j.frameIndex + 1 < n

AwaitsFlowControl(j, n) ==
  /\ j.state = "WAIT" /\ j.timeout = "FLOW_CONTROL" /\ j.flow \in {"EXPECTED", "RECEIVED_WAIT"}
  /\ j.frameIndex = j.blockEnd /\ 0 < j.frameIndex /\ j.frameIndex < n

HasEnded(j) == IsDone(j) /\ j.timeout = "NONE" /\ j.flow = "UNEXPECTED"

GoodJob(j, n, g) ==
  \/ /\ Starts(j) \/ MaySend(j, n) \/ IsSending(j, n) \/ AwaitsFlowControl(j, n)
     /\ j.blockEnd <= g
  \/ HasEnded(j)

JobsInv == \A m \in Messages : /\ GoodJob(job[m], FrameCount[m], granted[m])
                               /\ job[m].consecutive <=> job[m].timeout = "SEPARATION_TIME"

\* A message is in the list from send() until it has ended.
ListInv == /\ Live \subseteq accepted
           /\ \A m \in Messages : /\ m \notin accepted => Starts(job[m])
                                  /\ m \in accepted \ Live => IsDone(job[m])

\* Two segmented messages do not share an address.
AddressInv ==
  \A m, n \in Live : ~Released(m) /\ ~Released(n) /\ Address[m] = Address[n] /\ FrameCount[m] > 1
                     /\ FrameCount[n] > 1 => m = n

\* The transceiver waits for the callback of the one job that waits for it.
SendInv == /\ pendingSend => sendPending
           /\ sendPending => hw # <<>> /\ sendJob \in Live
           /\ \A m \in Messages : AwaitsCallback(job[m]) <=> sendPending /\ m = sendJob

\* The frames of m in u are those from lo up to hi, in their order.
Line(u, m, lo, hi) ==
  /\ lo <= hi
  /\ \A k \in DOMAIN u : u[k].message = m => u[k].index \in lo .. hi - 1
  /\ \A x \in lo .. hi - 1 : \E k \in DOMAIN u : u[k].message = m /\ u[k].index = x
  /\ \A i, k \in DOMAIN u :
       u[i].message = m /\ u[k].message = m /\ i < k => u[i].index < u[k].index

\* The frame that the job sends next.
NextFrame(j) == j.frameIndex + (IF AwaitsCallback(j) THEN 1 ELSE 0)

\* The frames that have not been sent yet.
Unsent == IF hwSent THEN Tail(hw) ELSE hw

\* What the controller has of m; hi is the end of it.
FramesOf(m, hi) == /\ hi <= granted[m] /\ Line(Unsent, m, got[m], hi)
                   /\ ~IsDone(job[m]) => hi = NextFrame(job[m])

FramesInv ==
  /\ hwSent => /\ hw # <<>>
               /\ Head(hw).index = got[Head(hw).message] - 1
  /\ \A m \in Messages : 1 <= granted[m] /\ \E hi \in Nat : FramesOf(m, hi)

\* The counters; shutdown() may count a finished transmitter twice.
CountInv == /\ SendingCountIsExact
            /\ Cardinality({m \in Live : Released(m)}) <= releasedCount

TransmitterInv == /\ TypeOK /\ JobsInv /\ ListInv /\ AddressInv /\ SendInv /\ FramesInv
                  /\ CountInv /\ IteratorValid

\* While the bus is punctual and the peer grants what it is asked for, and nothing is shut down,
\* the controller has one frame at a time, and its callback comes before the timeout.
Punctual == ~BusMayStall /\ ~MayShutdown /\ Statuses \subseteq {"CTS"}

BusInv == /\ Len(hw) <= 1
          /\ hw # <<>> <=> sendPending
          /\ sendPending => /\ hw[1].message = sendJob
                            /\ job[sendJob].timerSet /\ 0 < job[sendJob].timer

\* With an address for every message the job knows what the peer has granted.
AddressesDiffer == \A m, n \in Messages : Address[m] = Address[n] => m = n

GrantInv == \A m \in Messages : ~IsDone(job[m]) => /\ job[m].blockEnd = granted[m]
                                                   /\ job[m].flow # "RECEIVED_WAIT"
                                                   /\ job[m].error = "NONE"

-------------------------------------------------------------------------------
\* DoCanMessageTransmitProtocolHandler: what its events make of a job.

\* An ended job stays ended, any other goes on with the same frame.
Kept(j, k) == /\ IsDone(j) => IsDone(k)
              /\ ~IsDone(k) => NextFrame(k) = NextFrame(j)

\* Result r of an event of job j: the job is good, and if it no longer awaits the callback of
\* its frame then the frame is cancelled.
Event(r, j, n, g) ==
  /\ r.job \in Job /\ r.transition \in BOOLEAN /\ GoodJob(r.job, n, g) /\ Kept(j, r.job)
  /\ r.job.frameIndex = j.frameIndex
  /\ ~r.transition => /\ r.job.timeout = j.timeout /\ r.job.consecutive = j.consecutive
                      /\ IsDone(r.job) => IsDone(j)
  /\ AwaitsCallback(r.job) => AwaitsCallback(j)
  /\ AwaitsCallback(j) => AwaitsCallback(r.job) \/ (r.transition /\ r.cancelSend /\ IsDone(r.job))

\* Result r of a change of state of job j.
Changed(r, j, state, flow, timeout) ==
  /\ r.job \in Job /\ r.transition = TRUE /\ r.cancelSend = FALSE
  /\ r.job.state = state /\ r.job.flow = flow /\ r.job.timeout = timeout
  /\ r.job.frameIndex = j.frameIndex /\ r.job.blockEnd = j.blockEnd /\ r.job.error = j.error

\* setState().
LEMMA SetStateFacts ==
  ASSUME NEW j \in Job, NEW state \in States, NEW flow \in Flows, NEW timeout \in TimeoutsOfJob
  PROVE  Changed(SetState(j, state, flow, timeout), j, state, flow, timeout)
  BY DEF SetState, Result, Job, Changed

\* The states, flow control states and timeouts that are set.
LEMMA Names ==
  /\ "WAIT" \in States /\ "SEND" \in States /\ "SUCCESS" \in States /\ "FAIL" \in States
  /\ "UNEXPECTED" \in Flows /\ "EXPECTED" \in Flows /\ "RECEIVED_WAIT" \in Flows
  /\ "RECEIVED_CTS" \in Flows
  /\ "TX_CALLBACK" \in TimeoutsOfJob /\ "NONE" \in TimeoutsOfJob
  /\ "FLOW_CONTROL" \in TimeoutsOfJob /\ "SEPARATION_TIME" \in TimeoutsOfJob
  BY DEF States, Flows, TimeoutsOfJob

\* start() of a new transmitter.
LEMMA Starting ==
  ASSUME NEW j \in Job, NEW n \in Nat \ {0}, NEW g \in Nat, GoodJob(j, n, g), Starts(j)
  PROVE  Event(SetSend(j), j, n, g)
<1>. DEFINE r == SetSend(j)
<1>1. /\ r.job \in Job /\ r.transition = TRUE
      /\ r.job.state = "SEND" /\ r.job.flow = "UNEXPECTED" /\ r.job.timeout = "TX_CALLBACK"
      /\ r.job.frameIndex = j.frameIndex /\ r.job.blockEnd = j.blockEnd
  <2>1. Changed(SetState(j, "SEND", "UNEXPECTED", "TX_CALLBACK"), j, "SEND", "UNEXPECTED",
                "TX_CALLBACK")
    BY ONLY Names, j \in Job, SetStateFacts
  <2>. QED BY <2>1 DEF SetSend, Changed
<1>. HIDE DEF r
<1>2. j.blockEnd <= g /\ ~AwaitsCallback(j) /\ ~AwaitsCallback(r.job)
  BY <1>1 DEF GoodJob, Starts, HasEnded, IsDone, AwaitsCallback
<1>3. GoodJob(r.job, n, g)
  BY <1>1, <1>2 DEF GoodJob, MaySend, Starts
<1>4. Kept(j, r.job)
  BY <1>1, <1>2 DEF Kept, NextFrame, IsDone, Starts
<1>. QED BY <1>1, <1>2, <1>3, <1>4 DEF Event, r

\* setFailed(), of whatever job.
LEMMA Failing ==
  ASSUME NEW j \in Job, NEW n, NEW g, NEW e \in Errors
  PROVE  Event(SetFailed(j, e), j, n, g) /\ IsDone(SetFailed(j, e).job)
         /\ SetFailed(j, e).job.error = e /\ SetFailed(j, e).job.frameIndex = j.frameIndex
         /\ SetFailed(j, e).job.state = "FAIL"
<1>. DEFINE r == SetFailed(j, e)
<1>0. "FAIL" \in States /\ "UNEXPECTED" \in Flows /\ "NONE" \in TimeoutsOfJob
  BY DEF States, Flows, TimeoutsOfJob
<1>1. /\ r.job \in Job /\ r.transition = TRUE /\ r.cancelSend = AwaitsCallback(j)
      /\ r.job.state = "FAIL" /\ r.job.flow = "UNEXPECTED" /\ r.job.timeout = "NONE"
      /\ r.job.error = e /\ r.job.frameIndex = j.frameIndex
  BY <1>0 DEF SetFailed, Job, AwaitsCallback
<1>. HIDE DEF r
<1>2. IsDone(r.job) /\ ~AwaitsCallback(r.job) /\ HasEnded(r.job)
  BY <1>1 DEF IsDone, AwaitsCallback, HasEnded
<1>3. AwaitsCallback(j) => r.cancelSend
  BY <1>1
<1>. QED BY <1>1, <1>2, <1>3 DEF Event, GoodJob, Kept, r

\* frameSending(), of the frame that the job has to send.
LEMMA FrameIsSending ==
  ASSUME NEW j \in Job, NEW n \in Nat \ {0}, NEW g \in Nat, GoodJob(j, n, g), j.state = "SEND"
  PROVE  LET r == FrameSending(j, n)
         IN /\ r.job \in Job /\ r.transition = TRUE /\ r.cancelSend = FALSE
            /\ GoodJob(r.job, n, g) /\ AwaitsCallback(r.job) /\ ~IsDone(r.job)
            /\ r.job.frameIndex = j.frameIndex /\ r.job.error = j.error
            /\ ~IsDone(j) /\ NextFrame(j) = j.frameIndex /\ NextFrame(r.job) = j.frameIndex + 1
            /\ j.frameIndex < g /\ r.job.blockEnd = j.blockEnd /\ r.job.flow # "RECEIVED_WAIT"
<1>. DEFINE r == FrameSending(j, n)
<1>1. /\ MaySend(j, n) /\ j.blockEnd <= g /\ j.frameIndex \in Nat /\ j.blockEnd \in Nat
  BY DEF GoodJob, Starts, IsSending, AwaitsCallback, AwaitsFlowControl, HasEnded, IsDone, Job
<1>2. /\ j.timeout = "TX_CALLBACK" /\ j.frameIndex < j.blockEnd /\ j.frameIndex < n
  BY <1>1 DEF MaySend
<1>. DEFINE w == [j EXCEPT !.waitCount = 0]
            ends == j.frameIndex + 1 = j.blockEnd /\ j.frameIndex + 1 # n
<1>3. w \in Job /\ w.frameIndex = j.frameIndex /\ w.blockEnd = j.blockEnd /\ w.error = j.error
  BY DEF Job
<1>4. r = IF ends THEN SetState(w, "WAIT", "EXPECTED", "TX_CALLBACK")
          ELSE SetState(j, "WAIT", "UNEXPECTED", "TX_CALLBACK")
  BY DEF FrameSending
<1>. HIDE DEF w, r
<1>5. /\ r.job \in Job /\ r.transition = TRUE /\ r.cancelSend = FALSE
      /\ r.job.state = "WAIT" /\ r.job.timeout = "TX_CALLBACK" /\ r.job.error = j.error
      /\ r.job.frameIndex = j.frameIndex /\ r.job.blockEnd = j.blockEnd
      /\ r.job.flow = IF ends THEN "EXPECTED" ELSE "UNEXPECTED"
  <2>1. CASE ends
    <3>1. Changed(SetState(w, "WAIT", "EXPECTED", "TX_CALLBACK"), w, "WAIT", "EXPECTED",
                  "TX_CALLBACK")
      BY ONLY Names, <1>3, SetStateFacts
    <3>. QED BY <1>3, <1>4, <2>1, <3>1 DEF Changed
  <2>2. CASE ~ends
    <3>1. Changed(SetState(j, "WAIT", "UNEXPECTED", "TX_CALLBACK"), j, "WAIT", "UNEXPECTED",
                  "TX_CALLBACK")
      BY ONLY Names, j \in Job, SetStateFacts
    <3>. QED BY <1>4, <2>2, <3>1 DEF Changed
  <2>. QED BY <2>1, <2>2
<1>6. AwaitsCallback(r.job) /\ ~IsDone(r.job) /\ ~IsDone(j) /\ ~AwaitsCallback(j)
  BY <1>5 DEF AwaitsCallback, IsDone
<1>7. IsSending(r.job, n)
  <2>1. CASE ends
    <3>1. j.frameIndex + 1 = j.blockEnd /\ j.frameIndex + 1 < n
      BY <1>1, <1>2, <2>1
    <3>. HIDE DEF ends
    <3>. QED BY <1>2, <1>5, <1>6, <2>1, <3>1 DEF IsSending
  <2>2. CASE ~ends
    <3>1. j.frameIndex + 1 < j.blockEnd \/ j.frameIndex + 1 = n
      BY <1>1, <1>2, <2>2
    <3>. HIDE DEF ends
    <3>. QED BY <1>2, <1>5, <1>6, <2>2, <3>1 DEF IsSending
  <2>. QED BY <2>1, <2>2
<1>8. GoodJob(r.job, n, g)
  BY <1>1, <1>5, <1>7 DEF GoodJob
<1>9. NextFrame(j) = j.frameIndex /\ NextFrame(r.job) = j.frameIndex + 1 /\ j.frameIndex < g
  BY <1>1, <1>2, <1>5, <1>6 DEF NextFrame
<1>. QED BY <1>5, <1>6, <1>8, <1>9 DEF r

\* framesSent(), when the callback of the frame comes.
LEMMA FrameHasBeenSent ==
  ASSUME NEW j \in Job, NEW n \in Nat \ {0}, NEW g \in Nat, GoodJob(j, n, g), AwaitsCallback(j)
  PROVE  LET r == FramesSent(j, n)
         IN /\ r.job \in Job /\ r.transition = TRUE /\ r.cancelSend = FALSE
            /\ GoodJob(r.job, n, g) /\ ~AwaitsCallback(r.job) /\ ~IsDone(j) /\ Kept(j, r.job)
            /\ r.job.frameIndex = j.frameIndex + 1 /\ r.job.error = j.error
            /\ NextFrame(j) = j.frameIndex + 1 /\ r.job.blockEnd = j.blockEnd
            /\ r.job.flow = "RECEIVED_WAIT" => j.flow = "RECEIVED_WAIT"
<1>. DEFINE r == FramesSent(j, n)  next == [j EXCEPT !.frameIndex = @ + 1]  f == j.frameIndex
<1>1. /\ IsSending(j, n) /\ j.blockEnd <= g /\ ~IsDone(j)
      /\ j.state = "WAIT" /\ j.timeout = "TX_CALLBACK"
  BY DEF GoodJob, Starts, MaySend, AwaitsCallback, AwaitsFlowControl, HasEnded, IsDone
<1>2. /\ f \in Nat /\ j.blockEnd \in Nat /\ f + 1 \in Nat /\ j.flow \in Flows
  BY DEF Job
<1>3. /\ next \in Job /\ next.frameIndex = f + 1 /\ next.blockEnd = j.blockEnd
      /\ next.error = j.error
  BY <1>2 DEF Job
<1>4. r = IF next.frameIndex >= n THEN SetState(next, "SUCCESS", "UNEXPECTED", "NONE")
          ELSE IF j.flow = "RECEIVED_CTS" THEN SetSend(next)
          ELSE IF j.flow \in {"RECEIVED_WAIT", "EXPECTED"}
               THEN SetState(next, "WAIT", j.flow, "FLOW_CONTROL")
          ELSE IF j.separated THEN SetState(next, "WAIT", "UNEXPECTED", "SEPARATION_TIME")
          ELSE SetSend(next)
  BY <1>1 DEF FramesSent
<1>. HIDE DEF next, r
<1>5. /\ j.flow = "UNEXPECTED" => f + 1 < j.blockEnd \/ f + 1 = n
      /\ j.flow = "RECEIVED_CTS" => f + 1 < j.blockEnd /\ f + 1 < n
      /\ j.flow \in {"RECEIVED_WAIT", "EXPECTED"} => f + 1 = j.blockEnd /\ f + 1 < n
  BY <1>1 DEF IsSending
<1>. DEFINE Told == /\ r.job \in Job /\ r.transition = TRUE /\ r.cancelSend = FALSE
                    /\ r.job.frameIndex = f + 1 /\ r.job.blockEnd = j.blockEnd
                    /\ r.job.error = j.error
<1>6. CASE f + 1 >= n
  <2>1. /\ Told /\ r.job.state = "SUCCESS" /\ r.job.flow = "UNEXPECTED" /\ r.job.timeout = "NONE"
    <3>1. Changed(SetState(next, "SUCCESS", "UNEXPECTED", "NONE"), next, "SUCCESS", "UNEXPECTED",
                  "NONE")
      BY ONLY Names, <1>3, SetStateFacts
    <3>. QED BY <1>3, <1>4, <1>6, <3>1 DEF Changed
  <2>2. HasEnded(r.job) /\ IsDone(r.job) /\ ~AwaitsCallback(r.job)
    BY <2>1 DEF HasEnded, IsDone, AwaitsCallback
  <2>. QED BY <1>1, <1>2, <2>1, <2>2 DEF GoodJob, Kept, r, NextFrame
<1>7. CASE ~(f + 1 >= n) /\ j.flow \in {"RECEIVED_WAIT", "EXPECTED"}
  <2>1. /\ Told /\ r.job.state = "WAIT" /\ r.job.flow = j.flow /\ r.job.timeout = "FLOW_CONTROL"
    <3>1. Changed(SetState(next, "WAIT", j.flow, "FLOW_CONTROL"), next, "WAIT", j.flow,
                  "FLOW_CONTROL")
      BY ONLY Names, <1>2, <1>3, SetStateFacts
    <3>. QED BY <1>3, <1>4, <1>7, <3>1 DEF Changed
  <2>2. AwaitsFlowControl(r.job, n) /\ ~AwaitsCallback(r.job)
    <3>1. f + 1 = j.blockEnd /\ f + 1 < n /\ 0 < f + 1
      BY <1>2, <1>5, <1>7
    <3>. QED BY <1>7, <2>1, <3>1 DEF AwaitsFlowControl, AwaitsCallback
  <2>3. GoodJob(r.job, n, g)
    BY <1>1, <2>1, <2>2 DEF GoodJob
  <2>4. NextFrame(r.job) = f + 1 /\ NextFrame(j) = f + 1
    BY <1>2, <2>1, <2>2 DEF NextFrame
  <2>. QED BY <1>1, <2>1, <2>2, <2>3, <2>4 DEF Kept, r
<1>8. CASE ~(f + 1 >= n) /\ j.flow \notin {"RECEIVED_WAIT", "EXPECTED"}
  <2>1. \/ r = SetSend(next) \/ r = SetState(next, "WAIT", "UNEXPECTED", "SEPARATION_TIME")
    BY <1>3, <1>4, <1>8
  <2>2. /\ Told /\ r.job.flow = "UNEXPECTED"
        /\ \/ r.job.state = "SEND" /\ r.job.timeout = "TX_CALLBACK"
           \/ r.job.state = "WAIT" /\ r.job.timeout = "SEPARATION_TIME"
    <3>1. /\ Changed(SetState(next, "SEND", "UNEXPECTED", "TX_CALLBACK"), next, "SEND",
                      "UNEXPECTED", "TX_CALLBACK")
          /\ Changed(SetState(next, "WAIT", "UNEXPECTED", "SEPARATION_TIME"), next, "WAIT",
                      "UNEXPECTED", "SEPARATION_TIME")
      BY ONLY Names, <1>3, SetStateFacts
    <3>. QED BY <1>3, <2>1, <3>1 DEF SetSend, Changed
  <2>3. f + 1 < n /\ f + 1 < j.blockEnd
    BY <1>2, <1>5, <1>8 DEF Flows
  <2>4. MaySend(r.job, n) /\ ~AwaitsCallback(r.job)
    BY <2>2, <2>3 DEF MaySend, AwaitsCallback
  <2>5. GoodJob(r.job, n, g)
    BY <1>1, <2>2, <2>4 DEF GoodJob
  <2>6. NextFrame(r.job) = f + 1 /\ NextFrame(j) = f + 1
    BY <1>2, <2>2, <2>4 DEF NextFrame
  <2>. QED BY <1>1, <2>2, <2>4, <2>5, <2>6 DEF Kept, r
<1>. QED BY <1>6, <1>7, <1>8

\* An event that leaves a good job as it is.
LEMMA NothingHappens ==
  ASSUME NEW j \in Job, NEW n, NEW g, GoodJob(j, n, g)
  PROVE  Event(Result(j, FALSE), j, n, g)
<1>1. Result(j, FALSE).job = j /\ Result(j, FALSE).transition = FALSE
  BY DEF Result
<1>. QED BY <1>1 DEF Event, Kept

\* What has been granted stays granted.
LEMMA GoodJobGrows ==
  ASSUME NEW j \in Job, NEW n, NEW g \in Nat, NEW h \in Nat, g <= h, GoodJob(j, n, g)
  PROVE  GoodJob(j, n, h)
<1>1. j.blockEnd \in Nat
  BY DEF Job
<1>2. j.blockEnd <= g => j.blockEnd <= h
  BY <1>1
<1>. QED BY <1>2 DEF GoodJob

\* The job that expects flow control has sent what has been granted.
LEMMA Expects ==
  ASSUME NEW j \in Job, NEW n \in Nat \ {0}, NEW g \in Nat, GoodJob(j, n, g),
         j.flow = "EXPECTED" \/ j.flow = "RECEIVED_WAIT"
  PROVE  /\ ~IsDone(j) /\ j.state = "WAIT" /\ NextFrame(j) = j.blockEnd /\ j.blockEnd <= g
         /\ j.blockEnd < n /\ 0 < j.blockEnd
         /\ \/ j.timeout = "FLOW_CONTROL" /\ j.frameIndex = j.blockEnd /\ AwaitsFlowControl(j, n)
            \/ j.timeout = "TX_CALLBACK" /\ j.frameIndex + 1 = j.blockEnd /\ IsSending(j, n)
<1>1. j.frameIndex \in Nat /\ j.blockEnd \in Nat
  BY DEF Job
<1>2. (IsSending(j, n) \/ AwaitsFlowControl(j, n)) /\ j.blockEnd <= g
  BY DEF GoodJob, Starts, MaySend, HasEnded
<1>3. CASE IsSending(j, n)
  <2>1. /\ j.state = "WAIT" /\ j.timeout = "TX_CALLBACK" /\ AwaitsCallback(j)
        /\ j.frameIndex + 1 = j.blockEnd /\ j.frameIndex + 1 < n
    BY <1>3 DEF IsSending, AwaitsCallback
  <2>. QED BY <1>1, <1>2, <1>3, <2>1 DEF IsDone, NextFrame
<1>4. CASE AwaitsFlowControl(j, n)
  <2>1. /\ j.state = "WAIT" /\ j.timeout = "FLOW_CONTROL" /\ ~AwaitsCallback(j)
        /\ j.frameIndex = j.blockEnd /\ j.frameIndex < n /\ 0 < j.frameIndex
    BY <1>4 DEF AwaitsFlowControl, AwaitsCallback
  <2>. QED BY <1>1, <1>2, <1>4, <2>1 DEF IsDone, NextFrame
<1>. QED BY <1>2, <1>3, <1>4

\* A go-ahead for the job that expects it.
LEMMA HandlesCTS ==
  ASSUME NEW j \in Job, NEW n \in Nat \ {0}, NEW g \in Nat, GoodJob(j, n, g),
         j.flow = "EXPECTED", NextFrame(j) = g, NEW b \in Nat, NEW s \in BOOLEAN
  PROVE  LET r == HandleCTS(j, n, b, s)
             h == IF b > 0 THEN g + b ELSE n
         IN /\ Event(r, j, n, h) /\ r.job.blockEnd = h /\ r.job.error = j.error
            /\ r.job.flow # "RECEIVED_WAIT"
<1>. DEFINE r == HandleCTS(j, n, b, s)
            h == IF b > 0 THEN g + b ELSE n
            e == IF b > 0 THEN j.blockEnd + b ELSE n
            next == [j EXCEPT !.blockEnd = e, !.separated = s]
<1>1. /\ ~IsDone(j) /\ j.state = "WAIT" /\ j.blockEnd = g /\ j.blockEnd < n
      /\ \/ j.timeout = "FLOW_CONTROL" /\ j.frameIndex = j.blockEnd
         \/ j.timeout = "TX_CALLBACK" /\ j.frameIndex + 1 = j.blockEnd
  BY Expects
<1>2. j.frameIndex \in Nat /\ j.blockEnd \in Nat
  BY DEF Job
<1>3. h \in Nat /\ e = h /\ j.blockEnd < h
  BY <1>1, <1>2
<1>4. /\ next \in Job /\ next.frameIndex = j.frameIndex /\ next.blockEnd = e
      /\ next.error = j.error /\ next.state = j.state /\ next.timeout = j.timeout
      /\ next.consecutive = j.consecutive
  <2>1. e \in Nat
    BY <1>3
  <2>. HIDE DEF e
  <2>. QED BY <2>1 DEF Job
<1>5. r = IF j.timeout = "FLOW_CONTROL" THEN SetSend(next)
          ELSE Result([next EXCEPT !.flow = "RECEIVED_CTS"], FALSE)
  BY DEF HandleCTS
<1>. HIDE DEF next, r, h, e
<1>6. CASE j.timeout = "FLOW_CONTROL" /\ j.frameIndex = j.blockEnd
  <2>1. Changed(SetState(next, "SEND", "UNEXPECTED", "TX_CALLBACK"), next, "SEND", "UNEXPECTED",
                "TX_CALLBACK")
    BY ONLY Names, <1>4, SetStateFacts
  <2>2. /\ r.job \in Job /\ r.transition = TRUE /\ r.job.state = "SEND"
        /\ r.job.flow = "UNEXPECTED" /\ r.job.timeout = "TX_CALLBACK"
        /\ r.job.frameIndex = j.frameIndex /\ r.job.blockEnd = h /\ r.job.error = j.error
    BY <1>3, <1>4, <1>5, <1>6, <2>1 DEF Changed, SetSend
  <2>3. ~AwaitsCallback(r.job) /\ ~AwaitsCallback(j) /\ ~IsDone(r.job)
    BY <1>6, <2>2 DEF AwaitsCallback, IsDone
  <2>4. j.frameIndex < h /\ j.frameIndex < n
    BY <1>1, <1>2, <1>3, <1>6
  <2>5. MaySend(r.job, n)
    BY <2>2, <2>4 DEF MaySend
  <2>6. GoodJob(r.job, n, h) /\ Kept(j, r.job)
    BY <1>1, <1>3, <2>2, <2>3, <2>5 DEF GoodJob, Kept, NextFrame
  <2>. QED BY <2>2, <2>3, <2>6 DEF Event, r, h
<1>7. CASE j.timeout = "TX_CALLBACK" /\ j.frameIndex + 1 = j.blockEnd
  <2>. DEFINE k == [next EXCEPT !.flow = "RECEIVED_CTS"]
  <2>1. /\ k \in Job /\ k.frameIndex = j.frameIndex /\ k.blockEnd = h /\ k.error = j.error
        /\ k.state = "WAIT" /\ k.timeout = "TX_CALLBACK" /\ k.flow = "RECEIVED_CTS"
        /\ k.consecutive = j.consecutive
    BY <1>1, <1>3, <1>4, <1>7, Names DEF Job
  <2>2. r.job = k /\ r.transition = FALSE
    BY <1>5, <1>7 DEF Result
  <2>. HIDE DEF k
  <2>3. AwaitsCallback(k) /\ AwaitsCallback(j) /\ ~IsDone(k)
    BY <1>1, <1>7, <2>1 DEF AwaitsCallback, IsDone
  <2>4. k.frameIndex + 1 < h /\ k.frameIndex < h /\ k.frameIndex + 1 < n /\ k.frameIndex < n
    BY <1>1, <1>2, <1>3, <1>7, <2>1
  <2>5. IsSending(k, n)
    BY <2>1, <2>3, <2>4 DEF IsSending
  <2>6. GoodJob(k, n, h) /\ Kept(j, k)
    BY <1>1, <1>3, <2>1, <2>3, <2>5 DEF GoodJob, Kept, NextFrame
  <2>. QED BY <1>7, <2>1, <2>2, <2>3, <2>6 DEF Event, r, h
<1>. QED BY <1>1, <1>6, <1>7

\* A flow control frame that asks the job to wait.
LEMMA HandlesWait ==
  ASSUME NEW j \in Job, NEW n \in Nat \ {0}, NEW g \in Nat, GoodJob(j, n, g), j.flow = "EXPECTED"
  PROVE  Event(HandleWait(j), j, n, g)
<1>. DEFINE r == HandleWait(j)
            next == [j EXCEPT !.waitCount = @ + 1]
<1>1. /\ ~IsDone(j) /\ j.state = "WAIT" /\ j.blockEnd <= g
      /\ \/ j.timeout = "FLOW_CONTROL" /\ AwaitsFlowControl(j, n)
         \/ j.timeout = "TX_CALLBACK" /\ IsSending(j, n)
  BY Expects
<1>2. /\ next \in Job /\ next.frameIndex = j.frameIndex /\ next.blockEnd = j.blockEnd
      /\ next.state = j.state /\ next.timeout = j.timeout /\ next.consecutive = j.consecutive
      /\ next.error = j.error
  BY DEF Job
<1>3. CASE j.waitCount >= MaxWaitCount
  <2>1. r = SetFailed(j, "FLOW_CONTROL_WAIT_COUNT_EXCEEDED")
    BY <1>3 DEF HandleWait
  <2>2. "FLOW_CONTROL_WAIT_COUNT_EXCEEDED" \in Errors
    BY DEF Errors
  <2>3. Event(SetFailed(j, "FLOW_CONTROL_WAIT_COUNT_EXCEEDED"), j, n, g)
    BY ONLY <2>2, j \in Job, Failing
  <2>. QED BY <2>1, <2>3
<1>4. CASE ~(j.waitCount >= MaxWaitCount) /\ j.timeout = "FLOW_CONTROL"
  <2>1. r = SetState(next, "WAIT", "EXPECTED", "FLOW_CONTROL")
    BY <1>4 DEF HandleWait
  <2>. HIDE DEF next, r
  <2>2. Changed(SetState(next, "WAIT", "EXPECTED", "FLOW_CONTROL"), next, "WAIT", "EXPECTED",
                "FLOW_CONTROL")
    BY ONLY Names, <1>2, SetStateFacts
  <2>3. /\ r.job \in Job /\ r.transition = TRUE /\ r.job.state = "WAIT"
        /\ r.job.flow = "EXPECTED" /\ r.job.timeout = "FLOW_CONTROL"
        /\ r.job.frameIndex = j.frameIndex /\ r.job.blockEnd = j.blockEnd
    BY <1>2, <2>1, <2>2 DEF Changed
  <2>4. ~AwaitsCallback(r.job) /\ ~AwaitsCallback(j) /\ ~IsDone(r.job)
    BY <1>4, <2>3 DEF AwaitsCallback, IsDone
  <2>5. AwaitsFlowControl(r.job, n)
    BY <1>1, <1>4, <2>3 DEF AwaitsFlowControl
  <2>6. GoodJob(r.job, n, g) /\ Kept(j, r.job)
    BY <1>1, <2>3, <2>4, <2>5 DEF GoodJob, Kept, NextFrame
  <2>. QED BY <2>3, <2>4, <2>6 DEF Event, r
<1>5. CASE ~(j.waitCount >= MaxWaitCount) /\ j.timeout # "FLOW_CONTROL"
  <2>. DEFINE k == [next EXCEPT !.flow = "RECEIVED_WAIT"]
  <2>1. r = Result(k, FALSE)
    BY <1>5 DEF HandleWait
  <2>2. /\ k \in Job /\ k.frameIndex = j.frameIndex /\ k.blockEnd = j.blockEnd
        /\ k.state = "WAIT" /\ k.timeout = "TX_CALLBACK" /\ k.flow = "RECEIVED_WAIT"
        /\ k.consecutive = j.consecutive
    BY <1>1, <1>2, <1>5, Names DEF Job
  <2>. HIDE DEF k, r
  <2>3. r.job = k /\ r.transition = FALSE
    BY <2>1 DEF Result
  <2>4. AwaitsCallback(k) /\ AwaitsCallback(j) /\ ~IsDone(k)
    BY <1>1, <1>5, <2>2 DEF AwaitsCallback, IsDone
  <2>5. IsSending(k, n)
    BY <1>1, <1>5, <2>2, <2>4 DEF IsSending
  <2>6. GoodJob(k, n, g) /\ Kept(j, k)
    BY <1>1, <2>2, <2>4, <2>5 DEF GoodJob, Kept, NextFrame
  <2>. QED BY <1>1, <1>5, <2>2, <2>3, <2>4, <2>6 DEF Event, r
<1>. QED BY <1>3, <1>4, <1>5

\* More may have been granted than a result takes into account.
LEMMA EventGrows ==
  ASSUME NEW r, NEW j \in Job, NEW n, NEW g \in Nat, NEW h \in Nat, g <= h, Event(r, j, n, g)
  PROVE  Event(r, j, n, h)
<1>1. r.job \in Job /\ GoodJob(r.job, n, g)
  BY DEF Event
<1>2. GoodJob(r.job, n, h)
  BY ONLY <1>1, g \in Nat, h \in Nat, g <= h, GoodJobGrows
<1>. QED BY <1>2 DEF Event

\* handleFlowControl(): only the job that expects it takes notice.
LEMMA HandlesFlowControl ==
  ASSUME NEW j \in Job, NEW n \in Nat \ {0}, NEW g \in Nat, NEW h \in Nat, g <= h,
         GoodJob(j, n, g), NEW status \in {"CTS", "WAIT", "OVFLW", "INVALID"},
         NEW b \in Nat, NEW s \in BOOLEAN,
         j.flow = "EXPECTED" /\ status = "CTS" =>
           NextFrame(j) = g /\ h = IF b > 0 THEN g + b ELSE n
  PROVE  Event(HandleFlowControl(j, n, status, b, s), j, n, h)
<1>. DEFINE r == HandleFlowControl(j, n, status, b, s)
<1>1. GoodJob(j, n, h)
  BY GoodJobGrows
<1>2. CASE j.flow # "EXPECTED"
  <2>1. r = Result(j, FALSE)
    BY <1>2 DEF HandleFlowControl
  <2>2. Event(Result(j, FALSE), j, n, h)
    BY ONLY <1>1, j \in Job, NothingHappens
  <2>. QED BY <2>1, <2>2
<1>3. CASE j.flow = "EXPECTED" /\ status = "CTS"
  <2>1. r = HandleCTS(j, n, b, s)
    BY <1>3 DEF HandleFlowControl
  <2>2. NextFrame(j) = g /\ h = IF b > 0 THEN g + b ELSE n
    BY <1>3
  <2>3. Event(HandleCTS(j, n, b, s), j, n, IF b > 0 THEN g + b ELSE n)
    BY ONLY <1>3, <2>2, j \in Job, n \in Nat \ {0}, g \in Nat, GoodJob(j, n, g), b \in Nat,
            s \in BOOLEAN, HandlesCTS
  <2>. QED BY <2>1, <2>2, <2>3
<1>4. CASE j.flow = "EXPECTED" /\ status = "WAIT"
  <2>1. r = HandleWait(j)
    BY <1>4 DEF HandleFlowControl
  <2>2. Event(HandleWait(j), j, n, g)
    BY ONLY <1>4, j \in Job, n \in Nat \ {0}, g \in Nat, GoodJob(j, n, g), HandlesWait
  <2>3. Event(HandleWait(j), j, n, h)
    BY ONLY <2>2, j \in Job, g \in Nat, h \in Nat, g <= h, EventGrows
  <2>. QED BY <2>1, <2>3
<1>5. CASE j.flow = "EXPECTED" /\ status \in {"OVFLW", "INVALID"}
  <2>1. r = SetFailed(j, "FLOW_CONTROL_OVERFLOW") \/ r = SetFailed(j, "FLOW_CONTROL_INVALID")
    BY <1>5 DEF HandleFlowControl
  <2>2. "FLOW_CONTROL_OVERFLOW" \in Errors /\ "FLOW_CONTROL_INVALID" \in Errors
    BY DEF Errors
  <2>3. /\ Event(SetFailed(j, "FLOW_CONTROL_OVERFLOW"), j, n, h)
        /\ Event(SetFailed(j, "FLOW_CONTROL_INVALID"), j, n, h)
    BY ONLY <2>2, j \in Job, Failing
  <2>. QED BY <2>1, <2>3
<1>. QED BY <1>2, <1>3, <1>4, <1>5

\* The members of a job that the state machine looks at.
Same(j, k) == /\ k.state = j.state /\ k.timeout = j.timeout /\ k.flow = j.flow
              /\ k.frameIndex = j.frameIndex /\ k.blockEnd = j.blockEnd /\ k.error = j.error

\* The timer says nothing about the state.
LEMMA SameFacts ==
  ASSUME NEW j, NEW k, Same(j, k), NEW n, NEW g
  PROVE  /\ GoodJob(k, n, g) <=> GoodJob(j, n, g)
         /\ AwaitsCallback(k) <=> AwaitsCallback(j)
         /\ IsDone(k) <=> IsDone(j)
         /\ NextFrame(k) = NextFrame(j)
         /\ Starts(k) <=> Starts(j)
  BY DEF Same, GoodJob, AwaitsCallback, IsDone, NextFrame, Starts, MaySend, IsSending,
         AwaitsFlowControl, HasEnded

\* resetTimer().
LEMMA ResetTimerFacts ==
  ASSUME NEW j \in Job
  PROVE  /\ ResetTimer(j) \in Job /\ Same(j, ResetTimer(j))
         /\ ResetTimer(j).consecutive <=> ResetTimer(j).timeout = "SEPARATION_TIME"
         /\ ResetTimer(j).timerSet
         /\ j.timeout = "TX_CALLBACK" => ResetTimer(j).timer = TxTimeout
<1>. DEFINE t == CASE j.timeout = "TX_CALLBACK" -> TxTimeout
                   [] j.timeout = "FLOW_CONTROL" -> FcTimeout
                   [] j.timeout = "SEPARATION_TIME" -> SepTime
                   [] j.timeout = "NONE" -> 0
            c == j.timeout = "SEPARATION_TIME"
            k == [j EXCEPT !.timer = t, !.timerSet = TRUE, !.consecutive = c]
<1>1. ResetTimer(j) = k
  BY DEF ResetTimer
<1>2. t \in Int /\ c \in BOOLEAN /\ (j.timeout = "TX_CALLBACK" => t = TxTimeout)
  BY TransmitterAssumption DEF Job, TimeoutsOfJob
<1>. HIDE DEF t, c
<1>3. /\ k \in Job /\ k.timerSet = TRUE /\ k.timer = t /\ k.consecutive = c
      /\ k.state = j.state /\ k.timeout = j.timeout /\ k.flow = j.flow
      /\ k.frameIndex = j.frameIndex /\ k.blockEnd = j.blockEnd /\ k.error = j.error
  BY <1>2 DEF Job
<1>. HIDE DEF k
<1>. QED BY <1>1, <1>2, <1>3 DEF Same, c

\* expired(), of a job whose timer is no longer set.
LEMMA Expiring ==
  ASSUME NEW j \in Job, NEW n \in Nat \ {0}, NEW g \in Nat, GoodJob(j, n, g)
  PROVE  LET r == Expired([j EXCEPT !.timerSet = FALSE])
         IN /\ Event(r, j, n, g)
            /\ IsDone(j) => ~r.transition /\ r.job.state = j.state /\ r.job.error = j.error
            /\ ~IsDone(r.job) => /\ r.job.blockEnd = j.blockEnd /\ r.job.error = j.error
                                 /\ r.job.flow = "UNEXPECTED"
            /\ r.job.error = "FLOW_CONTROL_TIMEOUT_EXPIRED" /\ ~IsDone(j) =>
                 (AwaitsFlowControl(j, n) /\ j.blockEnd <= g) \/ r.job.error = j.error
<1>. DEFINE w == [j EXCEPT !.timerSet = FALSE]
            r == Expired(w)
<1>1. w \in Job /\ Same(j, w) /\ w.consecutive = j.consecutive /\ j.timeout \in TimeoutsOfJob
  BY DEF Job, Same
<1>. HIDE DEF w
<1>2. /\ GoodJob(w, n, g) <=> GoodJob(j, n, g)
      /\ AwaitsCallback(w) <=> AwaitsCallback(j)
      /\ IsDone(w) <=> IsDone(j)
      /\ NextFrame(w) = NextFrame(j)
  BY ONLY <1>1, SameFacts
<1>3. ASSUME NEW x, Event(x, w, n, g)
      PROVE  Event(x, j, n, g)
  BY <1>1, <1>2, <1>3 DEF Event, Kept, Same
<1>4. CASE j.timeout = "TX_CALLBACK" \/ j.timeout = "FLOW_CONTROL"
  <2>1. PICK e \in Errors : /\ r = SetFailed(w, e)
                            /\ e = "FLOW_CONTROL_TIMEOUT_EXPIRED" => j.timeout = "FLOW_CONTROL"
    <3>1. /\ "TX_CALLBACK_TIMEOUT_EXPIRED" \in Errors /\ "FLOW_CONTROL_TIMEOUT_EXPIRED" \in Errors
          /\ w.timeout = j.timeout
      BY <1>1 DEF Errors, Same
    <3>2. CASE j.timeout = "TX_CALLBACK"
      BY <3>1, <3>2 DEF Expired
    <3>3. CASE j.timeout = "FLOW_CONTROL"
      BY <3>1, <3>3 DEF Expired
    <3>. QED BY <1>4, <3>2, <3>3
  <2>. HIDE DEF r
  <2>2. Event(SetFailed(w, e), w, n, g) /\ IsDone(SetFailed(w, e).job)
        /\ SetFailed(w, e).job.error = e
    BY ONLY <1>1, e \in Errors, Failing
  <2>3. Event(r, j, n, g) /\ IsDone(r.job) /\ r.job.error = e
    BY <1>3, <2>1, <2>2
  <2>4. ~IsDone(j)
    BY <1>4 DEF GoodJob, IsDone, Starts, MaySend, IsSending, AwaitsCallback, AwaitsFlowControl,
                HasEnded
  <2>5. j.timeout = "FLOW_CONTROL" => AwaitsFlowControl(j, n) /\ j.blockEnd <= g
    BY DEF GoodJob, Starts, MaySend, IsSending, AwaitsCallback, HasEnded
  <2>. QED BY <2>1, <2>3, <2>4, <2>5 DEF r, w
<1>5. CASE j.timeout = "SEPARATION_TIME"
  <2>1. r = SetSend(w) /\ w.timeout = j.timeout
    BY <1>1, <1>5 DEF Expired, Same
  <2>. HIDE DEF r
  <2>2. Changed(SetState(w, "SEND", "UNEXPECTED", "TX_CALLBACK"), w, "SEND", "UNEXPECTED",
                "TX_CALLBACK")
    BY ONLY Names, <1>1, SetStateFacts
  <2>3. /\ r.job \in Job /\ r.transition = TRUE /\ r.job.state = "SEND"
        /\ r.job.flow = "UNEXPECTED" /\ r.job.timeout = "TX_CALLBACK"
        /\ r.job.frameIndex = j.frameIndex /\ r.job.blockEnd = j.blockEnd
        /\ r.job.error = j.error
    BY <1>1, <2>1, <2>2 DEF Changed, SetSend, Same
  <2>4. MaySend(j, n) /\ j.blockEnd <= g
    BY <1>5 DEF GoodJob, Starts, IsSending, AwaitsCallback, AwaitsFlowControl, HasEnded
  <2>5. ~AwaitsCallback(r.job) /\ ~AwaitsCallback(j) /\ ~IsDone(r.job) /\ ~IsDone(j)
    BY <1>5, <2>3, <2>4 DEF AwaitsCallback, IsDone, MaySend
  <2>6. GoodJob(r.job, n, g) /\ Kept(j, r.job)
    BY <2>3, <2>4, <2>5 DEF GoodJob, MaySend, Kept, NextFrame
  <2>7. Event(r, j, n, g)
    BY <2>3, <2>5, <2>6 DEF Event
  <2>. QED BY <2>3, <2>5, <2>7 DEF r, w
<1>6. CASE j.timeout = "NONE"
  <2>1. r = Result(w, FALSE)
    BY <1>1, <1>6 DEF Expired, Same
  <2>. HIDE DEF r
  <2>2. r.job = w /\ r.transition = FALSE
    BY <2>1 DEF Result
  <2>3. Event(Result(w, FALSE), w, n, g)
    BY ONLY <1>1, <1>2, GoodJob(j, n, g), NothingHappens
  <2>4. Event(r, j, n, g)
    BY <1>3, <2>1, <2>3
  <2>5. ~IsDone(j) => j.flow = "UNEXPECTED"
    BY <1>6 DEF GoodJob, Starts, MaySend, IsSending, AwaitsCallback, AwaitsFlowControl, HasEnded
  <2>. QED BY <1>1, <1>2, <2>2, <2>4, <2>5 DEF r, w, Same
<1>. QED BY <1>1, <1>4, <1>5, <1>6 DEF TimeoutsOfJob

-------------------------------------------------------------------------------
\* Counting.

\* Sets that differ in Y and X only.
LEMMA CountMoves ==
  ASSUME NEW A, NEW B, IsFiniteSet(A), IsFiniteSet(B), NEW X \in SUBSET B, NEW Y \in SUBSET A,
         A \ Y = B \ X
  PROVE  /\ Cardinality(B) = Cardinality(A) + Cardinality(X) - Cardinality(Y)
         /\ Cardinality(A) \in Nat /\ Cardinality(B) \in Nat
         /\ Cardinality(X) \in Nat /\ Cardinality(Y) \in Nat
<1>1. Cardinality(A \ Y) = Cardinality(A) - Cardinality(A \cap Y)
  BY ONLY IsFiniteSet(A), FS_Difference
<1>2. Cardinality(B \ X) = Cardinality(B) - Cardinality(B \cap X)
  BY ONLY IsFiniteSet(B), FS_Difference
<1>3. A \cap Y = Y /\ B \cap X = X
  OBVIOUS
<1>4. IsFiniteSet(X) /\ IsFiniteSet(Y)
  BY FS_Subset
<1>5. /\ Cardinality(A) \in Nat /\ Cardinality(B) \in Nat
      /\ Cardinality(X) \in Nat /\ Cardinality(Y) \in Nat
  BY <1>4, FS_CardinalityType
<1>6. Cardinality(A) - Cardinality(Y) = Cardinality(B) - Cardinality(X)
  BY ONLY <1>1, <1>2, <1>3, A \ Y = B \ X
<1>. QED BY ONLY <1>5, <1>6

\* The list is finite.
LEMMA LiveFinite ==
  ASSUME TypeOK
  PROVE  IsFiniteSet(Live) /\ Live \subseteq Messages
<1>1. list \in Seq(Messages)
  BY DEF TypeOK
<1>2. DOMAIN list = 1 .. Len(list) /\ Len(list) \in Nat /\ \A i \in 1 .. Len(list) : list[i] \in Messages
  BY <1>1
<1>3. Live = {list[i] : i \in 1 .. Len(list)}
  BY <1>2 DEF Live, ToSet
<1>4. IsFiniteSet(1 .. Len(list))
  BY <1>2, FS_Interval
<1>. DEFINE f == [i \in 1 .. Len(list) |-> list[i]]
<1>5. f \in Surjection(1 .. Len(list), Live)
  BY <1>3 DEF Surjection
<1>. HIDE DEF f
<1>6. IsFiniteSet(Live)
  BY <1>4, <1>5, FS_Surjection
<1>. QED BY <1>2, <1>3, <1>6

\* Who waits for the separation time is in the list.
LEMMA SendingAreLive ==
  ASSUME TypeOK, JobsInv, ListInv
  PROVE  {m \in Messages : job[m].timeout = "SEPARATION_TIME"} \subseteq Live
<1>. SUFFICES ASSUME NEW m \in Messages, job[m].timeout = "SEPARATION_TIME", m \notin Live
              PROVE  FALSE
  OBVIOUS
<1>1. Starts(job[m]) \/ IsDone(job[m])
  BY DEF ListInv
<1>2. GoodJob(job[m], FrameCount[m], granted[m])
  BY DEF JobsInv
<1>. QED BY <1>1, <1>2 DEF GoodJob, Starts, IsDone, MaySend, IsSending, AwaitsCallback,
                           AwaitsFlowControl, HasEnded
-------------------------------------------------------------------------------
\* handleResult().

\* A result of messages of the list, whose timer is restarted after a transition.
IsResult(r, j) ==
  /\ r.job \in Job /\ r.transition \in BOOLEAN
  /\ ~r.transition => r.job.timeout = j.timeout /\ r.job.consecutive = j.consecutive

AreResults(R) == /\ DOMAIN R \subseteq Live
                 /\ \A m \in DOMAIN R : IsResult(R[m], job[m])

\* What handleResult() makes of the jobs.
LEMMA HandledJobs ==
  ASSUME TypeOK, JobsInv, NEW R, NEW p \in BOOLEAN, NEW s \in BOOLEAN, HandleResults(R, p, s),
         AreResults(R)
  PROVE  /\ job' \in [Messages -> Job]
         /\ \A m \in DOMAIN R : Same(R[m].job, job'[m])
         /\ \A m \in DOMAIN R : R[m].transition => job'[m] = ResetTimer(R[m].job)
         /\ \A m \in Messages \ DOMAIN R : job'[m] = job[m]
         /\ \A m \in Messages : job'[m].consecutive <=> job'[m].timeout = "SEPARATION_TIME"
<1>1. job \in [Messages -> Job] /\ DOMAIN R \subseteq Messages
  BY LiveFinite DEF TypeOK, AreResults
<1>. DEFINE C == {m \in DOMAIN R : R[m].transition}
<1>2. job' = [m \in Messages |-> IF m \in C THEN ResetTimer(R[m].job)
                                 ELSE IF m \in DOMAIN R THEN R[m].job ELSE job[m]]
  BY DEF HandleResults
<1>3. ASSUME NEW m \in Messages
      PROVE  /\ job'[m] \in Job
             /\ m \in DOMAIN R => Same(R[m].job, job'[m])
             /\ m \in DOMAIN R /\ R[m].transition => job'[m] = ResetTimer(R[m].job)
             /\ m \notin DOMAIN R => job'[m] = job[m]
             /\ job'[m].consecutive <=> job'[m].timeout = "SEPARATION_TIME"
  <2>1. CASE m \in C
    <3>1. R[m].job \in Job /\ job'[m] = ResetTimer(R[m].job)
      BY <1>2, <2>1 DEF AreResults, IsResult
    <3>2. /\ ResetTimer(R[m].job) \in Job /\ Same(R[m].job, ResetTimer(R[m].job))
          /\ ResetTimer(R[m].job).consecutive <=> ResetTimer(R[m].job).timeout = "SEPARATION_TIME"
      BY ONLY <3>1, ResetTimerFacts
    <3>. QED BY <2>1, <3>1, <3>2
  <2>2. CASE m \in DOMAIN R /\ m \notin C
    <3>1. R[m].job \in Job /\ job'[m] = R[m].job /\ ~R[m].transition
      BY <1>2, <2>2 DEF AreResults, IsResult
    <3>2. R[m].job.timeout = job[m].timeout /\ R[m].job.consecutive = job[m].consecutive
      BY <2>2, <3>1 DEF AreResults, IsResult
    <3>3. job[m].consecutive <=> job[m].timeout = "SEPARATION_TIME"
      BY DEF JobsInv
    <3>. QED BY <2>2, <3>1, <3>2, <3>3 DEF Same
  <2>3. CASE m \notin DOMAIN R
    <3>1. job'[m] = job[m]
      BY <1>2, <2>3
    <3>. QED BY <1>1, <2>3, <3>1 DEF JobsInv
  <2>. QED BY <2>1, <2>2, <2>3
<1>4. job' \in [Messages -> Job]
  BY <1>2, <1>3
<1>. QED BY <1>1, <1>3, <1>4

\* resetTimer() counts the transmitters that wait for the separation time.
LEMMA HandledSending ==
  ASSUME TypeOK, JobsInv, ListInv, SendingCountIsExact, NEW R, NEW p \in BOOLEAN,
         NEW s \in BOOLEAN, HandleResults(R, p, s), AreResults(R), list' = list
  PROVE  sendingCount' \in Nat /\ SendingCountIsExact'
<1>. DEFINE C == {m \in DOMAIN R : R[m].transition}
            A == {m \in Messages : job[m].timeout = "SEPARATION_TIME"}
            B == {m \in Messages : job'[m].timeout = "SEPARATION_TIME"}
            X == {m \in C : job'[m].consecutive}
            Y == {m \in C : job[m].consecutive}
<1>1. /\ job' \in [Messages -> Job]
      /\ \A m \in DOMAIN R : Same(R[m].job, job'[m])
      /\ \A m \in Messages \ DOMAIN R : job'[m] = job[m]
      /\ \A m \in Messages : job'[m].consecutive <=> job'[m].timeout = "SEPARATION_TIME"
  BY HandledJobs
<1>2. DOMAIN R \subseteq Messages /\ Live \subseteq Messages /\ IsFiniteSet(Live)
      /\ DOMAIN R \subseteq Live
  BY LiveFinite DEF AreResults
<1>3. X = B \cap C /\ Y = A \cap C
  <2>1. \A m \in Messages : job[m].consecutive <=> job[m].timeout = "SEPARATION_TIME"
    BY DEF JobsInv
  <2>. QED BY <1>1, <1>2, <2>1
<1>4. ASSUME NEW m \in Messages, m \notin C
      PROVE  m \in A <=> m \in B
  <2>1. CASE m \in DOMAIN R
    <3>1. ~R[m].transition
      BY <1>4, <2>1 DEF AreResults, IsResult
    <3>2. job'[m].timeout = job[m].timeout
      BY <1>1, <2>1, <3>1 DEF AreResults, IsResult, Same
    <3>. QED BY <3>2
  <2>2. CASE m \notin DOMAIN R
    BY <1>1, <2>2
  <2>. QED BY <2>1, <2>2
<1>5. A \ Y = B \ X
  BY <1>3, <1>4
<1>6. A \subseteq Live
  BY SendingAreLive
<1>7. B \subseteq Live
  BY <1>2, <1>4, <1>6
<1>8. IsFiniteSet(A) /\ IsFiniteSet(B)
  BY <1>2, <1>6, <1>7, FS_Subset
<1>9. X \in SUBSET B /\ Y \in SUBSET A
  BY <1>3
<1>10. sendingCount' = sendingCount + Cardinality(X) - Cardinality(Y)
  BY DEF HandleResults, CountSending
<1>11. sendingCount = Cardinality(A)
  BY DEF SendingCountIsExact
<1>12. SendingCountIsExact' <=> sendingCount' = Cardinality(B)
  BY DEF SendingCountIsExact
<1>. HIDE DEF A, B, C, X, Y
<1>13. /\ Cardinality(B) = Cardinality(A) + Cardinality(X) - Cardinality(Y)
       /\ Cardinality(B) \in Nat
  BY ONLY <1>5, <1>8, <1>9, CountMoves
<1>. QED BY ONLY <1>10, <1>11, <1>12, <1>13

\* releaseMessageTransmitter() counts the finished transmitters, a finished one once more.
LEMMA HandledReleased ==
  ASSUME TypeOK, JobsInv, CountInv, NEW R, NEW p \in BOOLEAN, NEW s \in BOOLEAN,
         HandleResults(R, p, s), AreResults(R), list' = list,
         \A m \in DOMAIN R : IsDone(job[m]) => IsDone(R[m].job),
         \A m \in DOMAIN R : IsDone(R[m].job) => R[m].transition \/ IsDone(job[m])
  PROVE  /\ releasedCount' \in Nat
         /\ Cardinality({m \in Live : Released(m)})' <= releasedCount'
         /\ ReleasedCountIsExact /\ (\A m \in DOMAIN R : R[m].transition => ~IsDone(job[m])) =>
              ReleasedCountIsExact'
<1>. DEFINE N == {m \in DOMAIN R : R[m].transition /\ IsDone(R[m].job)}
            A == {m \in Live : IsDone(job[m])}
            B == {m \in Live : IsDone(job'[m])}
<1>1. /\ \A m \in DOMAIN R : Same(R[m].job, job'[m])
      /\ \A m \in Messages \ DOMAIN R : job'[m] = job[m]
  BY HandledJobs
<1>2. DOMAIN R \subseteq Live /\ Live \subseteq Messages /\ IsFiniteSet(Live)
  BY LiveFinite DEF AreResults
<1>3. \A m \in DOMAIN R : IsDone(job'[m]) <=> IsDone(R[m].job)
  BY <1>1 DEF Same, IsDone
<1>4. B = A \cup N
  BY <1>1, <1>2, <1>3
<1>5. IsFiniteSet(A) /\ IsFiniteSet(N) /\ IsFiniteSet(B)
  BY <1>2, FS_Subset
<1>6. releasedCount' = releasedCount + Cardinality(N)
  <2>. DEFINE C == {m \in DOMAIN R : R[m].transition}
  <2>1. releasedCount' = releasedCount + Cardinality({m \in C : IsDone(R[m].job)})
    BY DEF HandleResults
  <2>2. {m \in C : IsDone(R[m].job)} = N
    OBVIOUS
  <2>. QED BY <2>1, <2>2
<1>7. Live' = Live
  BY DEF Live
<1>8. {m \in Live : Released(m)} = A /\ {m \in Live : Released(m)}' = B
  BY <1>7 DEF Released
<1>9. Cardinality(A) <= releasedCount /\ releasedCount \in Nat
  BY <1>8 DEF CountInv, TypeOK
<1>10. (\A m \in DOMAIN R : R[m].transition => ~IsDone(job[m])) => A \cap N = {}
  OBVIOUS
<1>11. /\ ReleasedCountIsExact <=> releasedCount = Cardinality(A)
       /\ ReleasedCountIsExact' <=> releasedCount' = Cardinality(B)
  BY <1>8 DEF ReleasedCountIsExact
<1>. HIDE DEF A, B, N
<1>12. IsFiniteSet(A \cap N)
  BY <1>5, FS_Subset
<1>13. /\ Cardinality(B) = Cardinality(A) + Cardinality(N) - Cardinality(A \cap N)
  BY ONLY <1>4, <1>5, FS_Union
<1>14. /\ Cardinality(A) \in Nat /\ Cardinality(N) \in Nat /\ Cardinality(A \cap N) \in Nat
       /\ Cardinality({}) = 0 
  BY <1>5, <1>12, FS_CardinalityType, FS_EmptySet
<1>15. releasedCount' \in Nat /\ Cardinality(B) <= releasedCount'
  BY ONLY <1>6, <1>9, <1>13, <1>14
<1>16. releasedCount = Cardinality(A) /\ A \cap N = {} => releasedCount' = Cardinality(B)
  BY ONLY <1>6, <1>9, <1>13, <1>14
<1>. QED BY ONLY <1>8, <1>10, <1>11, <1>15, <1>16

-------------------------------------------------------------------------------
\* What every step has to show.

\* The handlers leave the frames alone, and the grants only grow.
LEMMA KeptFrames ==
  ASSUME TypeOK, FramesInv, UNCHANGED <<hw, hwSent, got>>, granted' \in [Messages -> Nat],
         \A m \in Messages : granted[m] <= granted'[m],
         \A m \in Messages : Kept(job[m], job'[m])
  PROVE  FramesInv'
<1>1. Unsent' = Unsent /\ hw' = hw /\ hwSent' = hwSent /\ got' = got
  BY DEF Unsent
<1>2. hwSent => hw # <<>> /\ Head(hw).index = got[Head(hw).message] - 1
  BY DEF FramesInv
<1>3. ASSUME NEW m \in Messages
      PROVE  1 <= granted'[m] /\ \E hi \in Nat : FramesOf(m, hi)'
  <2>1. granted[m] \in Nat /\ granted'[m] \in Nat /\ granted[m] <= granted'[m]
    BY DEF TypeOK
  <2>2. PICK hi \in Nat : 1 <= granted[m] /\ FramesOf(m, hi)
    BY DEF FramesInv
  <2>3. Kept(job[m], job'[m])
    OBVIOUS
  <2>4. hi <= granted'[m] /\ 1 <= granted'[m]
    BY <2>1, <2>2 DEF FramesOf
  <2>5. FramesOf(m, hi)'
    BY <1>1, <2>2, <2>3, <2>4 DEF FramesOf, Kept
  <2>. QED BY <2>4, <2>5
<1>. QED BY <1>1, <1>2, <1>3 DEF FramesInv

\* A message that has ended stays ended, one that is not in the list stays as it is.
LEMMA KeptList ==
  ASSUME ListInv, AddressInv, UNCHANGED <<list, accepted>>, Live \subseteq Messages,
         \A m \in Messages : IsDone(job[m]) => IsDone(job'[m]),
         \A m \in Messages \ Live : job'[m] = job[m]
  PROVE  ListInv' /\ AddressInv'
<1>1. Live' = Live
  BY DEF Live
<1>2. ListInv'
  <2>1. ASSUME NEW m \in Messages, m \notin accepted
        PROVE  Starts(job'[m])
    <3>1. m \notin Live /\ Starts(job[m])
      BY <2>1 DEF ListInv
    <3>. QED BY <3>1
  <2>. QED BY <1>1, <2>1 DEF ListInv
<1>3. AddressInv'
  BY <1>1 DEF AddressInv, Released
<1>. QED BY <1>2, <1>3

\* The variables that a handler sets on its own account.
HandlerTypes == /\ handler' \in [name : Handlers, step : {"none", "send", "remove", "notify", "sort"},
                                 switch : BOOLEAN]
                /\ enqueued' \in BOOLEAN /\ open' \in BOOLEAN
                /\ sendIt' \in Live \cup {End}

\* A result leaves an ended job as it is.
Spared(R) == \A m \in DOMAIN R : IsDone(job[m]) => /\ ~R[m].transition
                                                   /\ R[m].job.state = job[m].state
                                                   /\ R[m].job.error = job[m].error

\* A transmission ends once, and is counted once.
EndsOnce == /\ \A m \in Messages : IsDone(job[m]) => /\ job'[m].state = job[m].state
                                                    /\ job'[m].error = job[m].error
            /\ ReleasedCountIsExact => ReleasedCountIsExact'

\* handleResult() of events.
LEMMA HandledEvents ==
  ASSUME TransmitterInv, NEW R, HandleResults(R, pendingSend, sendPending), DOMAIN R \subseteq Live,
         \A m \in DOMAIN R : Event(R[m], job[m], FrameCount[m], granted'[m]),
         granted' \in [Messages -> Nat], \A m \in Messages : granted[m] <= granted'[m],
         HandlerTypes,
         UNCHANGED <<list, removed, overrun, sendJob, hw, hwSent, got, accepted, processed>>
  PROVE  TransmitterInv' /\ (Spared(R) => EndsOnce)
<1>1. /\ TypeOK /\ JobsInv /\ ListInv /\ AddressInv /\ SendInv /\ FramesInv /\ CountInv
      /\ Live \subseteq Messages /\ Live' = Live /\ SendingCountIsExact
  BY LiveFinite DEF TransmitterInv, Live, CountInv
<1>2. pendingSend \in BOOLEAN /\ sendPending \in BOOLEAN /\ job \in [Messages -> Job]
  BY <1>1 DEF TypeOK
<1>3. AreResults(R)
  <2>1. ASSUME NEW m \in DOMAIN R PROVE IsResult(R[m], job[m])
    <3>1. Event(R[m], job[m], FrameCount[m], granted'[m])
      OBVIOUS
    <3>. QED BY ONLY <3>1 DEF IsResult, Event
  <2>. QED BY <2>1 DEF AreResults
<1>4. /\ job' \in [Messages -> Job]
      /\ \A m \in DOMAIN R : Same(R[m].job, job'[m])
      /\ \A m \in Messages \ DOMAIN R : job'[m] = job[m]
      /\ \A m \in Messages : job'[m].consecutive <=> job'[m].timeout = "SEPARATION_TIME"
  BY <1>1, <1>2, <1>3, HandledJobs
<1>5. ASSUME NEW m \in Messages
      PROVE  /\ GoodJob(job'[m], FrameCount[m], granted'[m]) /\ Kept(job[m], job'[m])
             /\ AwaitsCallback(job'[m]) => AwaitsCallback(job[m])
             /\ AwaitsCallback(job[m]) => \/ AwaitsCallback(job'[m])
                                          \/ /\ m \in DOMAIN R /\ R[m].transition /\ R[m].cancelSend
                                             /\ IsDone(R[m].job)
             /\ m \in DOMAIN R => (IsDone(job'[m]) <=> IsDone(R[m].job))
  <2>1. CASE m \in DOMAIN R
    <3>1. Event(R[m], job[m], FrameCount[m], granted'[m]) /\ Same(R[m].job, job'[m])
      BY <1>4, <2>1
    <3>2. /\ GoodJob(job'[m], FrameCount[m], granted'[m]) <=>
               GoodJob(R[m].job, FrameCount[m], granted'[m])
          /\ AwaitsCallback(job'[m]) <=> AwaitsCallback(R[m].job)
          /\ IsDone(job'[m]) <=> IsDone(R[m].job)
          /\ NextFrame(job'[m]) = NextFrame(R[m].job)
      BY ONLY <3>1, SameFacts
    <3>. QED BY <2>1, <3>1, <3>2 DEF Event, Kept
  <2>2. CASE m \notin DOMAIN R
    <3>1. job'[m] = job[m]
      BY <1>4, <2>2
    <3>2. GoodJob(job[m], FrameCount[m], granted[m])
      BY <1>1 DEF JobsInv
    <3>3. job[m] \in Job /\ granted[m] \in Nat /\ granted'[m] \in Nat /\ granted[m] <= granted'[m]
      BY <1>1 DEF TypeOK
    <3>4. GoodJob(job[m], FrameCount[m], granted'[m])
      BY ONLY <3>2, <3>3, GoodJobGrows
    <3>. QED BY <2>2, <3>1, <3>4 DEF Kept
  <2>. QED BY <2>1, <2>2
<1>6. JobsInv'
  BY <1>4, <1>5 DEF JobsInv
<1>7. ListInv' /\ AddressInv'
  <2>1. \A m \in Messages : IsDone(job[m]) => IsDone(job'[m])
    BY <1>5 DEF Kept
  <2>2. \A m \in Messages \ Live : job'[m] = job[m]
    BY <1>4
  <2>. QED BY <1>1, <2>1, <2>2, KeptList
<1>8. SendInv'
  <2>. DEFINE aborted == {m \in DOMAIN R : R[m].transition /\ IsDone(R[m].job) /\ R[m].cancelSend}
  <2>1. /\ pendingSend' = (pendingSend /\ aborted = {})
        /\ sendPending' = (sendPending /\ sendJob \notin aborted)
    <3>. DEFINE C == {m \in DOMAIN R : R[m].transition}
                N == {m \in C : IsDone(R[m].job)}
    <3>1. aborted = {m \in N : R[m].cancelSend}
      OBVIOUS
    <3>. QED BY <3>1 DEF HandleResults
  <2>2. /\ pendingSend => sendPending
        /\ sendPending => hw # <<>> /\ sendJob \in Live
        /\ \A m \in Messages : AwaitsCallback(job[m]) <=> sendPending /\ m = sendJob
    BY <1>1 DEF SendInv
  <2>3. ASSUME NEW m \in Messages
        PROVE  AwaitsCallback(job'[m]) <=> sendPending' /\ m = sendJob
    <3>1. m \in aborted => ~AwaitsCallback(job'[m])
      BY <1>5 DEF AwaitsCallback, IsDone
    <3>. HIDE DEF aborted
    <3>2. AwaitsCallback(job[m]) => AwaitsCallback(job'[m]) \/ m \in aborted
      BY <1>5 DEF aborted
    <3>. QED BY <1>5, <2>1, <2>2, <3>1, <3>2
  <2>. HIDE DEF aborted
  <2>4. pendingSend' => sendPending'
    BY <2>1, <2>2
  <2>5. sendPending' => hw' # <<>> /\ sendJob' \in Live'
    BY <1>1, <2>1, <2>2
  <2>6. \A m \in Messages : AwaitsCallback(job'[m]) <=> sendPending' /\ m = sendJob'
    BY <2>3
  <2>. QED BY <2>4, <2>5, <2>6 DEF SendInv
<1>9. FramesInv'
  <2>1. \A m \in Messages : Kept(job[m], job'[m])
    BY <1>5
  <2>. QED BY <1>1, <2>1, KeptFrames
<1>10. sendingCount' \in Nat /\ SendingCountIsExact'
  BY <1>1, <1>2, <1>3, HandledSending
<1>11. /\ releasedCount' \in Nat
       /\ Cardinality({m \in Live : Released(m)})' <= releasedCount'
       /\ ReleasedCountIsExact /\ (\A m \in DOMAIN R : R[m].transition => ~IsDone(job[m])) =>
            ReleasedCountIsExact'
  <2>1. \A m \in DOMAIN R : /\ IsDone(job[m]) => IsDone(R[m].job)
                            /\ IsDone(R[m].job) => R[m].transition \/ IsDone(job[m])
    <3>1. ASSUME NEW m \in DOMAIN R
          PROVE  /\ IsDone(job[m]) => IsDone(R[m].job)
                 /\ IsDone(R[m].job) => R[m].transition \/ IsDone(job[m])
      <4>1. Event(R[m], job[m], FrameCount[m], granted'[m])
        OBVIOUS
      <4>. QED BY ONLY <4>1 DEF Event, Kept
    <3>. QED BY <3>1
  <2>. QED BY <1>1, <1>2, <1>3, <2>1, HandledReleased
<1>12. TypeOK'
  <2>1. /\ pendingSend' \in BOOLEAN /\ switchContext' \in BOOLEAN /\ timersUpdated' \in BOOLEAN
        /\ sendPending' \in BOOLEAN
    BY DEF HandleResults
  <2>2. sendIt' \in Messages \cup {End} /\ open' \in BOOLEAN /\ enqueued' \in BOOLEAN
    BY <1>1 DEF HandlerTypes
  <2>3. handler' \in [name : Handlers, step : {"none", "send", "remove", "notify", "sort"},
                      switch : BOOLEAN]
    BY DEF HandlerTypes
  <2>. QED BY <1>1, <1>4, <1>10, <1>11, <2>1, <2>2, <2>3 DEF TypeOK
<1>13. CountInv' /\ IteratorValid'
  BY <1>1, <1>10, <1>11 DEF CountInv, IteratorValid, HandlerTypes
<1>14. Spared(R) => EndsOnce
  <2>. SUFFICES ASSUME Spared(R) PROVE EndsOnce
    OBVIOUS
  <2>1. \A m \in DOMAIN R : R[m].transition => ~IsDone(job[m])
    BY DEF Spared
  <2>2. ASSUME NEW m \in Messages, IsDone(job[m])
        PROVE  job'[m].state = job[m].state /\ job'[m].error = job[m].error
    <3>1. CASE m \in DOMAIN R
      BY <1>4, <2>2, <3>1 DEF Spared, Same
    <3>2. CASE m \notin DOMAIN R
      BY <1>4, <3>2
    <3>. QED BY <3>1, <3>2
  <2>. QED BY <1>11, <2>1, <2>2 DEF EndsOnce
<1>. QED BY <1>6, <1>7, <1>8, <1>9, <1>12, <1>13, <1>14 DEF TransmitterInv

-------------------------------------------------------------------------------
\* The handlers.

\* Begin().
LEMMA BeginTypes ==
  ASSUME NEW name \in Handlers, Begin(name), TransmitterInv, sendIt' = sendIt,
         enqueued' \in BOOLEAN, open' \in BOOLEAN
  PROVE  HandlerTypes
<1>1. handler' = [name |-> name, step |-> "send", switch |-> FALSE]
  BY DEF Begin
<1>2. sendIt' \in Live \cup {End}
  BY DEF TransmitterInv, IteratorValid
<1>. QED BY <1>1, <1>2 DEF HandlerTypes

\* What the invariant says of a message of the list.
LEMMA LiveJob ==
  ASSUME TransmitterInv, NEW m \in Live
  PROVE  /\ m \in Messages /\ job[m] \in Job /\ FrameCount[m] \in Nat \ {0} /\ granted[m] \in Nat
         /\ GoodJob(job[m], FrameCount[m], granted[m])
<1>1. TypeOK /\ JobsInv
  BY DEF TransmitterInv
<1>2. m \in Messages
  BY <1>1, LiveFinite
<1>. QED BY <1>1, <1>2, TransmitterAssumption DEF TypeOK, JobsInv

\* Nothing is granted by a step that leaves the grants alone.
LEMMA SameGrants ==
  ASSUME TransmitterInv, granted' = granted
  PROVE  granted' \in [Messages -> Nat] /\ \A m \in Messages : granted[m] <= granted'[m]
<1>1. granted \in [Messages -> Nat]
  BY DEF TransmitterInv, TypeOK
<1>. QED BY <1>1

\* processMessageTransmitters().
LEMMA ProcessStep ==
  ASSUME TransmitterInv, ProcessMessageTransmitters
  PROVE  TransmitterInv' /\ EndsOnce
<1>. DEFINE S == {n \in Live : job[n].state = "INITIALIZED"}
            R == [m \in S |-> SetSend(job[m])]
<1>1. HandleResults(R, pendingSend, sendPending) /\ DOMAIN R \subseteq Live
  BY DEF ProcessMessageTransmitters
<1>2. ASSUME NEW m \in DOMAIN R PROVE Event(R[m], job[m], FrameCount[m], granted'[m])
  <2>1. m \in Live /\ job[m].state = "INITIALIZED" /\ R[m] = SetSend(job[m]) /\ granted' = granted
    BY <1>2 DEF ProcessMessageTransmitters
  <2>2. /\ job[m] \in Job /\ FrameCount[m] \in Nat \ {0} /\ granted[m] \in Nat
        /\ GoodJob(job[m], FrameCount[m], granted[m])
    BY <2>1, LiveJob
  <2>3. Starts(job[m])
    BY <2>1, <2>2 DEF GoodJob, MaySend, IsSending, AwaitsCallback, AwaitsFlowControl, HasEnded, IsDone
  <2>4. Event(SetSend(job[m]), job[m], FrameCount[m], granted[m])
    BY ONLY <2>2, <2>3, Starting
  <2>. QED BY <2>1, <2>4
<1>3. granted' \in [Messages -> Nat] /\ \A m \in Messages : granted[m] <= granted'[m]
  BY SameGrants DEF ProcessMessageTransmitters
<1>4. HandlerTypes
  <2>1. /\ Begin("process") /\ sendIt' = sendIt /\ enqueued' \in BOOLEAN /\ open' = open
        /\ "process" \in Handlers /\ open \in BOOLEAN
    BY DEF ProcessMessageTransmitters, Handlers, TransmitterInv, TypeOK
  <2>. QED BY <2>1, BeginTypes
<1>5. UNCHANGED <<list, removed, overrun, sendJob, hw, hwSent, got, accepted, processed>>
  BY DEF ProcessMessageTransmitters, busVars
<1>6. Spared(R)
  BY DEF Spared, IsDone
<1>. HIDE DEF R
<1>. QED BY <1>1, <1>2, <1>3, <1>4, <1>5, <1>6, HandledEvents

\* The cyclic task.
LEMMA CyclicStep ==
  ASSUME TransmitterInv, CyclicTask
  PROVE  TransmitterInv' /\ EndsOnce
<1>. DEFINE R == [m \in ExpiredPrefix |-> Expired([job[m] EXCEPT !.timerSet = FALSE])]
<1>1. HandleResults(R, pendingSend, sendPending)
  BY DEF CyclicTask
<1>2. ExpiredPrefix \subseteq Live /\ DOMAIN R = ExpiredPrefix
  BY DEF ExpiredPrefix, Live, ToSet
<1>3. ASSUME NEW m \in DOMAIN R PROVE Event(R[m], job[m], FrameCount[m], granted'[m])
  <2>1. m \in Live /\ R[m] = Expired([job[m] EXCEPT !.timerSet = FALSE]) /\ granted' = granted
    BY <1>2, <1>3 DEF CyclicTask
  <2>2. /\ job[m] \in Job /\ FrameCount[m] \in Nat \ {0} /\ granted[m] \in Nat
        /\ GoodJob(job[m], FrameCount[m], granted[m])
    BY <2>1, LiveJob
  <2>4. Event(Expired([job[m] EXCEPT !.timerSet = FALSE]), job[m], FrameCount[m], granted[m])
    BY ONLY <2>2, Expiring
  <2>. QED BY <2>1, <2>4
<1>4. granted' \in [Messages -> Nat] /\ \A m \in Messages : granted[m] <= granted'[m]
  BY SameGrants DEF CyclicTask
<1>5. HandlerTypes
  <2>1. /\ Begin("cyclic") /\ sendIt' = sendIt /\ enqueued' = enqueued /\ open' = open
        /\ "cyclic" \in Handlers /\ open \in BOOLEAN /\ enqueued \in BOOLEAN
    BY DEF CyclicTask, Handlers, TransmitterInv, TypeOK
  <2>. QED BY <2>1, BeginTypes
<1>6. UNCHANGED <<list, removed, overrun, sendJob, hw, hwSent, got, accepted, processed>>
  BY DEF CyclicTask, busVars
<1>7. Spared(R)
  <2>1. ASSUME NEW m \in DOMAIN R, IsDone(job[m])
        PROVE  ~R[m].transition /\ R[m].job.state = job[m].state /\ R[m].job.error = job[m].error
    <3>1. m \in Live /\ R[m] = Expired([job[m] EXCEPT !.timerSet = FALSE])
      BY <1>2
    <3>2. /\ job[m] \in Job /\ FrameCount[m] \in Nat \ {0} /\ granted[m] \in Nat
          /\ GoodJob(job[m], FrameCount[m], granted[m])
      BY <3>1, LiveJob
    <3>. DEFINE r == Expired([job[m] EXCEPT !.timerSet = FALSE])
    <3>3. ~r.transition /\ r.job.state = job[m].state /\ r.job.error = job[m].error
      BY ONLY <2>1, <3>2, Expiring
    <3>. QED BY <3>1, <3>3
  <2>. QED BY <2>1 DEF Spared
<1>. HIDE DEF R
<1>. QED BY <1>1, <1>2, <1>3, <1>4, <1>5, <1>6, <1>7, HandledEvents

\* shutdown().
LEMMA ShutdownStep ==
  ASSUME TransmitterInv, Shutdown
  PROVE  TransmitterInv'
<1>. DEFINE R == [m \in Live |-> SetFailed(job[m], "NONE")]
<1>1. HandleResults(R, pendingSend, sendPending) /\ DOMAIN R \subseteq Live
  BY DEF Shutdown
<1>2. ASSUME NEW m \in DOMAIN R PROVE Event(R[m], job[m], FrameCount[m], granted'[m])
  <2>1. m \in Live /\ R[m] = SetFailed(job[m], "NONE")
    BY <1>2
  <2>2. job[m] \in Job /\ "NONE" \in Errors
    BY <2>1, LiveJob DEF Errors
  <2>3. Event(SetFailed(job[m], "NONE"), job[m], FrameCount[m], granted'[m])
    BY ONLY <2>2, Failing
  <2>. QED BY <2>1, <2>3
<1>3. granted' \in [Messages -> Nat] /\ \A m \in Messages : granted[m] <= granted'[m]
  BY SameGrants DEF Shutdown
<1>4. HandlerTypes
  <2>1. /\ Begin("shutdown") /\ sendIt' = sendIt /\ enqueued' = enqueued /\ open' = FALSE
        /\ "shutdown" \in Handlers /\ enqueued \in BOOLEAN
    BY DEF Shutdown, Handlers, TransmitterInv, TypeOK
  <2>. QED BY <2>1, BeginTypes
<1>5. UNCHANGED <<list, removed, overrun, sendJob, hw, hwSent, got, accepted, processed>>
  BY DEF Shutdown, busVars
<1>. HIDE DEF R
<1>. QED BY <1>1, <1>2, <1>3, <1>4, <1>5, HandledEvents

\* The messages that a handler looks for are in the list.
LEMMA FoundAreLive ==
  /\ \A a : Receivers(a) \subseteq {m \in Live : ~Released(m) /\ Address[m] = a}
  /\ Candidates \subseteq {m \in Live : job[m].state = "SEND"}
  BY DEF Receivers, Candidates, First

\* startSendDataFrames() fails.
LEMMA SendFailedStep ==
  ASSUME TransmitterInv, SendFailed
  PROVE  TransmitterInv' /\ EndsOnce
<1>1. PICK m \in Candidates :
        /\ sendIt' = m
        /\ HandleResults([n \in {m} |-> SetFailed(job[m], "NONE")], pendingSend, sendPending)
  BY DEF SendFailed
<1>. DEFINE R == [n \in {m} |-> SetFailed(job[m], "NONE")]
<1>2. m \in Live
  BY FoundAreLive
<1>3. HandleResults(R, pendingSend, sendPending) /\ DOMAIN R \subseteq Live
  BY <1>1, <1>2
<1>4. ASSUME NEW n \in DOMAIN R PROVE Event(R[n], job[n], FrameCount[n], granted'[n])
  <2>1. n = m /\ R[n] = SetFailed(job[m], "NONE")
    BY <1>4
  <2>2. job[m] \in Job /\ "NONE" \in Errors
    BY <1>2, LiveJob DEF Errors
  <2>3. Event(SetFailed(job[m], "NONE"), job[m], FrameCount[m], granted'[m])
    BY ONLY <2>2, Failing
  <2>. QED BY <2>1, <2>3
<1>5. granted' \in [Messages -> Nat] /\ \A x \in Messages : granted[x] <= granted'[x]
  BY SameGrants DEF SendFailed
<1>6. HandlerTypes
  <2>1. /\ handler' = [handler EXCEPT !.step = "remove"] /\ enqueued' = enqueued /\ open' = open
        /\ enqueued \in BOOLEAN /\ open \in BOOLEAN
        /\ handler \in [name : Handlers, step : {"none", "send", "remove", "notify", "sort"},
                        switch : BOOLEAN]
    BY DEF SendFailed, TransmitterInv, TypeOK
  <2>. QED BY <1>1, <1>2, <2>1 DEF HandlerTypes
<1>7. UNCHANGED <<list, removed, overrun, sendJob, hw, hwSent, got, accepted, processed>>
  BY DEF SendFailed, busVars
<1>8. Spared(R)
  BY FoundAreLive DEF Spared, IsDone
<1>. HIDE DEF R
<1>. QED BY <1>3, <1>4, <1>5, <1>6, <1>7, <1>8, HandledEvents

\* What the peer knows of the message that it answers: the job has sent what was granted, and
\* unless it is another one, of one frame, it expects the answer.
LEMMA HeardBy ==
  ASSUME TransmitterInv, NEW m \in Messages, PeerDue(m), NEW r \in Receivers(Address[m]),
         job[r].flow = "EXPECTED"
  PROVE  r = m /\ NextFrame(job[r]) = granted[r]
<1>1. r \in Live /\ ~Released(r) /\ Address[r] = Address[m]
  BY FoundAreLive
<1>2. m \in Live /\ ~Released(m) /\ got[m] = granted[m] /\ got[m] < FrameCount[m]
  BY DEF PeerDue
<1>3. /\ r \in Messages /\ job[r] \in Job /\ FrameCount[r] \in Nat \ {0} /\ granted[r] \in Nat
      /\ GoodJob(job[r], FrameCount[r], granted[r])
  BY <1>1, LiveJob
<1>4. /\ NextFrame(job[r]) = job[r].blockEnd /\ job[r].blockEnd <= granted[r]
      /\ job[r].blockEnd < FrameCount[r] /\ 0 < job[r].blockEnd
  BY ONLY <1>3, job[r].flow = "EXPECTED", Expects
<1>5. FrameCount[m] \in Nat \ {0} /\ granted[m] \in Nat /\ job[r].blockEnd \in Nat
      /\ got[m] \in Nat
  BY <1>2, <1>3, LiveJob DEF Job
<1>6. 1 <= granted[m]
  BY DEF TransmitterInv, FramesInv
<1>7. FrameCount[m] > 1 /\ FrameCount[r] > 1
  BY ONLY <1>2, <1>3, <1>4, <1>5, <1>6
<1>8. r = m
  BY <1>1, <1>2, <1>7 DEF TransmitterInv, AddressInv
<1>9. PICK hi \in Nat : FramesOf(m, hi)
  BY DEF TransmitterInv, FramesInv
<1>10. hi <= granted[m] /\ got[m] <= hi /\ hi = NextFrame(job[m])
  BY <1>2, <1>9 DEF FramesOf, Line, Released
<1>. QED BY <1>2, <1>5, <1>8, <1>10

\* flowControlFrameReceived().
LEMMA FlowControlStep ==
  ASSUME TransmitterInv, NEW m \in Messages, PeerFlowControl(m)
  PROVE  TransmitterInv' /\ EndsOnce
<1>1. granted \in [Messages -> Nat] /\ FrameCount \in [Messages -> Nat \ {0}]
      /\ BlockSizes \subseteq Nat /\ Statuses \subseteq {"CTS", "WAIT", "OVFLW", "INVALID"}
  BY TransmitterAssumption DEF TransmitterInv, TypeOK
<1>2. PICK status \in Statuses, b \in Nat, s \in BOOLEAN :
        /\ FlowControlFrameReceived(Address[m], status, b, s)
        /\ \/ /\ status = "CTS"
              /\ granted' = [granted EXCEPT ![m] = IF b > 0 THEN @ + b ELSE FrameCount[m]]
           \/ status # "CTS" /\ granted' = granted
  BY <1>1 DEF PeerFlowControl
<1>3. PeerDue(m) /\ got[m] = granted[m] /\ got[m] < FrameCount[m]
  BY DEF PeerFlowControl, PeerDue
<1>4. /\ granted' \in [Messages -> Nat]
      /\ \A n \in Messages : granted[n] <= granted'[n]
      /\ status = "CTS" => granted'[m] = IF b > 0 THEN granted[m] + b ELSE FrameCount[m]
  <2>. DEFINE h == IF b > 0 THEN granted[m] + b ELSE FrameCount[m]
  <2>1. h \in Nat /\ granted[m] <= h
    BY <1>1, <1>3
  <2>2. CASE status = "CTS"
    <3>1. granted' = [granted EXCEPT ![m] = h]
      BY <1>2, <2>2
    <3>. HIDE DEF h
    <3>2. granted' \in [Messages -> Nat] /\ granted'[m] = h
          /\ \A n \in Messages : granted[n] <= granted'[n]
      BY <1>1, <2>1, <3>1
    <3>. QED BY <3>2 DEF h
  <2>3. CASE status # "CTS"
    <3>1. granted' = granted
      BY <1>2, <2>3
    <3>. QED BY <1>1, <2>3, <3>1
  <2>. QED BY <2>2, <2>3
<1>. DEFINE R == [n \in Receivers(Address[m]) |->
                    HandleFlowControl(job[n], FrameCount[n], status, b, s)]
<1>5. HandleResults(R, pendingSend, sendPending) /\ DOMAIN R = Receivers(Address[m])
  BY <1>2 DEF FlowControlFrameReceived
<1>6. DOMAIN R \subseteq Live
  BY <1>5, FoundAreLive
<1>7. ASSUME NEW r \in DOMAIN R PROVE Event(R[r], job[r], FrameCount[r], granted'[r])
  <2>1. r \in Receivers(Address[m]) /\ R[r] = HandleFlowControl(job[r], FrameCount[r], status, b, s)
    BY <1>5
  <2>2. /\ r \in Messages /\ job[r] \in Job /\ FrameCount[r] \in Nat \ {0} /\ granted[r] \in Nat
        /\ GoodJob(job[r], FrameCount[r], granted[r])
    BY <1>6, LiveJob
  <2>3. /\ granted'[r] \in Nat /\ granted[r] <= granted'[r]
        /\ status \in {"CTS", "WAIT", "OVFLW", "INVALID"}
    BY <1>1, <1>4, <2>2
  <2>4. job[r].flow = "EXPECTED" /\ status = "CTS" =>
          NextFrame(job[r]) = granted[r]
          /\ granted'[r] = IF b > 0 THEN granted[r] + b ELSE FrameCount[r]
    BY <1>3, <1>4, <2>1, HeardBy
  <2>5. Event(HandleFlowControl(job[r], FrameCount[r], status, b, s), job[r], FrameCount[r],
              granted'[r])
    BY ONLY <2>2, <2>3, <2>4, b \in Nat, s \in BOOLEAN, HandlesFlowControl
  <2>. QED BY <2>1, <2>5
<1>8. HandlerTypes
  <2>1. /\ Begin("flowControl") /\ sendIt' = sendIt /\ enqueued' = enqueued /\ open' = open
        /\ "flowControl" \in Handlers /\ open \in BOOLEAN /\ enqueued \in BOOLEAN
    BY <1>2 DEF FlowControlFrameReceived, Handlers, TransmitterInv, TypeOK
  <2>. QED BY <2>1, BeginTypes
<1>9. UNCHANGED <<list, removed, overrun, sendJob, hw, hwSent, got, accepted, processed>>
  BY <1>2 DEF FlowControlFrameReceived, busVars
<1>10. Spared(R)
  BY <1>5, FoundAreLive DEF Spared, Released
<1>. HIDE DEF R
<1>. QED BY <1>4, <1>5, <1>6, <1>7, <1>8, <1>9, <1>10, HandledEvents

\* handleResult() of one message.
LEMMA HandledOne ==
  ASSUME TransmitterInv, NEW m \in Live, NEW r, NEW p \in BOOLEAN, NEW s \in BOOLEAN,
         HandleResults([n \in {m} |-> r], p, s),
         r.job \in Job, r.transition = TRUE, r.cancelSend = FALSE,
         GoodJob(r.job, FrameCount[m], granted[m]), ~IsDone(job[m]), UNCHANGED <<granted, list, accepted>>
  PROVE  /\ JobsInv' /\ ListInv' /\ AddressInv' /\ CountInv'
         /\ job' \in [Messages -> Job] /\ sendingCount' \in Nat /\ releasedCount' \in Nat
         /\ switchContext' \in BOOLEAN /\ timersUpdated' \in BOOLEAN
         /\ pendingSend' = p /\ sendPending' = s
         /\ Same(r.job, job'[m]) /\ job'[m] = ResetTimer(r.job)
         /\ \A n \in Messages \ {m} : job'[n] = job[n]
         /\ EndsOnce
<1>. DEFINE R == [n \in {m} |-> r]
<1>1. /\ TypeOK /\ JobsInv /\ ListInv /\ AddressInv /\ CountInv /\ SendingCountIsExact
      /\ Live \subseteq Messages /\ Live' = Live
  BY LiveFinite DEF TransmitterInv, Live, CountInv
<1>2. DOMAIN R = {m} /\ R[m] = r /\ HandleResults(R, p, s)
  OBVIOUS
<1>. HIDE DEF R
<1>3. AreResults(R)
  <2>1. IsResult(R[m], job[m])
    BY <1>2 DEF IsResult
  <2>. QED BY <1>2, <2>1 DEF AreResults
<1>4. /\ job' \in [Messages -> Job]
      /\ Same(r.job, job'[m])
      /\ job'[m] = ResetTimer(r.job)
      /\ \A n \in Messages \ {m} : job'[n] = job[n]
      /\ \A n \in Messages : job'[n].consecutive <=> job'[n].timeout = "SEPARATION_TIME"
  <2>1. /\ job' \in [Messages -> Job]
        /\ \A n \in DOMAIN R : Same(R[n].job, job'[n])
        /\ \A n \in DOMAIN R : R[n].transition => job'[n] = ResetTimer(R[n].job)
        /\ \A n \in Messages \ DOMAIN R : job'[n] = job[n]
        /\ \A n \in Messages : job'[n].consecutive <=> job'[n].timeout = "SEPARATION_TIME"
    BY <1>1, <1>2, <1>3, HandledJobs
  <2>. QED BY <1>2, <2>1
<1>5. GoodJob(job'[m], FrameCount[m], granted[m])
  BY <1>4, SameFacts
<1>6. JobsInv'
  <2>1. ASSUME NEW n \in Messages PROVE GoodJob(job'[n], FrameCount[n], granted'[n])
    <3>1. CASE n = m
      BY <1>5, <3>1
    <3>2. CASE n # m
      BY <1>1, <1>4, <3>2 DEF JobsInv
    <3>. QED BY <3>1, <3>2
  <2>. QED BY <1>4, <2>1 DEF JobsInv
<1>7. ListInv' /\ AddressInv'
  <2>1. \A n \in Messages : IsDone(job[n]) => IsDone(job'[n])
    BY <1>4
  <2>2. \A n \in Messages \ Live : job'[n] = job[n]
    BY <1>4
  <2>. QED BY <1>1, <2>1, <2>2, KeptList
<1>8. sendingCount' \in Nat /\ SendingCountIsExact'
  BY <1>1, <1>2, <1>3, HandledSending
<1>9. /\ releasedCount' \in Nat
      /\ Cardinality({n \in Live : Released(n)})' <= releasedCount'
      /\ ReleasedCountIsExact /\ (\A n \in DOMAIN R : R[n].transition => ~IsDone(job[n])) =>
           ReleasedCountIsExact'
  <2>1. \A n \in DOMAIN R : /\ IsDone(job[n]) => IsDone(R[n].job)
                            /\ IsDone(R[n].job) => R[n].transition \/ IsDone(job[n])
    BY <1>2
  <2>. QED BY <1>1, <1>2, <1>3, <2>1, HandledReleased
<1>10. CountInv'
  BY <1>8, <1>9 DEF CountInv
<1>11. /\ pendingSend' = p /\ sendPending' = s
       /\ switchContext' \in BOOLEAN /\ timersUpdated' \in BOOLEAN
  <2>. DEFINE C == {n \in DOMAIN R : R[n].transition}
              N == {n \in C : IsDone(R[n].job)}
              aborted == {n \in N : R[n].cancelSend}
  <2>1. aborted = {}
    BY SMTT(60), <1>2
  <2>2. /\ pendingSend' = (p /\ aborted = {}) /\ sendPending' = (s /\ sendJob \notin aborted)
        /\ switchContext' \in BOOLEAN /\ timersUpdated' \in BOOLEAN
    BY <1>2 DEF HandleResults
  <2>. QED BY <2>1, <2>2
<1>12. EndsOnce
  <2>1. \A n \in DOMAIN R : R[n].transition => ~IsDone(job[n])
    BY <1>2
  <2>2. \A n \in Messages : IsDone(job[n]) => job'[n] = job[n]
    BY <1>4
  <2>. QED BY <1>9, <2>1, <2>2 DEF EndsOnce
<1>. QED BY <1>4, <1>6, <1>7, <1>8, <1>9, <1>10, <1>11, <1>12

\* The transmit callback: the frame leaves the controller, and the job that waits goes on.
LEMMA CanFrameSentStep ==
  ASSUME TransmitterInv, CanFrameSent
  PROVE  TransmitterInv' /\ EndsOnce
<1>1. /\ TypeOK /\ SendInv /\ FramesInv /\ JobsInv /\ IteratorValid /\ hw # <<>> /\ hwSent
      /\ hw' = Tail(hw) /\ hwSent' = FALSE
      /\ UNCHANGED <<list, sendIt, enqueued, removed, overrun, sendJob, got, granted, accepted,
                     processed, open>>
      /\ Live' = Live /\ Live \subseteq Messages
  BY LiveFinite DEF TransmitterInv, CanFrameSent, FramesInv, Live
<1>2. hw \in Seq([message : Messages, index : Nat]) /\ Tail(hw) \in Seq([message : Messages, index : Nat])
  BY <1>1 DEF TypeOK
<1>3. Unsent' = Unsent
  BY <1>1 DEF Unsent
<1>4. ASSUME \A n \in Messages : Kept(job[n], job'[n])
      PROVE  FramesInv'
  <2>1. ASSUME NEW n \in Messages, NEW hi \in Nat, FramesOf(n, hi)
        PROVE  FramesOf(n, hi)'
    <3>1. Kept(job[n], job'[n])
      BY <1>4
    <3>. QED BY <1>1, <1>3, <2>1, <3>1 DEF FramesOf, Kept
  <2>. QED BY <1>1, <2>1 DEF FramesInv
<1>5. CASE sendPending
  <2>1. /\ sendJob \in Live /\ AwaitsCallback(job[sendJob])
    BY <1>1, <1>5 DEF SendInv
  <2>2. /\ job[sendJob] \in Job /\ FrameCount[sendJob] \in Nat \ {0} /\ granted[sendJob] \in Nat
        /\ GoodJob(job[sendJob], FrameCount[sendJob], granted[sendJob])
    BY <2>1, LiveJob
  <2>. DEFINE r == FramesSent(job[sendJob], FrameCount[sendJob])
  <2>3. /\ r.job \in Job /\ r.transition = TRUE /\ r.cancelSend = FALSE
        /\ GoodJob(r.job, FrameCount[sendJob], granted[sendJob]) /\ ~AwaitsCallback(r.job)
        /\ ~IsDone(job[sendJob]) /\ Kept(job[sendJob], r.job)
    BY ONLY <2>1, <2>2, FrameHasBeenSent
  <2>4. HandleResults([n \in {sendJob} |-> r], FALSE, FALSE) /\ Begin("sent")
    <3>1. {n \in Live : n = sendJob /\ ~Released(n)} = {sendJob}
      BY <2>1, <2>3 DEF Released
    <3>2. [m \in {sendJob} |-> FramesSent(job[m], FrameCount[m])] = [n \in {sendJob} |-> r]
      OBVIOUS
    <3>3. Begin("sent")
          /\ HandleResults([m \in {n \in Live : n = sendJob /\ ~Released(n)} |->
                              FramesSent(job[m], FrameCount[m])], FALSE, FALSE)
      BY <1>5 DEF CanFrameSent
    <3>. QED BY <3>1, <3>2, <3>3
  <2>. HIDE DEF r
  <2>5. /\ JobsInv' /\ ListInv' /\ AddressInv' /\ CountInv'
        /\ job' \in [Messages -> Job] /\ sendingCount' \in Nat /\ releasedCount' \in Nat
        /\ switchContext' \in BOOLEAN /\ timersUpdated' \in BOOLEAN
        /\ pendingSend' = FALSE /\ sendPending' = FALSE
        /\ Same(r.job, job'[sendJob]) /\ EndsOnce
        /\ \A n \in Messages \ {sendJob} : job'[n] = job[n]
    BY <1>1, <2>1, <2>3, <2>4, HandledOne
  <2>6. ASSUME NEW n \in Messages PROVE Kept(job[n], job'[n]) /\ ~AwaitsCallback(job'[n])
    <3>1. CASE n = sendJob
      <4>1. /\ AwaitsCallback(job'[n]) <=> AwaitsCallback(r.job)
            /\ IsDone(job'[n]) <=> IsDone(r.job)
            /\ NextFrame(job'[n]) = NextFrame(r.job)
        BY ONLY <2>5, <3>1, SameFacts
      <4>. QED BY <2>3, <3>1, <4>1 DEF Kept
    <3>2. CASE n # sendJob
      BY <1>1, <2>5, <3>2 DEF SendInv, Kept
    <3>. QED BY <3>1, <3>2
  <2>7. SendInv'
    BY <2>5, <2>6 DEF SendInv
  <2>8. FramesInv'
    BY <1>4, <2>6
  <2>9. handler' \in [name : Handlers, step : {"none", "send", "remove", "notify", "sort"},
                      switch : BOOLEAN]
    BY <2>4 DEF Begin, Handlers
  <2>10. TypeOK'
    BY <1>1, <1>2, <2>5, <2>9 DEF TypeOK
  <2>11. IteratorValid'
    BY <1>1 DEF IteratorValid
  <2>. QED BY <2>5, <2>7, <2>8, <2>10, <2>11 DEF TransmitterInv
<1>6. CASE ~sendPending
  <2>1. UNCHANGED <<handler, transmitterVars>>
    BY <1>6 DEF CanFrameSent
  <2>2. /\ job' = job /\ pendingSend' = pendingSend /\ releasedCount' = releasedCount
        /\ switchContext' = switchContext /\ timersUpdated' = timersUpdated
        /\ sendingCount' = sendingCount /\ sendPending' = sendPending /\ handler' = handler
    BY <2>1 DEF transmitterVars
  <2>3. TypeOK'
    <3>1. /\ job' \in [Messages -> Job] /\ pendingSend' \in BOOLEAN /\ releasedCount' \in Nat
          /\ switchContext' \in BOOLEAN /\ timersUpdated' \in BOOLEAN /\ sendingCount' \in Nat
          /\ sendPending' \in BOOLEAN
          /\ handler' \in [name : Handlers, step : {"none", "send", "remove", "notify", "sort"},
                          switch : BOOLEAN]
      BY <1>1, <2>2 DEF TypeOK
    <3>. QED BY <1>1, <1>2, <3>1 DEF TypeOK
  <2>4. JobsInv' /\ ListInv' /\ AddressInv' /\ CountInv' /\ IteratorValid'
    <3>1. JobsInv' /\ ListInv' /\ IteratorValid'
      BY <1>1, <2>2 DEF TransmitterInv, JobsInv, ListInv, IteratorValid
    <3>2. AddressInv'
      BY <1>1, <2>2 DEF TransmitterInv, AddressInv, Released
    <3>3. CountInv'
      BY <1>1, <2>2 DEF TransmitterInv, CountInv, SendingCountIsExact, Released
    <3>. QED BY <3>1, <3>2, <3>3
  <2>5. SendInv'
    BY <1>1, <1>6, <2>2 DEF SendInv
  <2>6. FramesInv'
    BY <1>4, <2>2 DEF Kept
  <2>7. EndsOnce
    BY <1>1, <2>2 DEF EndsOnce, ReleasedCountIsExact, Released
  <2>. QED BY <2>3, <2>4, <2>5, <2>6, <2>7 DEF TransmitterInv
<1>. QED BY <1>5, <1>6

-------------------------------------------------------------------------------
\* The frames in the controller.

Frame == [message : Messages, index : Nat]

\* The next frame of a message comes to the end.
LEMMA LineAppend ==
  ASSUME NEW u \in Seq(Frame), NEW f \in Frame, NEW m, NEW lo \in Nat, NEW hi \in Nat,
         Line(u, m, lo, hi), f.message = m => f.index = hi
  PROVE  Line(Append(u, f), m, lo, IF f.message = m THEN hi + 1 ELSE hi)
<1>. DEFINE v == Append(u, f)  n == Len(u)
<1>1. /\ n \in Nat /\ DOMAIN u = 1 .. n /\ DOMAIN v = 1 .. n + 1 /\ v[n + 1] = f
      /\ \A k \in 1 .. n : v[k] = u[k] /\ u[k] \in Frame
  BY AppendProperties
<1>. HIDE DEF v, n
<1>2. \A k \in 1 .. n : u[k].index \in Nat
  BY <1>1 DEF Frame
<1>3. /\ lo <= hi
      /\ \A k \in 1 .. n : u[k].message = m => u[k].index \in lo .. hi - 1
      /\ \A x \in lo .. hi - 1 : \E k \in 1 .. n : u[k].message = m /\ u[k].index = x
      /\ \A i, k \in 1 .. n :
           u[i].message = m /\ u[k].message = m /\ i < k => u[i].index < u[k].index
  BY <1>1 DEF Line
<1>4. CASE f.message = m
  <2>1. lo <= hi + 1
    BY <1>3
  <2>2. ASSUME NEW k \in 1 .. n + 1, v[k].message = m
        PROVE  v[k].index \in lo .. (hi + 1) - 1
    <3>1. CASE k = n + 1
      BY <1>1, <1>3, <1>4, <3>1
    <3>2. CASE k \in 1 .. n
      <4>1. v[k] = u[k] /\ u[k].index \in lo .. hi - 1
        BY <1>1, <1>3, <2>2, <3>2
      <4>. QED BY <4>1
    <3>. QED BY <1>1, <3>1, <3>2
  <2>3. ASSUME NEW x \in lo .. (hi + 1) - 1
        PROVE  \E k \in 1 .. n + 1 : v[k].message = m /\ v[k].index = x
    <3>1. CASE x = hi
      <4>1. n + 1 \in 1 .. n + 1
        BY <1>1
      <4>. QED BY <1>1, <1>4, <3>1, <4>1
    <3>2. CASE x # hi
      <4>1. x \in lo .. hi - 1
        BY <3>2
      <4>2. PICK k \in 1 .. n : u[k].message = m /\ u[k].index = x
        BY <1>3, <4>1
      <4>3. k \in 1 .. n + 1 /\ v[k] = u[k]
        BY <1>1
      <4>. QED BY <4>2, <4>3
    <3>. QED BY <3>1, <3>2
  <2>4. ASSUME NEW i \in 1 .. n + 1, NEW k \in 1 .. n + 1, v[i].message = m, v[k].message = m, i < k
        PROVE  v[i].index < v[k].index
    <3>1. i \in 1 .. n /\ v[i] = u[i] /\ u[i].message = m
      BY <1>1, <2>4
    <3>2. u[i].index \in lo .. hi - 1
      BY <1>3, <3>1
    <3>3. CASE k = n + 1
      <4>1. v[k].index = hi
        BY <1>1, <1>4, <3>3
      <4>. QED BY <3>1, <3>2, <4>1
    <3>4. CASE k # n + 1
      <4>1. k \in 1 .. n /\ v[k] = u[k]
        BY <1>1, <3>4
      <4>. QED BY <1>3, <2>4, <3>1, <4>1
    <3>. QED BY <3>3, <3>4
  <2>5. Line(v, m, lo, hi + 1)
    BY <1>1, <2>1, <2>2, <2>3, <2>4 DEF Line
  <2>. QED BY <1>4, <2>5 DEF v
<1>5. CASE f.message # m
  <2>1. \A k \in 1 .. n + 1 : v[k].message = m => k \in 1 .. n /\ v[k] = u[k]
    BY <1>1, <1>5
  <2>2. \A x \in lo .. hi - 1 : \E k \in 1 .. n + 1 : v[k].message = m /\ v[k].index = x
    <3>1. ASSUME NEW x \in lo .. hi - 1
          PROVE  \E k \in 1 .. n + 1 : v[k].message = m /\ v[k].index = x
      <4>1. PICK k \in 1 .. n : u[k].message = m /\ u[k].index = x
        BY <1>3
      <4>2. k \in 1 .. n + 1 /\ v[k] = u[k]
        BY <1>1
      <4>. QED BY <4>1, <4>2
    <3>. QED BY <3>1
  <2>3. \A k \in 1 .. n + 1 : v[k].message = m => v[k].index \in lo .. hi - 1
    BY <1>3, <2>1
  <2>4. \A i, k \in 1 .. n + 1 :
          v[i].message = m /\ v[k].message = m /\ i < k => v[i].index < v[k].index
    BY <1>3, <2>1
  <2>5. Line(v, m, lo, hi)
    BY <1>1, <1>3, <2>2, <2>3, <2>4 DEF Line
  <2>. QED BY <1>5, <2>5 DEF v
<1>. QED BY <1>4, <1>5

\* The first frame of the controller is the next one of its message.
LEMMA LineTail ==
  ASSUME NEW u \in Seq(Frame), u # <<>>, NEW m, NEW lo \in Nat, NEW hi \in Nat, Line(u, m, lo, hi)
  PROVE  /\ Head(u).message = m => /\ Head(u).index = lo /\ lo < hi
                                   /\ Line(Tail(u), m, lo + 1, hi)
         /\ Head(u).message # m => Line(Tail(u), m, lo, hi)
<1>. DEFINE v == Tail(u)  n == Len(u) - 1
<1>1. /\ n \in Nat /\ DOMAIN u = 1 .. n + 1 /\ DOMAIN v = 1 .. n /\ Head(u) = u[1]
      /\ \A k \in 1 .. n : v[k] = u[k + 1]
      /\ \A k \in 1 .. n + 1 : u[k] \in Frame
  BY HeadTailProperties
<1>. HIDE DEF v, n
<1>2. /\ lo <= hi
      /\ \A k \in 1 .. n + 1 : u[k].message = m => u[k].index \in lo .. hi - 1
      /\ \A x \in lo .. hi - 1 : \E k \in 1 .. n + 1 : u[k].message = m /\ u[k].index = x
      /\ \A i, k \in 1 .. n + 1 :
           u[i].message = m /\ u[k].message = m /\ i < k => u[i].index < u[k].index
  BY <1>1 DEF Line
<1>3. 1 \in 1 .. n + 1 /\ \A k \in 1 .. n + 1 : k = 1 \/ (k > 1 /\ k - 1 \in 1 .. n)
  BY <1>1
<1>4. \A i, k \in 1 .. n : v[i].message = m /\ v[k].message = m /\ i < k => v[i].index < v[k].index
  <2>1. ASSUME NEW i \in 1 .. n, NEW k \in 1 .. n, v[i].message = m, v[k].message = m, i < k
        PROVE  v[i].index < v[k].index
    <3>1. i + 1 \in 1 .. n + 1 /\ k + 1 \in 1 .. n + 1 /\ i + 1 < k + 1
      BY <1>1, <2>1
    <3>2. v[i] = u[i + 1] /\ v[k] = u[k + 1]
      BY <1>1
    <3>. QED BY <1>2, <2>1, <3>1, <3>2
  <2>. QED BY <2>1
<1>5. CASE Head(u).message = m
  <2>1. u[1].message = m /\ u[1].index \in lo .. hi - 1
    BY <1>1, <1>2, <1>3, <1>5
  <2>2. lo < hi
    BY <2>1
  <2>3. u[1].index = lo
    <3>1. PICK k \in 1 .. n + 1 : u[k].message = m /\ u[k].index = lo
      BY <1>2, <2>2
    <3>2. CASE k = 1
      BY <3>1, <3>2
    <3>3. CASE k # 1
      <4>1. u[1].index < u[k].index
        BY <1>2, <1>3, <2>1, <3>1, <3>3
      <4>. QED BY <2>1, <3>1, <4>1
    <3>. QED BY <3>2, <3>3
  <2>4. ASSUME NEW k \in 1 .. n, v[k].message = m
        PROVE  v[k].index \in lo + 1 .. hi - 1
    <3>1. k + 1 \in 1 .. n + 1 /\ 1 < k + 1 /\ v[k] = u[k + 1]
      BY <1>1
    <3>2. u[k + 1].index \in lo .. hi - 1 /\ u[1].index < u[k + 1].index
      BY <1>2, <1>3, <2>1, <2>4, <3>1
    <3>. QED BY <2>3, <3>1, <3>2
  <2>5. ASSUME NEW x \in lo + 1 .. hi - 1
        PROVE  \E k \in 1 .. n : v[k].message = m /\ v[k].index = x
    <3>1. PICK k \in 1 .. n + 1 : u[k].message = m /\ u[k].index = x
      <4>1. x \in lo .. hi - 1
        OBVIOUS
      <4>. QED BY <1>2, <4>1
    <3>2. k # 1
      BY <2>3, <3>1
    <3>3. k - 1 \in 1 .. n /\ (k - 1) + 1 = k
      BY <1>3, <3>2
    <3>4. v[k - 1] = u[k]
      BY <1>1, <3>3
    <3>. QED BY <3>1, <3>3, <3>4
  <2>6. lo + 1 <= hi
    BY <2>2
  <2>7. Line(v, m, lo + 1, hi)
    BY <1>1, <1>4, <2>4, <2>5, <2>6 DEF Line
  <2>. QED BY <1>1, <1>5, <2>2, <2>3, <2>7 DEF v
<1>6. CASE Head(u).message # m
  <2>1. ASSUME NEW k \in 1 .. n, v[k].message = m
        PROVE  v[k].index \in lo .. hi - 1
    <3>1. k + 1 \in 1 .. n + 1 /\ v[k] = u[k + 1]
      BY <1>1
    <3>. QED BY <1>2, <2>1, <3>1
  <2>2. ASSUME NEW x \in lo .. hi - 1
        PROVE  \E k \in 1 .. n : v[k].message = m /\ v[k].index = x
    <3>1. PICK k \in 1 .. n + 1 : u[k].message = m /\ u[k].index = x
      BY <1>2
    <3>2. k # 1
      BY <1>1, <1>6, <3>1
    <3>3. k - 1 \in 1 .. n /\ (k - 1) + 1 = k
      BY <1>3, <3>2
    <3>4. v[k - 1] = u[k]
      BY <1>1, <3>3
    <3>. QED BY <3>1, <3>3, <3>4
  <2>3. Line(v, m, lo, hi)
    BY <1>1, <1>2, <1>4, <2>1, <2>2 DEF Line
  <2>. QED BY <1>6, <2>3 DEF v
<1>. QED BY <1>5, <1>6

\* Where the frames are that have not been sent.
LEMMA UnsentFacts ==
  ASSUME TypeOK, FramesInv
  PROVE  /\ hw \in Seq(Frame) /\ Unsent \in Seq(Frame)
         /\ \A f \in Frame : /\ Append(hw, f) \in Seq(Frame) /\ Append(hw, f) # <<>>
                             /\ Head(hw).message \in Messages \/ hw = <<>>
                             /\ hw # <<>> => /\ Head(Append(hw, f)) = Head(hw)
                                             /\ Tail(Append(hw, f)) = Append(Tail(hw), f)
         /\ hw # <<>> => Head(hw) \in Frame /\ Head(hw).message \in Messages
<1>1. hw \in Seq(Frame) /\ (hwSent => hw # <<>>)
  BY DEF TypeOK, Frame, FramesInv
<1>2. hw # <<>> => Tail(hw) \in Seq(Frame) /\ Head(hw) \in Frame
  BY <1>1, HeadTailProperties
<1>3. hw # <<>> => Head(hw).message \in Messages
  BY <1>2 DEF Frame
<1>4. ASSUME NEW f \in Frame
      PROVE  /\ Append(hw, f) \in Seq(Frame) /\ Append(hw, f) # <<>>
             /\ hw # <<>> => /\ Head(Append(hw, f)) = Head(hw)
                             /\ Tail(Append(hw, f)) = Append(Tail(hw), f)
  BY <1>1
<1>. QED BY <1>1, <1>2, <1>3, <1>4 DEF Unsent

\* startSendDataFrames(): the frame of the job goes to the controller.
LEMMA SendFrameStep ==
  ASSUME TransmitterInv, SendFrame
  PROVE  TransmitterInv' /\ EndsOnce
<1>1. PICK m \in Candidates :
        /\ hw' = Append(hw, [message |-> m, index |-> job[m].frameIndex])
        /\ sendJob' = m
        /\ HandleResults([n \in {m} |-> FrameSending(job[m], FrameCount[m])], TRUE, TRUE)
        /\ sendIt' = NextIterator(m, {})
  BY DEF SendFrame
<1>2. /\ TypeOK /\ SendInv /\ FramesInv /\ Live' = Live /\ Live \subseteq Messages
      /\ m \in Live /\ job[m].state = "SEND" /\ ~sendPending
      /\ handler' = [handler EXCEPT !.step = "remove"]
      /\ UNCHANGED <<list, enqueued, removed, overrun, hwSent, got, granted, accepted, processed, open>>
  BY FoundAreLive, LiveFinite DEF TransmitterInv, SendFrame, TransceiverFree, Live
<1>3. /\ m \in Messages /\ job[m] \in Job /\ FrameCount[m] \in Nat \ {0} /\ granted[m] \in Nat
      /\ GoodJob(job[m], FrameCount[m], granted[m])
  BY <1>2, LiveJob
<1>. DEFINE r == FrameSending(job[m], FrameCount[m])
            f == [message |-> m, index |-> job[m].frameIndex]
<1>4. /\ r.job \in Job /\ r.transition = TRUE /\ r.cancelSend = FALSE
      /\ GoodJob(r.job, FrameCount[m], granted[m]) /\ AwaitsCallback(r.job) /\ ~IsDone(r.job)
      /\ ~IsDone(job[m]) /\ NextFrame(job[m]) = job[m].frameIndex
      /\ NextFrame(r.job) = job[m].frameIndex + 1
      /\ job[m].frameIndex < granted[m]
  BY ONLY <1>2, <1>3, FrameIsSending
<1>5. HandleResults([n \in {m} |-> r], TRUE, TRUE)
  BY <1>1
<1>. HIDE DEF r
<1>6. /\ JobsInv' /\ ListInv' /\ AddressInv' /\ CountInv'
      /\ job' \in [Messages -> Job] /\ sendingCount' \in Nat /\ releasedCount' \in Nat
      /\ switchContext' \in BOOLEAN /\ timersUpdated' \in BOOLEAN
      /\ pendingSend' = TRUE /\ sendPending' = TRUE
      /\ Same(r.job, job'[m]) /\ EndsOnce
      /\ \A n \in Messages \ {m} : job'[n] = job[n]
  BY <1>2, <1>4, <1>5, HandledOne
<1>7. /\ AwaitsCallback(job'[m]) /\ ~IsDone(job'[m]) /\ NextFrame(job'[m]) = job[m].frameIndex + 1
  <2>1. /\ AwaitsCallback(job'[m]) <=> AwaitsCallback(r.job)
        /\ IsDone(job'[m]) <=> IsDone(r.job)
        /\ NextFrame(job'[m]) = NextFrame(r.job)
    BY ONLY <1>6, SameFacts
  <2>. QED BY <1>4, <2>1
<1>8. f \in Frame /\ f.message = m /\ f.index = job[m].frameIndex /\ job[m].frameIndex \in Nat
  BY <1>3 DEF Frame, Job
<1>9. /\ hw' = Append(hw, f) /\ hw' \in Seq(Frame) /\ hw' # <<>>
      /\ hw # <<>> => Head(hw') = Head(hw) /\ Tail(hw') = Append(Tail(hw), f)
  BY <1>1, <1>2, <1>8, UnsentFacts
<1>. HIDE DEF f
<1>10. SendInv'
  <2>1. \A n \in Messages : AwaitsCallback(job'[n]) <=> n = m
    BY <1>2, <1>6, <1>7 DEF SendInv
  <2>. QED BY <1>1, <1>2, <1>6, <1>9, <2>1 DEF SendInv
<1>11. FramesInv'
  <2>1. Unsent' = Append(Unsent, f) /\ Unsent \in Seq(Frame)
    <3>1. hwSent => hw # <<>>
      BY <1>2 DEF FramesInv
    <3>2. Unsent \in Seq(Frame)
      BY <1>2, UnsentFacts
    <3>. QED BY <1>2, <1>9, <3>1, <3>2 DEF Unsent
  <2>2. hwSent' => hw' # <<>> /\ Head(hw').index = got'[Head(hw').message] - 1
    BY <1>2, <1>9 DEF FramesInv
  <2>3. ASSUME NEW n \in Messages
        PROVE  1 <= granted'[n] /\ \E hi \in Nat : FramesOf(n, hi)'
    <3>1. PICK hi \in Nat : 1 <= granted[n] /\ FramesOf(n, hi)
      BY <1>2 DEF FramesInv
    <3>2. got[n] \in Nat /\ granted[n] \in Nat
      BY <1>2 DEF TypeOK
    <3>3. hi <= granted[n] /\ Line(Unsent, n, got[n], hi) /\ (~IsDone(job[n]) => hi = NextFrame(job[n]))
      BY <3>1 DEF FramesOf
    <3>4. f.message = n => f.index = hi
      BY <1>4, <1>8, <3>3
    <3>5. Line(Append(Unsent, f), n, got[n], IF f.message = n THEN hi + 1 ELSE hi)
      BY ONLY <1>8, <2>1, <3>2, <3>3, <3>4, LineAppend
    <3>6. CASE n = m
      <4>1. Line(Append(Unsent, f), n, got[n], hi + 1)
        BY <1>8, <3>5, <3>6
      <4>2. hi + 1 \in Nat /\ hi + 1 <= granted[n] /\ hi + 1 = NextFrame(job'[n])
        BY <1>4, <1>7, <1>8, <3>2, <3>4, <3>6
      <4>3. FramesOf(n, hi + 1)'
        BY <1>2, <2>1, <4>1, <4>2 DEF FramesOf
      <4>. QED BY <1>2, <3>1, <4>2, <4>3
    <3>7. CASE n # m
      <4>1. Line(Append(Unsent, f), n, got[n], hi) /\ job'[n] = job[n]
        BY <1>6, <1>8, <3>5, <3>7
      <4>2. FramesOf(n, hi)'
        BY <1>2, <2>1, <3>3, <4>1 DEF FramesOf
      <4>. QED BY <1>2, <3>1, <4>2
    <3>. QED BY <3>6, <3>7
  <2>. QED BY <2>2, <2>3 DEF FramesInv
<1>12. IteratorValid' /\ sendIt' \in Messages \cup {End}
  <2>1. NextIterator(m, {}) \in Live \cup {End}
    BY DEF NextIterator, First
  <2>. QED BY <1>1, <1>2, <2>1 DEF IteratorValid
<1>13. TypeOK'
  <2>1. handler' \in [name : Handlers, step : {"none", "send", "remove", "notify", "sort"},
                      switch : BOOLEAN]
    BY <1>2 DEF TypeOK
  <2>2. hw' \in Seq([message : Messages, index : Nat]) /\ sendJob' \in Messages \cup {End}
    BY <1>1, <1>3, <1>9 DEF Frame
  <2>. QED BY <1>2, <1>6, <1>12, <2>1, <2>2 DEF TypeOK
<1>. QED BY <1>6, <1>10, <1>11, <1>12, <1>13 DEF TransmitterInv

\* The first frame of the controller goes over the bus.
LEMMA BusStep ==
  ASSUME TransmitterInv, BusTransmit
  PROVE  TransmitterInv'
<1>1. /\ TypeOK /\ FramesInv /\ hw # <<>> /\ ~hwSent /\ hwSent' = TRUE
      /\ got' = [got EXCEPT ![Head(hw).message] = @ + 1]
      /\ UNCHANGED <<list, sendIt, enqueued, handler, removed, overrun, sendJob, hw,
                     granted, accepted, processed, open>>
      /\ UNCHANGED <<job, pendingSend, releasedCount, switchContext, timersUpdated, sendingCount,
                     sendPending>>
  BY DEF TransmitterInv, BusTransmit, transmitterVars
<1>. DEFINE h == Head(hw).message
<1>2. hw \in Seq(Frame) /\ h \in Messages
  BY <1>1, UnsentFacts
<1>. HIDE DEF h
<1>3. /\ got \in [Messages -> Nat] /\ got' = [got EXCEPT ![h] = @ + 1] /\ got' \in [Messages -> Nat]
      /\ got'[h] = got[h] + 1 /\ \A n \in Messages \ {h} : got'[n] = got[n]
  <2>1. got \in [Messages -> Nat]
    BY <1>1 DEF TypeOK
  <2>2. got' = [got EXCEPT ![h] = @ + 1]
    BY <1>1 DEF h
  <2>. QED BY ONLY <1>2, <2>1, <2>2
<1>4. Unsent = hw /\ Unsent' = Tail(hw)
  BY <1>1 DEF Unsent
<1>5. ASSUME NEW n \in Messages
      PROVE  /\ 1 <= granted[n] /\ \E hi \in Nat : FramesOf(n, hi)'
             /\ n = h => Head(hw).index = got[h]
  <2>1. PICK hi \in Nat : 1 <= granted[n] /\ FramesOf(n, hi)
    BY <1>1 DEF FramesInv
  <2>2. got[n] \in Nat
    BY <1>3
  <2>3. hi <= granted[n] /\ Line(hw, n, got[n], hi) /\ (~IsDone(job[n]) => hi = NextFrame(job[n]))
    BY <1>4, <2>1 DEF FramesOf
  <2>4. /\ h = n => Head(hw).index = got[n] /\ Line(Tail(hw), n, got[n] + 1, hi)
        /\ h # n => Line(Tail(hw), n, got[n], hi)
    BY <1>1, <1>2, <2>2, <2>3, LineTail DEF h
  <2>5. Line(Tail(hw), n, got'[n], hi)
    BY <1>3, <2>4
  <2>6. FramesOf(n, hi)'
    BY <1>1, <1>4, <2>3, <2>5 DEF FramesOf
  <2>. QED BY <2>1, <2>4, <2>6
<1>6. FramesInv'
  <2>1. Head(hw').index = got'[Head(hw').message] - 1
    <3>1. Head(hw).index = got[h] /\ got[h] \in Nat /\ hw' = hw
      BY <1>1, <1>2, <1>3, <1>5
    <3>. QED BY <1>3, <3>1 DEF h
  <2>. QED BY <1>1, <1>5, <2>1 DEF FramesInv
<1>7. TypeOK'
  <2>1. got' \in [Messages -> Nat] /\ hwSent' \in BOOLEAN
    BY <1>1, <1>3
  <2>2. /\ job' \in [Messages -> Job] /\ pendingSend' \in BOOLEAN /\ releasedCount' \in Nat
        /\ switchContext' \in BOOLEAN /\ timersUpdated' \in BOOLEAN /\ sendingCount' \in Nat
        /\ sendPending' \in BOOLEAN
    BY <1>1 DEF TypeOK
  <2>. QED BY <1>1, <2>1, <2>2 DEF TypeOK
<1>8. JobsInv' /\ ListInv' /\ IteratorValid' /\ SendInv'
  BY <1>1 DEF TransmitterInv, JobsInv, ListInv, IteratorValid, SendInv, Live
<1>9. AddressInv'
  BY <1>1 DEF TransmitterInv, AddressInv, Released, Live
<1>10. CountInv'
  BY <1>1 DEF TransmitterInv, CountInv, SendingCountIsExact, Released, Live
<1>. QED BY <1>6, <1>7, <1>8, <1>9, <1>10 DEF TransmitterInv
-------------------------------------------------------------------------------
\* The steps of RemoveGuard that do not touch a job.

\* What concerns neither the jobs nor the frames.
LEMMA QuietStep ==
  ASSUME TransmitterInv, TypeOK', IteratorValid',
         UNCHANGED <<list, job, granted, hw, hwSent, got, accepted, sendPending, sendJob,
                     sendingCount, releasedCount, pendingSend>>
  PROVE  TransmitterInv'
<1>1. Live' = Live /\ Unsent' = Unsent
  BY DEF Live, Unsent
<1>2. JobsInv' /\ ListInv' /\ SendInv'
  BY <1>1 DEF TransmitterInv, JobsInv, ListInv, SendInv
<1>3. AddressInv'
  BY <1>1 DEF TransmitterInv, AddressInv, Released
<1>4. CountInv'
  BY <1>1 DEF TransmitterInv, CountInv, SendingCountIsExact, Released
<1>5. FramesInv'
  BY <1>1 DEF TransmitterInv, FramesInv, FramesOf
<1>. QED BY <1>2, <1>3, <1>4, <1>5 DEF TransmitterInv

\* sendNextFrames() without a frame, or without room for one.
LEMMA NotSentStep ==
  ASSUME TransmitterInv, SendNothing \/ SendFull
  PROVE  TransmitterInv'
<1>1. /\ TypeOK /\ IteratorValid /\ Live \subseteq Messages /\ Live' = Live
      /\ handler' = [handler EXCEPT !.step = "remove"]
      /\ UNCHANGED <<list, enqueued, removed, overrun, sendJob, hw, hwSent, got, granted,
                     accepted, processed, open>>
      /\ UNCHANGED <<job, pendingSend, releasedCount, switchContext, timersUpdated, sendingCount,
                     sendPending>>
  BY LiveFinite DEF TransmitterInv, SendNothing, SendFull, transmitterVars, busVars, Live
<1>2. list \in Seq(Messages) /\ (list # <<>> => Head(list) \in Live)
  <2>1. list \in Seq(Messages)
    BY <1>1 DEF TypeOK
  <2>2. list # <<>> => 1 \in DOMAIN list /\ Head(list) = list[1]
    BY <2>1
  <2>. QED BY <2>1, <2>2 DEF Live, ToSet
<1>3. sendIt' \in Live \cup {End}
  <2>1. CASE SendNothing
    BY <1>1, <1>2, <2>1 DEF SendNothing, IteratorValid
  <2>2. CASE SendFull
    BY <2>2, FoundAreLive DEF SendFull
  <2>. QED BY <2>1, <2>2
<1>4. handler' \in [name : Handlers, step : {"none", "send", "remove", "notify", "sort"},
                    switch : BOOLEAN]
  BY <1>1 DEF TypeOK
<1>5. sendIt' \in Messages \cup {End}
  BY <1>1, <1>3
<1>6. TypeOK'
  BY SMTT(60), <1>1, <1>4, <1>5 DEF TypeOK
<1>7. IteratorValid'
  BY <1>1, <1>3 DEF IteratorValid
<1>. QED BY <1>1, <1>6, <1>7, QuietStep

\* transportMessageProcessed() of the removed transmitters, and the end of it.
LEMMA NotifyStep ==
  ASSUME TransmitterInv, NotifyProcessed \/ NotifyEnd
  PROVE  TransmitterInv'
<1>1. /\ TypeOK /\ IteratorValid /\ Live' = Live
      /\ UNCHANGED <<list, sendIt, overrun, sendJob, hw, hwSent, got, granted, accepted, open>>
      /\ UNCHANGED <<job, pendingSend, releasedCount, switchContext, timersUpdated, sendingCount,
                     sendPending>>
  BY DEF TransmitterInv, NotifyProcessed, NotifyEnd, transmitterVars, busVars, Live
<1>2. /\ removed' \in Seq(Messages) /\ processed' \in [Messages -> Results]
      /\ enqueued' \in BOOLEAN
      /\ handler' \in [name : Handlers, step : {"none", "send", "remove", "notify", "sort"},
                       switch : BOOLEAN]
  <2>1. /\ removed \in Seq(Messages) /\ processed \in [Messages -> Results] /\ enqueued \in BOOLEAN
        /\ handler \in [name : Handlers, step : {"none", "send", "remove", "notify", "sort"},
                        switch : BOOLEAN]
    BY <1>1 DEF TypeOK
  <2>2. CASE NotifyProcessed
    <3>1. /\ removed # <<>> /\ removed' = Tail(removed) /\ handler' = handler /\ enqueued' = enqueued
          /\ processed' = [processed EXCEPT ![Head(removed)] = ProcessingResult(job[Head(removed)])]
      BY <2>2 DEF NotifyProcessed
    <3>2. \A j : ProcessingResult(j) \in Results
      BY DEF ProcessingResult, Results
    <3>3. removed' \in Seq(Messages)
      BY <2>1, <3>1
    <3>4. processed' \in [Messages -> Results]
      BY <2>1, <3>1, <3>2
    <3>. QED BY <2>1, <3>1, <3>3, <3>4
  <2>3. CASE NotifyEnd
    <3>1. /\ removed' = removed /\ processed' = processed
          /\ enqueued' = (enqueued \/ handler.switch)
          /\ handler' = IF handler.name = "cyclic"
                        THEN [handler EXCEPT !.step = "sort", !.switch = FALSE] ELSE NoHandler
      BY <2>3 DEF NotifyEnd
    <3>2. handler' \in [name : Handlers, step : {"none", "send", "remove", "notify", "sort"},
                        switch : BOOLEAN]
      BY <2>1, <3>1 DEF NoHandler, Handlers
    <3>. QED BY <2>1, <3>1, <3>2
  <2>. QED BY <2>2, <2>3
<1>3. TypeOK'
  BY <1>1, <1>2 DEF TypeOK
<1>4. IteratorValid'
  BY <1>1 DEF IteratorValid
<1>. QED BY <1>1, <1>3, <1>4, QuietStep

\* Time passes: the timers say nothing about the states.
LEMMA TickStep ==
  ASSUME TransmitterInv, Tick
  PROVE  TransmitterInv'
<1>1. /\ TypeOK /\ JobsInv /\ ListInv /\ AddressInv /\ SendInv /\ FramesInv /\ CountInv /\ IteratorValid
      /\ Live' = Live /\ Live \subseteq Messages
      /\ job' = [m \in Messages |-> IF m \in Live /\ job[m].timerSet
                                    THEN [job[m] EXCEPT !.timer = @ - 1] ELSE job[m]]
      /\ UNCHANGED <<list, pendingSend, releasedCount, switchContext, timersUpdated, sendingCount,
                     sendPending, sendIt, enqueued, handler, removed, overrun, sendJob, hw, hwSent,
                     got, granted, accepted, processed, open>>
  BY LiveFinite DEF TransmitterInv, Tick, busVars, Live
<1>2. ASSUME NEW m \in Messages
      PROVE  /\ job'[m] \in Job /\ Same(job[m], job'[m])
             /\ job'[m].consecutive = job[m].consecutive
             /\ m \notin Live => job'[m] = job[m]
  <2>1. job[m] \in Job
    BY <1>1 DEF TypeOK
  <2>. DEFINE k == [job[m] EXCEPT !.timer = @ - 1]
  <2>2. k \in Job /\ Same(job[m], k) /\ k.consecutive = job[m].consecutive
    BY <2>1 DEF Job, Same
  <2>3. job'[m] = k \/ job'[m] = job[m]
    BY <1>1
  <2>4. m \notin Live => job'[m] = job[m]
    BY <1>1
  <2>. HIDE DEF k
  <2>. QED BY <2>1, <2>2, <2>3, <2>4 DEF Same
<1>3. job' \in [Messages -> Job]
  BY <1>1, <1>2
<1>4. ASSUME NEW m \in Messages
      PROVE  /\ GoodJob(job'[m], FrameCount[m], granted[m]) <=>
                  GoodJob(job[m], FrameCount[m], granted[m])
             /\ AwaitsCallback(job'[m]) <=> AwaitsCallback(job[m])
             /\ IsDone(job'[m]) <=> IsDone(job[m])
             /\ Kept(job[m], job'[m])
             /\ job'[m].timeout = job[m].timeout
  <2>1. /\ GoodJob(job'[m], FrameCount[m], granted[m]) <=>
             GoodJob(job[m], FrameCount[m], granted[m])
        /\ AwaitsCallback(job'[m]) <=> AwaitsCallback(job[m])
        /\ IsDone(job'[m]) <=> IsDone(job[m])
        /\ NextFrame(job'[m]) = NextFrame(job[m])
    BY <1>2, SameFacts
  <2>. QED BY <1>2, <2>1 DEF Kept, Same
<1>5. JobsInv'
  <2>1. ASSUME NEW m \in Messages
        PROVE  /\ GoodJob(job'[m], FrameCount[m], granted'[m])
               /\ job'[m].consecutive <=> job'[m].timeout = "SEPARATION_TIME"
    <3>1. /\ GoodJob(job[m], FrameCount[m], granted[m])
          /\ job[m].consecutive <=> job[m].timeout = "SEPARATION_TIME"
      BY <1>1 DEF JobsInv
    <3>. QED BY <1>1, <1>2, <1>4, <3>1
  <2>. QED BY <2>1 DEF JobsInv
<1>6. ListInv' /\ AddressInv'
  <2>1. \A m \in Messages : IsDone(job[m]) => IsDone(job'[m])
    BY <1>4
  <2>2. \A m \in Messages \ Live : job'[m] = job[m]
    BY <1>2
  <2>. QED BY <1>1, <2>1, <2>2, KeptList
<1>7. SendInv'
  BY <1>1, <1>4 DEF SendInv
<1>8. FramesInv'
  <2>1. granted' \in [Messages -> Nat] /\ \A m \in Messages : granted[m] <= granted'[m]
    BY <1>1, SameGrants
  <2>2. \A m \in Messages : Kept(job[m], job'[m])
    BY <1>4
  <2>. QED BY <1>1, <2>1, <2>2, KeptFrames
<1>9. CountInv'
  <2>1. {m \in Messages : job'[m].timeout = "SEPARATION_TIME"}
          = {m \in Messages : job[m].timeout = "SEPARATION_TIME"}
    BY <1>4
  <2>2. {m \in Live : IsDone(job'[m])} = {m \in Live : IsDone(job[m])}
    BY <1>1, <1>4
  <2>. QED BY <1>1, <2>1, <2>2 DEF CountInv, SendingCountIsExact, Released
<1>10. TypeOK'
  BY <1>1, <1>3 DEF TypeOK
<1>11. IteratorValid'
  BY <1>1 DEF IteratorValid
<1>. QED BY <1>5, <1>6, <1>7, <1>8, <1>9, <1>10, <1>11 DEF TransmitterInv

\* send().
LEMMA SendStep ==
  ASSUME TransmitterInv, NEW m \in Messages, Send(m)
  PROVE  TransmitterInv'
<1>1. /\ TypeOK /\ JobsInv /\ ListInv /\ AddressInv /\ SendInv /\ FramesInv /\ CountInv /\ IteratorValid
      /\ m \notin accepted /\ list' = Append(list, m) /\ accepted' = accepted \cup {m}
      /\ FrameCount[m] > 1 => \A n \in Live : Released(n) \/ Address[n] # Address[m]
      /\ enqueued' = TRUE
      /\ UNCHANGED <<sendIt, handler, removed, overrun, sendJob, hw, hwSent, got, granted,
                     processed, open>>
      /\ UNCHANGED <<job, pendingSend, releasedCount, switchContext, timersUpdated, sendingCount,
                     sendPending>>
  BY DEF TransmitterInv, Send, transmitterVars, busVars
<1>2. list \in Seq(Messages) /\ IsInjective(list) /\ Live \subseteq Messages /\ m \notin Live
  BY <1>1, LiveFinite DEF TypeOK, ListInv
<1>3. Starts(job[m]) /\ ~IsDone(job[m])
  BY <1>1 DEF ListInv, Starts, IsDone
<1>4. list' \in Seq(Messages) /\ IsInjective(list') /\ Live' = Live \cup {m}
  <2>1. /\ list' \in Seq(Messages) /\ DOMAIN list' = 1 .. Len(list) + 1 /\ list'[Len(list) + 1] = m
        /\ DOMAIN list = 1 .. Len(list) /\ Len(list) \in Nat
        /\ \A i \in DOMAIN list : list'[i] = list[i]
    BY <1>1, <1>2
  <2>2. \A i \in DOMAIN list : list[i] # m
    BY <1>2 DEF Live, ToSet
  <2>3. \A i \in DOMAIN list' : i \in DOMAIN list \/ i = Len(list) + 1
    BY <2>1
  <2>4. IsInjective(list')
    BY <1>2, <2>1, <2>2, <2>3 DEF IsInjective
  <2>5. Live' = Live \cup {m}
    <3>1. DOMAIN list' = DOMAIN list \cup {Len(list) + 1}
      BY <2>1
    <3>. QED BY <2>1, <3>1 DEF Live, ToSet
  <2>. QED BY <2>1, <2>4, <2>5
<1>5. TypeOK'
  BY <1>1, <1>4 DEF TypeOK
<1>6. JobsInv' /\ SendInv'
  BY <1>1, <1>4 DEF JobsInv, SendInv
<1>7. ListInv'
  <2>1. Live' \subseteq accepted'
    BY <1>1, <1>4 DEF ListInv
  <2>2. \A n \in Messages : n \in accepted' \ Live' => n \in accepted \ Live
    BY <1>1, <1>4
  <2>. QED BY <1>1, <2>1, <2>2 DEF ListInv
<1>8. AddressInv'
  <2>. SUFFICES ASSUME NEW a \in Live', NEW b \in Live', ~IsDone(job[a]), ~IsDone(job[b]),
                       Address[a] = Address[b], FrameCount[a] > 1, FrameCount[b] > 1
                PROVE  a = b
    BY <1>1 DEF AddressInv, Released
  <2>1. CASE a \in Live /\ b \in Live
    BY <1>1, <2>1 DEF AddressInv, Released
  <2>2. CASE a = m /\ b \in Live
    BY <1>1, <2>2 DEF Released
  <2>3. CASE b = m /\ a \in Live
    BY <1>1, <2>3 DEF Released
  <2>. QED BY <1>4, <2>1, <2>2, <2>3
<1>9. FramesInv'
  BY <1>1 DEF FramesInv, FramesOf, Unsent
<1>10. CountInv'
  <2>1. {n \in Live' : IsDone(job[n])} = {n \in Live : IsDone(job[n])}
    BY <1>3, <1>4
  <2>. QED BY <1>1, <2>1 DEF CountInv, SendingCountIsExact, Released
<1>11. IteratorValid'
  BY <1>1, <1>4 DEF IteratorValid
<1>. QED BY <1>5, <1>6, <1>7, <1>8, <1>9, <1>10, <1>11 DEF TransmitterInv

\* The order of the list means nothing to the invariant, and a transmitter that has ended may
\* leave it.
LEMMA ListStep ==
  ASSUME TransmitterInv, TypeOK', IteratorValid', CountInv', pendingSend' => pendingSend,
         Live' \subseteq Live, \A m \in Live \ Live' : Released(m),
         UNCHANGED <<job, granted, hw, hwSent, got, accepted, sendPending, sendJob>>
  PROVE  TransmitterInv'
<1>1. /\ TypeOK /\ JobsInv /\ ListInv /\ AddressInv /\ SendInv /\ FramesInv /\ Live \subseteq Messages
  BY LiveFinite DEF TransmitterInv
<1>2. JobsInv'
  BY <1>1 DEF JobsInv
<1>3. ListInv'
  <2>1. \A m \in Messages : m \in accepted \ Live' => m \in accepted \ Live \/ Released(m)
    OBVIOUS
  <2>. QED BY <1>1, <2>1 DEF ListInv, Released
<1>4. AddressInv'
  BY <1>1 DEF AddressInv, Released
<1>5. SendInv'
  <2>1. sendPending => sendJob \in Live /\ AwaitsCallback(job[sendJob])
    BY <1>1 DEF SendInv
  <2>2. \A m : AwaitsCallback(job[m]) => ~Released(m)
    BY DEF AwaitsCallback, Released, IsDone
  <2>3. sendPending => sendJob \in Live'
    BY <2>1, <2>2
  <2>. QED BY <1>1, <2>3 DEF SendInv
<1>6. FramesInv'
  BY <1>1 DEF FramesInv, FramesOf, Unsent
<1>. QED BY <1>2, <1>3, <1>4, <1>5, <1>6 DEF TransmitterInv

\* ++it of an iterator ends within the list, beyond those that leave it, or at its end.
LEMMA NextIteratorFacts ==
  ASSUME NEW m, NEW gone
  PROVE  NextIterator(m, gone) \in (Live \ gone) \cup {End}
<1>. DEFINE i == SelectInSeq(list, LAMBDA n : n = m)
            next == First(SubSeq(list, i + 1, Len(list)), Live \ gone)
<1>1. next \subseteq Live \ gone
  BY DEF First
<1>2. NextIterator(m, gone) = IF next = {} THEN End ELSE CHOOSE n \in next : TRUE
  BY DEF NextIterator
<1>. HIDE DEF next
<1>. QED BY <1>1, <1>2

\* The locked part of releaseRemoveLock().
LEMMA RemoveStep ==
  ASSUME TransmitterInv, RemoveReleased
  PROVE  /\ TransmitterInv'
         /\ ReleasedCountIsExact => ReleasedCountIsExact' /\ ~overrun'
<1>. DEFINE gone == IF handler.name = "sent" THEN {} ELSE {m \in Live : Released(m)}
<1>1. /\ TypeOK /\ IteratorValid /\ CountInv
      /\ list' = Chosen(list, Live \ gone)
      /\ removed' = Reverse(Chosen(list, gone))
      /\ sendIt' = IteratorAfter(gone)
      /\ pendingSend' = (pendingSend /\ sendIt \notin gone)
      /\ releasedCount' = releasedCount - Cardinality(gone)
      /\ overrun' = (handler.name # "sent" /\ releasedCount > Cardinality(gone))
      /\ switchContext' = FALSE
      /\ handler' = [handler EXCEPT !.step = "notify", !.switch = switchContext]
      /\ UNCHANGED <<job, timersUpdated, sendingCount, sendPending, enqueued, sendJob, hw, hwSent,
                     got, granted, accepted, processed, open>>
  BY DEF TransmitterInv, RemoveReleased, busVars
<1>2. /\ gone \subseteq Live /\ (\A m \in gone : Released(m)) /\ IsFiniteSet(Live) /\ Live \subseteq Messages
      /\ gone = {} \/ gone = {m \in Live : Released(m)}
  BY <1>1, LiveFinite
<1>2a. handler.name # "sent" => gone = {m \in Live : Released(m)}
  OBVIOUS
<1>. HIDE DEF gone
<1>3. /\ IsFiniteSet(gone) /\ Cardinality(gone) \in Nat
      /\ IsFiniteSet({m \in Live : Released(m)}) /\ Cardinality({m \in Live : Released(m)}) \in Nat
  <2>1. gone \in SUBSET Live /\ {m \in Live : Released(m)} \in SUBSET Live
    BY <1>2
  <2>2. IsFiniteSet(gone) /\ IsFiniteSet({m \in Live : Released(m)})
    BY <1>2, <2>1, FS_Subset
  <2>. QED BY <2>2, FS_CardinalityType
<1>4. list \in Seq(Messages) /\ IsInjective(list)
  BY <1>1 DEF TypeOK
<1>5. list' \in Seq(Messages) /\ IsInjective(list') /\ Live' = Live \ gone
  <2>1. /\ list' \in Seq(Messages) /\ ToSet(list') = ToSet(list) \cap (Live \ gone)
        /\ IsInjective(list')
    BY <1>1, <1>4, ChosenFacts
  <2>. QED BY <2>1 DEF Live
<1>6. removed' \in Seq(Messages)
  <2>. DEFINE c == Chosen(list, gone)
  <2>1. c \in Seq(Messages)
    BY <1>4, ChosenFacts
  <2>. HIDE DEF c
  <2>2. Reverse(c) \in Seq(Messages)
    BY <2>1 DEF Reverse
  <2>. QED BY <1>1, <2>2 DEF c
<1>7. sendIt' \in Live' \cup {End}
  <2>1. NextIterator(sendIt, gone) \in (Live \ gone) \cup {End}
    BY NextIteratorFacts
  <2>. QED BY <1>1, <1>5, <2>1 DEF IteratorAfter, IteratorValid
<1>8. IteratorValid' /\ sendIt' \in Messages \cup {End}
  BY <1>2, <1>5, <1>7 DEF IteratorValid
<1>9. handler' \in [name : Handlers, step : {"none", "send", "remove", "notify", "sort"},
                    switch : BOOLEAN]
  BY <1>1 DEF TypeOK
<1>10. releasedCount \in Nat /\ Cardinality({m \in Live : Released(m)}) <= releasedCount
  BY <1>1 DEF TypeOK, CountInv
<1>11. Cardinality({}) = 0
  BY FS_EmptySet
<1>12. releasedCount' \in Nat
  <2>1. Cardinality(gone) <= releasedCount
    BY <1>2, <1>3, <1>10, <1>11
  <2>. QED BY <1>1, <1>3, <1>10, <2>1
<1>12a. /\ overrun' => handler.name # "sent" /\ releasedCount > Cardinality(gone)
        /\ handler.name # "sent" => Cardinality(gone) = Cardinality({m \in Live : Released(m)})
  BY <1>1, <1>2a
<1>12b. ReleasedCountIsExact => ~overrun'
  <2>. DEFINE n == Cardinality({m \in Live : Released(m)})
  <2>1. ReleasedCountIsExact => releasedCount = n
    BY DEF ReleasedCountIsExact
  <2>2. handler.name # "sent" => Cardinality(gone) = n
    BY <1>12a
  <2>. HIDE DEF n
  <2>. QED BY <1>3, <1>10, <1>12a, <2>1, <2>2
<1>13. /\ Cardinality({m \in Live : Released(m)})' <= releasedCount'
       /\ ReleasedCountIsExact => ReleasedCountIsExact' /\ ~overrun'
  <2>1. {m \in Live : Released(m)}' = {m \in Live' : IsDone(job[m])}
    BY <1>1 DEF Released
  <2>2. CASE gone = {}
    <3>1. {m \in Live : Released(m)}' = {m \in Live : Released(m)} /\ releasedCount' = releasedCount
      BY <1>1, <1>5, <1>10, <1>11, <2>1, <2>2 DEF Released
    <3>. QED BY <1>10, <1>12b, <3>1 DEF ReleasedCountIsExact
  <2>3. CASE gone = {m \in Live : Released(m)}
    <3>1. {m \in Live : Released(m)}' = {}
      BY <1>5, <2>1, <2>3 DEF Released
    <3>2. Cardinality({m \in Live : Released(m)})' = 0
      BY <1>11, <3>1
    <3>3. ReleasedCountIsExact => releasedCount' = 0
      <4>1. ReleasedCountIsExact => releasedCount = Cardinality(gone)
        BY <2>3 DEF ReleasedCountIsExact
      <4>. QED BY <1>1, <1>3, <4>1
    <3>. QED BY <1>12, <1>12b, <3>2, <3>3 DEF ReleasedCountIsExact
  <2>. QED BY <1>2, <2>2, <2>3
<1>14. CountInv'
  <2>1. SendingCountIsExact'
    BY <1>1 DEF CountInv, SendingCountIsExact
  <2>. QED BY <1>13, <2>1 DEF CountInv
<1>15. pendingSend' \in BOOLEAN /\ overrun' \in BOOLEAN /\ (pendingSend' => pendingSend)
  BY <1>1
<1>16. TypeOK'
  BY <1>1, <1>5, <1>6, <1>8, <1>9, <1>12, <1>15 DEF TypeOK
<1>17. \A m \in Live \ Live' : Released(m)
  BY <1>2, <1>5
<1>18. TransmitterInv'
  <2>1. Live' \subseteq Live /\ UNCHANGED <<job, granted, hw, hwSent, got, accepted, sendPending, sendJob>>
    BY <1>1, <1>5
  <2>. QED BY <1>8, <1>14, <1>15, <1>16, <1>17, <2>1, ListStep
<1>. QED BY <1>13, <1>18

\* The stable sort keeps the transmitters of the list.
LEMMA SortedListFacts ==
  ASSUME TypeOK
  PROVE  SortedList \in Seq(Messages) /\ IsInjective(SortedList) /\ ToSet(SortedList) = Live
<1>. DEFINE n == Len(list)
            Before(i, k) == Less(list[i], list[k]) \/ (~Less(list[k], list[i]) /\ i < k)
            R == {p \in (1 .. n) \X (1 .. n) : Before(p[1], p[2])}
            Rank(k) == Cardinality({i \in DOMAIN list : Before(i, k)}) + 1
            rank == [k \in 1 .. n |-> Rank(k)]
            set == [i \in 1 .. n |-> job[list[i]].timerSet]
            time == [i \in 1 .. n |-> job[list[i]].timer]
<1>1. /\ list \in Seq(Messages) /\ IsInjective(list) /\ n \in Nat /\ DOMAIN list = 1 .. n
      /\ \A i \in 1 .. n : list[i] \in Messages
  BY DEF TypeOK
<1>2. \A i \in 1 .. n : set[i] \in BOOLEAN /\ time[i] \in Int
  <2>1. \A m \in Messages : job[m].timerSet \in BOOLEAN /\ job[m].timer \in Int
    BY DEF TypeOK, Job
  <2>. QED BY <1>1, <2>1
<1>3. \A i, k \in 1 .. n : Less(list[i], list[k]) <=> set[i] /\ (set[k] => time[i] < time[k])
  BY DEF Less
<1>4. \A i, k \in 1 .. n : <<i, k>> \in R <=> Before(i, k)
  OBVIOUS
<1>5. \A i, k \in 1 .. n :
        Before(i, k) <=> \/ set[i] /\ (set[k] => time[i] < time[k])
                         \/ ~(set[k] /\ (set[i] => time[k] < time[i])) /\ i < k
  BY <1>3
<1>. HIDE DEF R, set, time, Before
<1>6. \A i \in 1 .. n : <<i, i>> \notin R
  BY <1>2, <1>4, <1>5
<1>7. \A i, j, k \in 1 .. n : <<i, j>> \in R /\ <<j, k>> \in R => <<i, k>> \in R
  <2>. SUFFICES ASSUME NEW i \in 1 .. n, NEW j \in 1 .. n, NEW k \in 1 .. n,
                       Before(i, j), Before(j, k)
                PROVE  Before(i, k)
    BY <1>4
  <2>1. /\ time[i] \in Int /\ time[j] \in Int /\ time[k] \in Int /\ i \in Int /\ j \in Int /\ k \in Int
        /\ set[i] \in BOOLEAN /\ set[j] \in BOOLEAN /\ set[k] \in BOOLEAN
    BY <1>1, <1>2
  <2>2. CASE ~set[i]
    BY <1>5, <2>1, <2>2
  <2>3. CASE set[i] /\ set[j] /\ set[k]
    BY <1>5, <2>1, <2>3
  <2>4. CASE set[i] /\ ~set[k]
    BY <1>5, <2>1, <2>4
  <2>5. CASE set[i] /\ ~set[j] /\ set[k]
    BY <1>5, <2>1, <2>5
  <2>. QED BY <2>2, <2>3, <2>4, <2>5
<1>8. \A i, j \in 1 .. n : i # j => <<i, j>> \in R \/ <<j, i>> \in R
  BY <1>1, <1>2, <1>4, <1>5
<1>9. \A k \in 1 .. n : rank[k] = Cardinality({i \in 1 .. n : <<i, k>> \in R}) + 1
  <2>. SUFFICES ASSUME NEW k \in 1 .. n
                PROVE  rank[k] = Cardinality({i \in 1 .. n : <<i, k>> \in R}) + 1
    OBVIOUS
  <2>1. {i \in DOMAIN list : Before(i, k)} = {i \in 1 .. n : <<i, k>> \in R}
    BY <1>1, <1>4
  <2>. QED BY <2>1
<1>. DEFINE p == [r \in DOMAIN list |-> CHOOSE k \in DOMAIN list : Rank(k) = r]
<1>10. SortedList = [r \in DOMAIN list |-> list[p[r]]]
  BY DEF SortedList, Before
<1>10a. \A k \in DOMAIN list : rank[k] = Rank(k)
  BY <1>1
<1>. HIDE DEF rank, Rank, n
<1>11. /\ \A k \in 1 .. n : rank[k] \in 1 .. n
       /\ \A i, k \in 1 .. n : <<i, k>> \in R <=> rank[i] < rank[k]
       /\ \A r \in 1 .. n : \E k \in 1 .. n : rank[k] = r
  BY ONLY <1>1, <1>6, <1>7, <1>8, <1>9, RanksAreOrder
<1>12. \A i, k \in 1 .. n : rank[i] = rank[k] => i = k
  <2>. SUFFICES ASSUME NEW i \in 1 .. n, NEW k \in 1 .. n, rank[i] = rank[k] PROVE i = k
    OBVIOUS
  <2>1. rank[i] \in Int /\ ~(rank[i] < rank[k]) /\ ~(rank[k] < rank[i])
    BY SMTT(60), <1>1, <1>11
  <2>. QED BY <1>8, <1>11, <2>1
<1>12a. \A r \in DOMAIN list : p[r] \in DOMAIN list /\ rank[p[r]] = r
  <2>. SUFFICES ASSUME NEW r \in DOMAIN list PROVE p[r] \in DOMAIN list /\ rank[p[r]] = r
    OBVIOUS
  <2>1. \E k \in DOMAIN list : Rank(k) = r
    BY <1>1, <1>10a, <1>11
  <2>2. p[r] = CHOOSE k \in DOMAIN list : Rank(k) = r
    OBVIOUS
  <2>3. p[r] \in DOMAIN list /\ Rank(p[r]) = r
    BY <2>1, <2>2
  <2>. QED BY <1>10a, <2>3
<1>. DEFINE q == SortedList
<1>13. q \in [DOMAIN list -> Messages] /\ Ranked(q, list, rank, p)
  <2>. HIDE DEF p
  <2>1. \A r \in DOMAIN list : q[r] = list[p[r]]
    BY <1>10
  <2>. QED BY <1>1, <1>10, <1>11, <1>12, <1>12a, <2>1 DEF Ranked
<1>. HIDE DEF q, p
<1>14. q \in Seq(Messages) /\ ToSet(q) = ToSet(list) /\ (IsInjective(list) => IsInjective(q))
  BY ONLY <1>1, <1>13, RankedSequence
<1>. QED BY <1>1, <1>14 DEF Live, q

\* cyclicTask() sorts the list.
LEMMA SortStep ==
  ASSUME TransmitterInv, SortTransmitters
  PROVE  TransmitterInv' /\ Live' = Live
<1>1. /\ TypeOK /\ IteratorValid /\ CountInv
      /\ list' = (IF timersUpdated THEN SortedList ELSE list) /\ timersUpdated' = FALSE
      /\ handler' = NoHandler
      /\ UNCHANGED <<job, pendingSend, releasedCount, switchContext, sendingCount, sendPending, sendIt,
                     enqueued, removed, overrun, sendJob, hw, hwSent, got, granted, accepted,
                     processed, open>>
  BY DEF TransmitterInv, SortTransmitters, busVars
<1>2. list' \in Seq(Messages) /\ IsInjective(list') /\ Live' = Live
  <2>1. list \in Seq(Messages) /\ IsInjective(list)
    BY <1>1 DEF TypeOK
  <2>2. list' = SortedList \/ list' = list
    BY <1>1
  <2>. QED BY <1>1, <2>1, <2>2, SortedListFacts DEF Live
<1>3. handler' \in [name : Handlers, step : {"none", "send", "remove", "notify", "sort"},
                    switch : BOOLEAN]
  BY <1>1 DEF NoHandler, Handlers
<1>4. TypeOK'
  BY ZenonT(60), <1>1, <1>2, <1>3 DEF TypeOK
<1>5. IteratorValid' /\ CountInv'
  BY <1>1, <1>2 DEF IteratorValid, CountInv, SendingCountIsExact, Released
<1>. QED BY <1>1, <1>2, <1>4, <1>5, ListStep

\* A step that changes nothing.
LEMMA StutterStep ==
  ASSUME TransmitterInv, UNCHANGED vars
  PROVE  TransmitterInv'
<1>1. /\ UNCHANGED <<list, sendIt, enqueued, handler, removed, overrun, sendJob, hw, hwSent, got,
                     granted, accepted, processed, open>>
      /\ UNCHANGED <<job, pendingSend, releasedCount, switchContext, timersUpdated, sendingCount,
                     sendPending>>
  BY DEF vars, transmitterVars, busVars
<1>2. TypeOK' /\ IteratorValid'
  BY <1>1 DEF TransmitterInv, TypeOK, IteratorValid, Live
<1>. QED BY <1>1, <1>2, QuietStep

\* Every step preserves the invariant.
LEMMA TransmitterStep ==
  ASSUME TransmitterInv, [Next]_vars
  PROVE  TransmitterInv'
<1>1. ASSUME NEW m \in Messages, Send(m) PROVE TransmitterInv'
  BY <1>1, SendStep
<1>2. ASSUME NEW m \in Messages, PeerFlowControl(m) PROVE TransmitterInv'
  BY <1>2, FlowControlStep
<1>3. CASE ProcessMessageTransmitters \/ CyclicTask \/ Shutdown
  BY <1>3, ProcessStep, CyclicStep, ShutdownStep
<1>4. CASE CanFrameSent \/ BusTransmit \/ Tick
  BY <1>4, CanFrameSentStep, BusStep, TickStep
<1>5. CASE ContextStep
  BY <1>5, NotSentStep, SendFrameStep, SendFailedStep, RemoveStep, NotifyStep, SortStep
     DEF ContextStep
<1>6. CASE UNCHANGED vars
  BY <1>6, StutterStep
<1>. QED BY <1>1, <1>2, <1>3, <1>4, <1>5, <1>6 DEF Next

\* Nothing is sent before the first message.
LEMMA TransmitterStarts ==
  ASSUME Init
  PROVE  TransmitterInv /\ ReleasedCountIsExact
<1>1. /\ list = <<>> /\ job = [m \in Messages |-> NewJob] /\ sendIt = End
      /\ pendingSend = FALSE /\ releasedCount = 0 /\ switchContext = FALSE
      /\ timersUpdated = FALSE /\ sendingCount = 0 /\ enqueued = FALSE
      /\ handler = NoHandler /\ removed = <<>> /\ overrun = FALSE
      /\ sendPending = FALSE /\ sendJob = End /\ hw = <<>> /\ hwSent = FALSE
      /\ got = [m \in Messages |-> 0] /\ granted = [m \in Messages |-> 1]
      /\ accepted = {} /\ processed = [m \in Messages |-> "none"] /\ open = TRUE
  BY DEF Init
<1>2. NewJob \in Job
  BY DEF NewJob, Job, States, Flows, TimeoutsOfJob, Errors
<1>3. Starts(NewJob) /\ ~IsDone(NewJob) /\ ~AwaitsCallback(NewJob) /\ NewJob.blockEnd = 1
      /\ NewJob.consecutive = FALSE /\ NewJob.timeout = "NONE" /\ NewJob.frameIndex = 0
  BY DEF NewJob, Starts, IsDone, AwaitsCallback
<1>4. Live = {}
  BY <1>1 DEF Live, ToSet
<1>5. TypeOK
  <2>1. /\ handler \in [name : Handlers, step : {"none", "send", "remove", "notify", "sort"},
                        switch : BOOLEAN]
    BY <1>1 DEF NoHandler, Handlers
  <2>2. job \in [Messages -> Job] /\ processed \in [Messages -> Results]
    BY <1>1, <1>2 DEF Results
  <2>3. list \in Seq(Messages) /\ IsInjective(list)
    BY <1>1 DEF IsInjective
  <2>4. /\ got \in [Messages -> Nat] /\ granted \in [Messages -> Nat]
        /\ hw \in Seq([message : Messages, index : Nat]) /\ removed \in Seq(Messages)
        /\ accepted \subseteq Messages
    BY <1>1
  <2>5. /\ sendIt \in Messages \cup {End} /\ sendJob \in Messages \cup {End}
        /\ releasedCount \in Nat /\ sendingCount \in Nat
    BY <1>1
  <2>. QED BY <1>1, <2>1, <2>2, <2>3, <2>4, <2>5 DEF TypeOK
<1>6. JobsInv
  BY <1>1, <1>3 DEF JobsInv, GoodJob
<1>7. ListInv /\ AddressInv /\ SendInv /\ IteratorValid
  BY <1>1, <1>3, <1>4 DEF ListInv, AddressInv, SendInv, IteratorValid
<1>8. FramesInv
  <2>1. \A m \in Messages : FramesOf(m, 0)
    BY <1>1, <1>3 DEF FramesOf, Line, NextFrame, Unsent
  <2>. QED BY <1>1, <2>1 DEF FramesInv
<1>9. CountInv /\ ReleasedCountIsExact
  <2>1. {m \in Live : Released(m)} = {} /\ {m \in Messages : job[m].timeout = "SEPARATION_TIME"} = {}
    BY <1>1, <1>3, <1>4
  <2>2. Cardinality({}) = 0
    BY FS_EmptySet
  <2>3. Cardinality({m \in Live : Released(m)}) = 0
        /\ Cardinality({m \in Messages : job[m].timeout = "SEPARATION_TIME"}) = 0
    BY <2>1, <2>2
  <2>. QED BY <1>1, <2>3 DEF CountInv, ReleasedCountIsExact, SendingCountIsExact
<1>. QED BY <1>5, <1>6, <1>7, <1>8, <1>9 DEF TransmitterInv

\* The phases of the jobs, the list, the pending callback, the frames in the controller and the
\* counters agree in every state, for every bus and every peer, a shutdown included: whatever
\* order frameDataSent, frames, timeouts, send() and shutdown() come in.
THEOREM TransmitterInvariant == Spec => []TransmitterInv
<1>1. Init => TransmitterInv
  BY TransmitterStarts
<1>2. TransmitterInv /\ [Next]_vars => TransmitterInv'
  BY TransmitterStep
<1>. QED BY <1>1, <1>2, PTL DEF Spec

\* The frames of m ahead of the i-th one of u, as places of a sequence that has d more in front.
Ahead(u, m, i, d) == {k \in 1 + d .. i - 1 + d : u[k - d].message = m}

\* In a line of frames the place of a frame tells its number.
LEMMA LinePlace ==
  ASSUME NEW u \in Seq(Frame), NEW m, NEW lo \in Nat, NEW hi \in Nat, Line(u, m, lo, hi),
         NEW i \in DOMAIN u, u[i].message = m, NEW d \in {0, 1}
  PROVE  u[i].index = lo + Cardinality(Ahead(u, m, i, d)) /\ u[i].index < hi
<1>. DEFINE B == Ahead(u, m, i, d)  x == u[i].index  f == [k \in B |-> u[k - d].index]
<1>1. /\ DOMAIN u = 1 .. Len(u) /\ Len(u) \in Nat /\ i \in 1 .. Len(u)
      /\ x \in lo .. hi - 1
  BY DEF Line
<1>2. \A k \in B : k \in Int /\ k - d \in DOMAIN u /\ k - d < i /\ u[k - d].message = m
  BY <1>1 DEF Ahead
<1>3. \A k \in DOMAIN u : k < i /\ u[k].message = m => k + d \in B /\ (k + d) - d = k
  BY SMTT(60), <1>1 DEF Ahead
<1>. HIDE DEF x, B
<1>4. \A k \in B : f[k] \in lo .. x - 1
  <2>. SUFFICES ASSUME NEW k \in B PROVE u[k - d].index \in lo .. x - 1
    OBVIOUS
  <2>1. u[k - d].index < x /\ u[k - d].index \in lo .. hi - 1
    BY <1>2 DEF Line, x
  <2>. QED BY <1>1, <2>1
<1>5. \A a, b \in B : f[a] = f[b] => a = b
  <2>. SUFFICES ASSUME NEW a \in B, NEW b \in B, u[a - d].index = u[b - d].index PROVE a = b
    OBVIOUS
  <2>1. /\ a \in Int /\ b \in Int /\ a - d \in DOMAIN u /\ b - d \in DOMAIN u
        /\ u[a - d].message = m /\ u[b - d].message = m /\ u[a - d].index \in Int
    BY <1>2 DEF Line
  <2>2. ~(a - d < b - d) /\ ~(b - d < a - d)
    BY <2>1 DEF Line
  <2>. QED BY <2>1, <2>2
<1>6. \A y \in lo .. x - 1 : \E k \in B : f[k] = y
  <2>. SUFFICES ASSUME NEW y \in lo .. x - 1 PROVE \E k \in B : u[k - d].index = y
    OBVIOUS
  <2>1. y \in lo .. hi - 1 /\ y < x
    BY <1>1
  <2>2. PICK k \in DOMAIN u : u[k].message = m /\ u[k].index = y
    BY <2>1 DEF Line
  <2>3. ~(i < k) /\ k # i
    <3>1. i < k => x < y
      BY <2>2 DEF Line, x
    <3>. QED BY <1>1, <2>1, <2>2, <3>1 DEF x
  <2>4. k < i
    BY <1>1, <2>2, <2>3
  <2>5. k + d \in B /\ (k + d) - d = k
    BY <1>3, <2>2, <2>4
  <2>. QED BY <2>2, <2>5
<1>7. f \in Bijection(B, lo .. x - 1)
  <2>1. f \in [B -> lo .. x - 1]
    BY <1>4
  <2>. HIDE DEF f
  <2>. QED BY <1>5, <1>6, <2>1 DEF Bijection, Injection, Surjection, IsInjective
<1>8. IsFiniteSet(lo .. x - 1) /\ Cardinality(lo .. x - 1) = x - lo
  <2>1. x - 1 \in Int /\ lo \in Int /\ lo <= x /\ x \in Int
    BY <1>1
  <2>2. IsFiniteSet(lo .. x - 1)
        /\ Cardinality(lo .. x - 1) = IF lo > x - 1 THEN 0 ELSE x - 1 - lo + 1
    BY <2>1, FS_Interval
  <2>. DEFINE c == Cardinality(lo .. x - 1)
  <2>3. c = IF lo > x - 1 THEN 0 ELSE x - 1 - lo + 1
    BY <2>2
  <2>. HIDE DEF c
  <2>4. c = x - lo
    BY <2>1, <2>3
  <2>. QED BY <2>2, <2>4 DEF c
<1>9. Cardinality(B) = x - lo
  <2>1. ExistsBijection(lo .. x - 1, B)
    BY <1>7, Fun_ExistsBijSymmetric DEF ExistsBijection
  <2>. HIDE DEF x
  <2>2. Cardinality(B) = Cardinality(lo .. x - 1)
    BY <1>8, <2>1, FS_Bijection
  <2>. QED BY <1>8, <2>2
<1>. QED BY <1>1, <1>9 DEF x, B

\* sendFrames() puts on the bus what the peer has asked for: the frames of every message follow
\* each other from the first on, none is repeated or left out, and none is beyond the block that
\* the flow control frames have granted, with any late or lost callback.
THEOREM FramesOnTheBus == Spec => []FramesAsGranted
<1>1. TransmitterInv => FramesAsGranted
  <2>. SUFFICES ASSUME TransmitterInv, NEW i \in DOMAIN hw
                PROVE  LET m == hw[i].message
                           before == {k \in 1 .. i - 1 : hw[k].message = m /\ ~(k = 1 /\ hwSent)}
                           counted == IF i = 1 /\ hwSent THEN 1 ELSE 0
                       IN /\ hw[i].index = got[m] + Cardinality(before) - counted
                          /\ hw[i].index < granted[m]
    BY DEF FramesAsGranted
  <2>. DEFINE m == hw[i].message  d == IF hwSent THEN 1 ELSE 0
              before == {k \in 1 .. i - 1 : hw[k].message = m /\ ~(k = 1 /\ hwSent)}
  <2>1. /\ TypeOK /\ FramesInv /\ hw \in Seq(Frame) /\ Unsent \in Seq(Frame)
        /\ DOMAIN hw = 1 .. Len(hw) /\ Len(hw) \in Nat
    BY UnsentFacts DEF TransmitterInv
  <2>2. m \in Messages /\ got[m] \in Nat /\ granted[m] \in Nat /\ hw[i].index \in Nat
    <3>1. hw[i] \in Frame
      BY <2>1
    <3>. QED BY <2>1, <3>1 DEF Frame, TypeOK
  <2>3. PICK hi \in Nat : FramesOf(m, hi)
    BY <2>1, <2>2 DEF FramesInv
  <2>4. hi <= granted[m] /\ Line(Unsent, m, got[m], hi) /\ got[m] <= hi
    BY <2>3 DEF FramesOf, Line
  <2>5. CASE i = 1 /\ hwSent
    <3>1. hw[i] = Head(hw) /\ hw[i].index = got[m] - 1
      BY <2>1, <2>5 DEF FramesInv
    <3>2. before = {}
      BY <2>5
    <3>3. Cardinality(before) = 0
      BY <3>2, FS_EmptySet
    <3>. HIDE DEF before
    <3>. QED BY <2>2, <2>4, <2>5, <3>1, <3>3 DEF before
  <2>6. CASE ~(i = 1 /\ hwSent)
    <3>1. /\ i - d \in DOMAIN Unsent /\ Unsent[i - d] = hw[i] /\ d \in {0, 1}
          /\ \A k \in 1 + d .. i - 1 : Unsent[k - d] = hw[k]
      <4>1. CASE hwSent
        <5>1. hw # <<>> /\ i - 1 \in 1 .. Len(hw) - 1
          BY <2>1, <2>6, <4>1
        <5>2. Unsent = Tail(hw) /\ d = 1
          BY <4>1 DEF Unsent
        <5>3. DOMAIN Tail(hw) = 1 .. Len(hw) - 1 /\ \A k \in 1 .. Len(hw) - 1 : Tail(hw)[k] = hw[k + 1]
          BY <2>1, <5>1
        <5>. QED BY <2>1, <5>1, <5>2, <5>3
      <4>2. CASE ~hwSent
        BY <2>1, <4>2 DEF Unsent
      <4>. QED BY <4>1, <4>2
    <3>2. before = {k \in 1 + d .. (i - d) - 1 + d : Unsent[k - d].message = m}
      <4>1. 1 + d .. (i - d) - 1 + d = 1 + d .. i - 1
        BY <2>1
      <4>2. before = {k \in 1 + d .. i - 1 : hw[k].message = m}
        BY <2>1
      <4>. HIDE DEF before, d
      <4>. QED BY <3>1, <4>1, <4>2
    <3>. HIDE DEF before, d
    <3>3. Unsent[i - d].index = got[m] + Cardinality(before) /\ Unsent[i - d].index < hi
      <4>. DEFINE u == Unsent  p == i - d  lo == got[m]
      <4>1. /\ u \in Seq(Frame) /\ lo \in Nat /\ hi \in Nat /\ Line(u, m, lo, hi) /\ p \in DOMAIN u
            /\ u[p].message = m /\ d \in {0, 1}
            /\ before = Ahead(u, m, p, d)
        BY <2>1, <2>2, <2>3, <2>4, <3>1, <3>2 DEF Ahead
      <4>. HIDE DEF u, p, lo, m
      <4>2. u[p].index = lo + Cardinality(before) /\ u[p].index < hi
        BY ONLY ZenonT(60), <4>1, LinePlace
      <4>. QED BY <4>2 DEF u, p, lo
    <3>4. hw[i].index = got[m] + Cardinality(before) /\ hw[i].index < granted[m]
      BY <2>2, <2>4, <3>1, <3>3
    <3>5. Cardinality(before) \in Int
      <4>1. i - 1 \in Int /\ 1 \in Int /\ before \in SUBSET (1 .. i - 1)
        BY <2>1 DEF before
      <4>2. IsFiniteSet(1 .. i - 1)
        BY ONLY <4>1, FS_Interval
      <4>3. IsFiniteSet(before)
        BY <4>1, <4>2, FS_Subset
      <4>. QED BY <4>3, FS_CardinalityType
    <3>. DEFINE counted == IF i = 1 /\ hwSent THEN 1 ELSE 0
    <3>6. counted = 0
      BY <2>6
    <3>. HIDE DEF counted
    <3>7. hw[i].index = got[m] + Cardinality(before) - counted
      BY <2>2, <3>4, <3>5, <3>6
    <3>. QED BY <3>4, <3>7 DEF before, counted
  <2>. QED BY <2>5, <2>6
<1>. QED BY <1>1, TransmitterInvariant, PTL

\* The transmitter never waits for a callback that cannot come: while _pendingSend holds up the
\* messages, the transceiver has a callback to make, the controller a frame that will cause it,
\* and the job it is for is still in the list and waiting, also after timeouts and a shutdown.
THEOREM CallbacksCome == Spec => []CallbackWillCome
<1>1. TransmitterInv => CallbackWillCome
  <2>. SUFFICES ASSUME TransmitterInv PROVE CallbackWillCome
    OBVIOUS
  <2>1. SendInv /\ Live \subseteq Messages
    BY LiveFinite DEF TransmitterInv
  <2>. QED BY <2>1 DEF CallbackWillCome, SendInv, AwaitsCallback
<1>. QED BY <1>1, TransmitterInvariant, PTL

-------------------------------------------------------------------------------
\* Without a shutdown every transmission ends once.

\* A step that ends no transmission.
LEMMA EndsNothing ==
  ASSUME Live' = Live, Live \subseteq Messages, releasedCount' = releasedCount,
         \A m \in Messages : job'[m].state = job[m].state /\ job'[m].error = job[m].error
  PROVE  EndsOnce
<1>1. \A m \in Live : Released(m)' <=> Released(m)
  BY DEF Released, IsDone
<1>2. {m \in Live : Released(m)}' = {m \in Live : Released(m)}
  BY <1>1
<1>. QED BY <1>2 DEF EndsOnce, ReleasedCountIsExact

\* Every step but the shutdown.
LEMMA EndsOnceStep ==
  ASSUME TransmitterInv, ~MayShutdown, [Next]_vars
  PROVE  EndsOnce
<1>1. Live \subseteq Messages /\ job \in [Messages -> Job]
  BY LiveFinite DEF TransmitterInv, TypeOK
<1>2. ASSUME NEW m \in Messages, Send(m) PROVE EndsOnce
  <2>1. /\ m \notin accepted /\ list' = Append(list, m) /\ list \in Seq(Messages)
        /\ Starts(job[m]) /\ job' = job /\ releasedCount' = releasedCount
    BY <1>2 DEF Send, transmitterVars, TransmitterInv, TypeOK, ListInv
  <2>2. ToSet(list') = ToSet(list) \cup {m}
    <3>1. /\ DOMAIN list' = DOMAIN list \cup {Len(list) + 1} /\ list'[Len(list) + 1] = m
          /\ \A i \in DOMAIN list : list'[i] = list[i]
      BY <2>1
    <3>. QED BY <3>1 DEF ToSet
  <2>3. ~IsDone(job[m]) /\ Live' = Live \cup {m}
    BY <2>1, <2>2 DEF Starts, IsDone, Live
  <2>4. {n \in Live : Released(n)}' = {n \in Live : Released(n)}
    BY <2>1, <2>3 DEF Released
  <2>. QED BY <2>1, <2>4 DEF EndsOnce, ReleasedCountIsExact
<1>3. ASSUME NEW m \in Messages, PeerFlowControl(m) PROVE EndsOnce
  BY <1>3, FlowControlStep
<1>4. CASE ProcessMessageTransmitters \/ CanFrameSent \/ CyclicTask
  BY <1>4, ProcessStep, CanFrameSentStep, CyclicStep
<1>5. CASE SendFrame \/ SendFailed
  BY <1>5, SendFrameStep, SendFailedStep
<1>6. CASE RemoveReleased
  <2>1. job' = job
    BY <1>6 DEF RemoveReleased
  <2>. QED BY <1>6, <2>1, RemoveStep DEF EndsOnce
<1>7. CASE SortTransmitters
  <2>1. Live' = Live /\ job' = job /\ releasedCount' = releasedCount
    BY <1>7, SortStep DEF SortTransmitters
  <2>. QED BY <1>1, <2>1, EndsNothing
<1>8. CASE SendNothing \/ SendFull \/ NotifyProcessed \/ NotifyEnd \/ BusTransmit \/ UNCHANGED vars
  <2>1. list' = list /\ job' = job /\ releasedCount' = releasedCount
    BY <1>8 DEF SendNothing, SendFull, NotifyProcessed, NotifyEnd, BusTransmit, vars, transmitterVars
  <2>2. Live' = Live
    BY <2>1 DEF Live
  <2>. QED BY <1>1, <2>1, <2>2, EndsNothing
<1>9. CASE Tick
  <2>1. /\ list' = list /\ releasedCount' = releasedCount
        /\ job' = [m \in Messages |-> IF m \in Live /\ job[m].timerSet
                                      THEN [job[m] EXCEPT !.timer = @ - 1] ELSE job[m]]
    BY <1>9 DEF Tick
  <2>2. ASSUME NEW m \in Messages
        PROVE  job'[m].state = job[m].state /\ job'[m].error = job[m].error
    <3>1. job[m] \in Job /\ (job'[m] = job[m] \/ job'[m] = [job[m] EXCEPT !.timer = @ - 1])
      BY <1>1, <2>1
    <3>. QED BY <3>1 DEF Job
  <2>3. Live' = Live
    BY <2>1 DEF Live
  <2>. QED BY <1>1, <2>1, <2>2, <2>3, EndsNothing
<1>10. ~Shutdown
  BY DEF Shutdown
<1>. QED BY <1>2, <1>3, <1>4, <1>5, <1>6, <1>7, <1>8, <1>9, <1>10 DEF Next, ContextStep

\* Unless the transport layer is shut down, the list, its iterator and its counters agree:
\* releaseRemoveLock() never looks for a finished transmitter that is not there.
THEOREM ListAgrees == ~MayShutdown => (Spec => []ListIsConsistent)
<1>. SUFFICES ASSUME ~MayShutdown PROVE Spec => []ListIsConsistent
  OBVIOUS
<1>. DEFINE Inv == TransmitterInv /\ ReleasedCountIsExact
<1>1. Init => Inv
  BY TransmitterStarts
<1>2. Inv /\ [Next]_vars => Inv'
  BY TransmitterStep, EndsOnceStep DEF EndsOnce
<1>3. Inv => ListIsConsistent
  BY DEF ListIsConsistent, TransmitterInv, CountInv
<1>. QED BY <1>1, <1>2, <1>3, PTL DEF Spec

\* Unless the transport layer is shut down, a message whose last frame has been sent is not
\* aborted afterwards.
THEOREM CompletedIsFinal == ~MayShutdown => (Spec => CompletedStaysCompleted)
<1>. SUFFICES ASSUME ~MayShutdown PROVE Spec => CompletedStaysCompleted
  OBVIOUS
<1>1. TransmitterInv /\ [Next]_vars =>
        [\A m \in Messages : job[m].state = "SUCCESS" => job'[m].state = "SUCCESS"]_vars
  <2>. SUFFICES ASSUME TransmitterInv, [Next]_vars, NEW m \in Messages, job[m].state = "SUCCESS"
                PROVE  job'[m].state = "SUCCESS"
    OBVIOUS
  <2>1. EndsOnce
    BY EndsOnceStep
  <2>. QED BY <2>1 DEF EndsOnce, IsDone
<1>. QED BY <1>1, TransmitterInvariant, PTL DEF Spec, CompletedStaysCompleted

-------------------------------------------------------------------------------
\* With a punctual bus: what has been counted has been sent, what has been granted is heard.

TimedOut == "FLOW_CONTROL_TIMEOUT_EXPIRED"

\* A frame is counted when it has been sent, and an ended message is neither sent nor granted.
Accounted ==
  \A m \in Messages :
    /\ job'[m].frameIndex <= job[m].frameIndex
                             + (IF hwSent /\ AwaitsCallback(job[m]) THEN 1 ELSE 0)
    /\ got[m] <= got'[m]
    /\ IsDone(job[m]) => got'[m] = got[m] /\ granted'[m] = granted[m]

\* A message fails for want of flow control only while it waits for it.
FailsWaiting ==
  \A m \in Messages :
    job'[m].error = TimedOut =>
      \/ job[m].error = TimedOut
      \/ /\ ~IsDone(job[m]) /\ AwaitsFlowControl(job[m], FrameCount[m])
         /\ granted' = granted /\ got' = got

Punctually == BusInv' /\ Accounted /\ (AddressesDiffer /\ GrantInv => GrantInv' /\ FailsWaiting)

\* handleResult(), message by message.
LEMMA HandledAs ==
  ASSUME NEW R, NEW p, NEW s, HandleResults(R, p, s), NEW m \in Messages,
         m \in DOMAIN R => R[m].job \in Job
  PROVE  /\ m \in DOMAIN R => /\ Same(R[m].job, job'[m])
                              /\ R[m].transition => job'[m] = ResetTimer(R[m].job)
                              /\ ~R[m].transition => job'[m] = R[m].job
         /\ m \notin DOMAIN R => job'[m] = job[m]
         /\ sendPending' => s
<1>. DEFINE C == {n \in DOMAIN R : R[n].transition}
<1>1. job' = [n \in Messages |-> IF n \in C THEN ResetTimer(R[n].job)
                                 ELSE IF n \in DOMAIN R THEN R[n].job ELSE job[n]]
  BY DEF HandleResults
<1>2. sendPending' => s
  BY DEF HandleResults
<1>3. m \notin DOMAIN R => job'[m] = job[m]
  BY <1>1
<1>4. m \in DOMAIN R /\ R[m].transition => job'[m] = ResetTimer(R[m].job)
  BY <1>1
<1>5. m \in DOMAIN R /\ ~R[m].transition => job'[m] = R[m].job
  BY <1>1
<1>6. m \in DOMAIN R => Same(R[m].job, ResetTimer(R[m].job)) /\ Same(R[m].job, R[m].job)
  BY ResetTimerFacts DEF Same
<1>. QED BY <1>2, <1>3, <1>4, <1>5, <1>6

\* The peer has got what the job has counted, and a frame whose callback has not come.
LEMMA SentFrames ==
  ASSUME TransmitterInv, BusInv, NEW m \in Messages, ~IsDone(job[m])
  PROVE  got[m] = job[m].frameIndex + (IF hwSent /\ AwaitsCallback(job[m]) THEN 1 ELSE 0)
<1>1. /\ TypeOK /\ SendInv /\ FramesInv /\ hw \in Seq(Frame) /\ Unsent \in Seq(Frame)
  BY UnsentFacts DEF TransmitterInv
<1>2. job[m] \in Job /\ job[m].frameIndex \in Nat /\ got[m] \in Nat
  BY <1>1 DEF TypeOK, Job
<1>3. PICK hi \in Nat : FramesOf(m, hi)
  BY <1>1 DEF FramesInv
<1>4. hi = NextFrame(job[m]) /\ Line(Unsent, m, got[m], hi)
  BY <1>3 DEF FramesOf
<1>. DEFINE d == IF AwaitsCallback(job[m]) THEN 1 ELSE 0
<1>5. hi = job[m].frameIndex + d /\ got[m] <= hi
  BY <1>4 DEF NextFrame, Line
<1>6. /\ \A x \in got[m] .. hi - 1 : \E k \in DOMAIN Unsent : Unsent[k].message = m /\ Unsent[k].index = x
      /\ \A k \in DOMAIN Unsent : Unsent[k].message = m => Unsent[k].index \in got[m] .. hi - 1
  BY <1>4 DEF Line
<1>7. CASE \A k \in DOMAIN Unsent : Unsent[k].message # m
  <2>1. got[m] \in got[m] .. hi - 1 => FALSE
    BY <1>6, <1>7
  <2>2. got[m] = hi
    BY <1>2, <1>5, <2>1
  <2>3. AwaitsCallback(job[m]) => hwSent
    <3>. SUFFICES ASSUME AwaitsCallback(job[m]), ~hwSent PROVE FALSE
      OBVIOUS
    <3>1. sendPending /\ m = sendJob /\ hw # <<>> /\ hw[1].message = m
      BY <1>1 DEF SendInv, BusInv
    <3>2. 1 \in DOMAIN Unsent /\ Unsent[1].message = m
      BY <1>1, <3>1 DEF Unsent
    <3>. QED BY <1>7, <3>2
  <2>. QED BY <1>2, <1>5, <2>2, <2>3
<1>8. CASE ~(\A k \in DOMAIN Unsent : Unsent[k].message # m)
  <2>1. PICK k \in DOMAIN Unsent : Unsent[k].message = m
    BY <1>8
  <2>2. Len(hw) <= 1 /\ Len(hw) \in Nat /\ (hwSent => hw # <<>>)
    BY <1>1 DEF BusInv, FramesInv
  <2>3. ~hwSent
    <3>. SUFFICES ASSUME hwSent PROVE FALSE
      OBVIOUS
    <3>1. hw # <<>> /\ hw \in Seq(Frame)
      BY <1>1, <2>2
    <3>2. Len(hw) \in Nat \ {0}
      BY ONLY <3>1, EmptySeq
    <3>3. Len(hw) = 1
      <4>. DEFINE n == Len(hw)
      <4>1. n \in Nat /\ n # 0 /\ n <= 1
        BY <2>2, <3>2
      <4>. HIDE DEF n
      <4>2. n = 1
        BY <4>1
      <4>. QED BY <4>2 DEF n
    <3>4. DOMAIN Tail(hw) = 1 .. Len(hw) - 1
      BY <3>1
    <3>. QED BY <2>1, <3>3, <3>4 DEF Unsent
  <2>4. ~hwSent /\ Unsent = hw
    BY <2>1, <2>3 DEF Unsent
  <2>5. DOMAIN Unsent \subseteq {1}
    BY <1>1, <2>2, <2>4
  <2>6. hw # <<>> /\ hw[1].message = m
    BY <1>1, <2>1, <2>4, <2>5
  <2>7. m = sendJob /\ sendPending /\ AwaitsCallback(job[m])
    BY <1>1, <2>6 DEF BusInv, SendInv
  <2>8. Unsent[1].index \in got[m] .. hi - 1
    BY <1>6, <2>1, <2>5
  <2>9. got[m] \in got[m] .. hi - 1 /\ hi - 1 \in got[m] .. hi - 1
    BY <1>2, <2>8
  <2>10. Unsent[1].index = got[m] /\ Unsent[1].index = hi - 1
    BY <1>6, <2>5, <2>9
  <2>. QED BY <1>2, <1>5, <2>4, <2>7, <2>10
<1>. QED BY <1>7, <1>8

\* A handler that leaves the frame in the controller alone, and the job that waits for it.
LEMMA BusKept ==
  ASSUME TransmitterInv, TransmitterInv', BusInv, UNCHANGED <<hw, sendJob>>,
         sendPending' => sendPending,
         sendPending => /\ AwaitsCallback(job'[sendJob])
                        /\ job'[sendJob].timerSet /\ job'[sendJob].timer = job[sendJob].timer
  PROVE  BusInv'
<1>1. SendInv /\ SendInv' /\ Live \subseteq Messages
  BY LiveFinite DEF TransmitterInv
<1>2. sendPending' <=> sendPending
  <2>. SUFFICES ASSUME sendPending PROVE sendPending'
    OBVIOUS
  <2>1. sendJob \in Messages
    BY <1>1 DEF SendInv
  <2>. QED BY <1>1, <2>1 DEF SendInv
<1>. QED BY <1>2 DEF BusInv

\* The steps that leave the jobs and the grants alone.
LEMMA PunctualQuiet ==
  ASSUME TransmitterInv, BusInv, UNCHANGED <<job, hw, sendJob, sendPending, granted>>,
         got' = got \/ BusTransmit
  PROVE  Punctually
<1>1. TypeOK /\ SendInv
  BY DEF TransmitterInv
<1>2. BusInv'
  BY DEF BusInv
<1>3. ASSUME NEW m \in Messages
      PROVE  got[m] <= got'[m] /\ (IsDone(job[m]) => got'[m] = got[m])
  <2>1. got[m] \in Nat /\ got \in [Messages -> Nat]
    BY <1>1 DEF TypeOK
  <2>2. CASE got' = got
    BY <2>1, <2>2
  <2>3. CASE BusTransmit
    <3>1. hw # <<>> /\ got' = [got EXCEPT ![Head(hw).message] = @ + 1]
      BY <2>3 DEF BusTransmit
    <3>2. hw \in Seq([message : Messages, index : Nat])
      BY <1>1 DEF TypeOK
    <3>3. Head(hw) = hw[1]
      BY <3>1, <3>2
    <3>4. Head(hw).message = sendJob /\ sendPending
      BY <3>1, <3>3 DEF BusInv
    <3>5. IsDone(job[m]) => m # sendJob
      BY <1>1, <3>4 DEF SendInv, AwaitsCallback, IsDone
    <3>6. got' = [got EXCEPT ![sendJob] = @ + 1]
      BY <3>1, <3>4
    <3>. QED BY <2>1, <3>5, <3>6
  <2>. QED BY <2>2, <2>3
<1>4. \A m \in Messages : job[m].frameIndex \in Nat
  BY <1>1 DEF TypeOK, Job
<1>5. Accounted
  BY <1>3, <1>4 DEF Accounted
<1>6. GrantInv => GrantInv' /\ FailsWaiting
  BY DEF GrantInv, FailsWaiting
<1>. QED BY <1>2, <1>5, <1>6 DEF Punctually

\* processMessageTransmitters().
LEMMA PunctualProcess ==
  ASSUME TransmitterInv, BusInv, ProcessMessageTransmitters
  PROVE  Punctually
<1>. DEFINE S == {n \in Live : job[n].state = "INITIALIZED"}
            R == [m \in S |-> SetSend(job[m])]
<1>1. /\ TypeOK /\ SendInv /\ Live \subseteq Messages /\ job \in [Messages -> Job]
      /\ HandleResults(R, pendingSend, sendPending) /\ DOMAIN R = S
      /\ UNCHANGED <<hw, sendJob, got, granted>>
  BY LiveFinite DEF TransmitterInv, TypeOK, ProcessMessageTransmitters, busVars
<1>2. ASSUME NEW m \in S
      PROVE  Changed(R[m], job[m], "SEND", "UNEXPECTED", "TX_CALLBACK") /\ ~IsDone(job[m])
  <2>1. R[m] = SetState(job[m], "SEND", "UNEXPECTED", "TX_CALLBACK") /\ job[m] \in Job
        /\ job[m].state = "INITIALIZED"
    BY <1>1 DEF SetSend
  <2>2. Changed(SetState(job[m], "SEND", "UNEXPECTED", "TX_CALLBACK"), job[m], "SEND",
                "UNEXPECTED", "TX_CALLBACK")
    BY ONLY Names, <2>1, SetStateFacts
  <2>. QED BY <2>1, <2>2 DEF IsDone
<1>. HIDE DEF R
<1>3. ASSUME NEW m \in Messages
      PROVE  /\ m \in S => Same(R[m].job, job'[m])
             /\ m \notin S => job'[m] = job[m]
             /\ sendPending' => sendPending
  <2>1. m \in DOMAIN R => R[m].job \in Job
    BY <1>1, <1>2 DEF Changed
  <2>. QED BY <1>1, <2>1, HandledAs
<1>4. BusInv'
  <2>1. sendPending => /\ sendJob \in Messages /\ AwaitsCallback(job[sendJob])
                       /\ job[sendJob].timerSet
    BY <1>1 DEF SendInv, BusInv
  <2>2. sendPending => sendJob \notin S
    BY <2>1 DEF AwaitsCallback
  <2>3. sendPending => job'[sendJob] = job[sendJob]
    BY <1>3, <2>1, <2>2
  <2>4. sendPending' => sendPending
    <3>. QED BY <1>1 DEF HandleResults
  <2>5. TransmitterInv'
    BY ProcessStep
  <2>. QED BY <1>1, <2>1, <2>3, <2>4, <2>5, BusKept
<1>5. ASSUME NEW m \in Messages
      PROVE  /\ job'[m].frameIndex = job[m].frameIndex /\ job'[m].blockEnd = job[m].blockEnd
             /\ job'[m].error = job[m].error /\ (IsDone(job[m]) => job'[m] = job[m])
             /\ job'[m].flow = "RECEIVED_WAIT" => job[m].flow = "RECEIVED_WAIT"
  <2>1. CASE m \in S
    <3>1. /\ R[m].job.frameIndex = job[m].frameIndex /\ R[m].job.blockEnd = job[m].blockEnd
          /\ R[m].job.error = job[m].error /\ R[m].job.flow = "UNEXPECTED" /\ ~IsDone(job[m])
      BY <1>2, <2>1 DEF Changed
    <3>. QED BY <1>3, <2>1, <3>1 DEF Same
  <2>2. CASE m \notin S
    BY <1>3, <2>2
  <2>. QED BY <2>1, <2>2
<1>6. \A m \in Messages : job[m].frameIndex \in Nat /\ got[m] \in Nat
  BY <1>1 DEF TypeOK, Job
<1>7. Accounted
  BY <1>1, <1>5, <1>6 DEF Accounted
<1>8. GrantInv => GrantInv' /\ FailsWaiting
  <2>1. \A m \in Messages : ~IsDone(job'[m]) => ~IsDone(job[m])
    BY <1>5
  <2>. QED BY <1>1, <1>5, <2>1 DEF GrantInv, FailsWaiting
<1>. QED BY <1>4, <1>7, <1>8 DEF Punctually

\* The cyclic task: no timer of a job that waits for its callback expires.
LEMMA PunctualCyclic ==
  ASSUME TransmitterInv, BusInv, CyclicTask
  PROVE  Punctually
<1>. DEFINE R == [m \in ExpiredPrefix |-> Expired([job[m] EXCEPT !.timerSet = FALSE])]
<1>1. /\ TypeOK /\ SendInv /\ Live \subseteq Messages /\ job \in [Messages -> Job]
      /\ HandleResults(R, pendingSend, sendPending) /\ DOMAIN R = ExpiredPrefix
      /\ UNCHANGED <<hw, sendJob, got, granted>>
  BY LiveFinite DEF TransmitterInv, TypeOK, CyclicTask, busVars
<1>2. \A m \in ExpiredPrefix : m \in Live /\ TimerExpired(m)
  <2>. SUFFICES ASSUME NEW i \in DOMAIN list, \A h \in 1 .. i : TimerExpired(list[h])
                PROVE  list[i] \in Live /\ TimerExpired(list[i])
    BY DEF ExpiredPrefix
  <2>1. i \in 1 .. i
    BY SMTT(60), <1>1 DEF TypeOK
  <2>. QED BY <2>1 DEF Live, ToSet
<1>3. ASSUME NEW m \in ExpiredPrefix
      PROVE  /\ R[m].job \in Job /\ R[m].job.frameIndex = job[m].frameIndex
             /\ IsDone(job[m]) => IsDone(R[m].job) /\ R[m].job.error = job[m].error
             /\ ~IsDone(R[m].job) => /\ R[m].job.blockEnd = job[m].blockEnd
                                     /\ R[m].job.error = job[m].error
                                     /\ R[m].job.flow = "UNEXPECTED"
             /\ R[m].job.error = TimedOut => \/ R[m].job.error = job[m].error
                                             \/ /\ ~IsDone(job[m])
                                                /\ AwaitsFlowControl(job[m], FrameCount[m])
  <2>1. m \in Live /\ R[m] = Expired([job[m] EXCEPT !.timerSet = FALSE])
    BY <1>2
  <2>2. /\ job[m] \in Job /\ FrameCount[m] \in Nat \ {0} /\ granted[m] \in Nat
        /\ GoodJob(job[m], FrameCount[m], granted[m])
    BY <2>1, LiveJob
  <2>. DEFINE r == Expired([job[m] EXCEPT !.timerSet = FALSE])
  <2>3. /\ Event(r, job[m], FrameCount[m], granted[m])
        /\ IsDone(job[m]) => ~r.transition /\ r.job.state = job[m].state /\ r.job.error = job[m].error
        /\ ~IsDone(r.job) => /\ r.job.blockEnd = job[m].blockEnd /\ r.job.error = job[m].error
                             /\ r.job.flow = "UNEXPECTED"
        /\ r.job.error = "FLOW_CONTROL_TIMEOUT_EXPIRED" /\ ~IsDone(job[m]) =>
             (AwaitsFlowControl(job[m], FrameCount[m]) /\ job[m].blockEnd <= granted[m])
             \/ r.job.error = job[m].error
    BY ONLY <2>2, Expiring
  <2>. HIDE DEF r
  <2>4. R[m] = r
    BY <2>1 DEF r
  <2>. HIDE DEF R
  <2>. QED BY <2>3, <2>4 DEF Event, Kept, TimedOut
<1>. HIDE DEF R
<1>4. ASSUME NEW m \in Messages
      PROVE  /\ m \in ExpiredPrefix => Same(R[m].job, job'[m])
             /\ m \notin ExpiredPrefix => job'[m] = job[m]
  <2>1. m \in DOMAIN R => R[m].job \in Job
    BY <1>1, <1>3
  <2>. QED BY <1>1, <2>1, HandledAs
<1>5. BusInv'
  <2>1. sendPending => /\ sendJob \in Messages /\ AwaitsCallback(job[sendJob])
                       /\ job[sendJob].timerSet /\ 0 < job[sendJob].timer /\ job[sendJob].timer \in Int
    BY <1>1 DEF SendInv, BusInv, Job
  <2>2. sendPending => sendJob \notin ExpiredPrefix
    BY <1>2, <2>1 DEF TimerExpired
  <2>3. sendPending => job'[sendJob] = job[sendJob]
    BY <1>4, <2>1, <2>2
  <2>4. sendPending' => sendPending
    BY <1>1 DEF HandleResults
  <2>5. TransmitterInv'
    BY CyclicStep
  <2>. QED BY <1>1, <2>1, <2>3, <2>4, <2>5, BusKept
<1>6. ASSUME NEW m \in Messages
      PROVE  /\ job'[m].frameIndex = job[m].frameIndex
             /\ IsDone(job[m]) => IsDone(job'[m])
             /\ ~IsDone(job'[m]) => /\ job'[m].blockEnd = job[m].blockEnd
                                    /\ job'[m].error = job[m].error
                                    /\ job'[m].flow = "RECEIVED_WAIT" => job[m].flow = "RECEIVED_WAIT"
             /\ job'[m].error = TimedOut => \/ job[m].error = TimedOut
                                            \/ /\ ~IsDone(job[m])
                                               /\ AwaitsFlowControl(job[m], FrameCount[m])
  <2>1. CASE m \in ExpiredPrefix
    <3>1. Same(R[m].job, job'[m])
      BY <1>4, <2>1
    <3>2. IsDone(job'[m]) <=> IsDone(R[m].job)
      BY <3>1 DEF Same, IsDone
    <3>. QED BY <1>3, <2>1, <3>1, <3>2 DEF Same
  <2>2. CASE m \notin ExpiredPrefix
    BY <1>4, <2>2
  <2>. QED BY <2>1, <2>2
<1>7. \A m \in Messages : job[m].frameIndex \in Nat /\ got[m] \in Nat
  BY <1>1 DEF TypeOK, Job
<1>8. Accounted
  BY <1>1, <1>6, <1>7 DEF Accounted
<1>9. FailsWaiting
  BY <1>1, <1>6 DEF FailsWaiting
<1>10. GrantInv => GrantInv'
  <2>. SUFFICES ASSUME GrantInv, NEW m \in Messages, ~IsDone(job'[m])
                PROVE  /\ job'[m].blockEnd = granted'[m] /\ job'[m].flow # "RECEIVED_WAIT"
                       /\ job'[m].error = "NONE"
    BY DEF GrantInv
  <2>1. ~IsDone(job[m])
    BY <1>6
  <2>. QED BY <1>1, <1>6, <2>1 DEF GrantInv
<1>. QED BY <1>5, <1>8, <1>9, <1>10 DEF Punctually

\* startSendDataFrames() fails.
LEMMA PunctualFailed ==
  ASSUME TransmitterInv, BusInv, SendFailed
  PROVE  Punctually
<1>1. PICK m \in Candidates :
        HandleResults([n \in {m} |-> SetFailed(job[m], "NONE")], pendingSend, sendPending)
  BY DEF SendFailed
<1>. DEFINE r == SetFailed(job[m], "NONE")  R == [n \in {m} |-> r]
<1>2. /\ m \in Live /\ job[m].state = "SEND" /\ ~sendPending /\ m \in Messages
      /\ TypeOK /\ job \in [Messages -> Job] /\ UNCHANGED <<hw, sendJob, got, granted>>
  BY FoundAreLive, LiveFinite DEF TransmitterInv, TypeOK, SendFailed, busVars
<1>3. /\ Event(r, job[m], FrameCount[m], granted[m]) /\ IsDone(r.job) /\ r.job.error = "NONE"
      /\ r.job.frameIndex = job[m].frameIndex
  <2>1. job[m] \in Job /\ "NONE" \in Errors
    BY <1>2 DEF Errors
  <2>. QED BY <2>1, Failing
<1>. HIDE DEF r
<1>4. DOMAIN R = {m} /\ R[m] = r /\ HandleResults(R, pendingSend, sendPending)
  BY <1>1 DEF r
<1>. HIDE DEF R
<1>5. ASSUME NEW n \in Messages
      PROVE  /\ n = m => IsDone(job'[n]) /\ job'[n].error = "NONE" /\ job'[n].frameIndex = job[n].frameIndex
             /\ n # m => job'[n] = job[n]
  <2>1. n \in DOMAIN R => R[n].job \in Job
    BY <1>3, <1>4 DEF Event
  <2>2. /\ n \in DOMAIN R => Same(R[n].job, job'[n])
        /\ n \notin DOMAIN R => job'[n] = job[n]
    BY <1>4, <2>1, HandledAs
  <2>. QED BY <1>3, <1>4, <2>2 DEF Same, IsDone
<1>6. BusInv'
  <2>1. sendPending' => sendPending
    BY <1>4 DEF HandleResults
  <2>2. TransmitterInv'
    BY SendFailedStep
  <2>. QED BY <1>2, <2>1, <2>2, BusKept
<1>7. \A n \in Messages : job[n].frameIndex \in Nat /\ got[n] \in Nat
  BY <1>2 DEF TypeOK, Job
<1>8. Accounted
  BY <1>2, <1>5, <1>7 DEF Accounted
<1>9. FailsWaiting
  BY <1>2, <1>5 DEF FailsWaiting, TimedOut
<1>10. GrantInv => GrantInv'
  BY <1>2, <1>5 DEF GrantInv
<1>. QED BY <1>6, <1>8, <1>9, <1>10 DEF Punctually

\* The transmit callback.
LEMMA PunctualCallback ==
  ASSUME TransmitterInv, BusInv, CanFrameSent
  PROVE  Punctually
<1>1. /\ TypeOK /\ SendInv /\ FramesInv /\ hwSent /\ hw # <<>> /\ sendPending /\ hw' = Tail(hw)
      /\ job \in [Messages -> Job] /\ hw \in Seq(Frame) /\ Len(hw) <= 1
      /\ UNCHANGED <<list, sendJob, got, granted, accepted>>
  BY UnsentFacts DEF TransmitterInv, TypeOK, CanFrameSent, FramesInv, BusInv
<1>2. /\ sendJob \in Live /\ AwaitsCallback(job[sendJob]) /\ sendJob \in Messages
  BY <1>1, LiveFinite DEF SendInv
<1>3. /\ job[sendJob] \in Job /\ FrameCount[sendJob] \in Nat \ {0} /\ granted[sendJob] \in Nat
      /\ GoodJob(job[sendJob], FrameCount[sendJob], granted[sendJob])
  BY <1>2, LiveJob
<1>. DEFINE r == FramesSent(job[sendJob], FrameCount[sendJob])
<1>4. /\ r.job \in Job /\ r.transition = TRUE /\ r.cancelSend = FALSE
      /\ GoodJob(r.job, FrameCount[sendJob], granted[sendJob])
      /\ ~IsDone(job[sendJob]) /\ r.job.frameIndex = job[sendJob].frameIndex + 1
      /\ r.job.error = job[sendJob].error /\ r.job.blockEnd = job[sendJob].blockEnd
      /\ r.job.flow = "RECEIVED_WAIT" => job[sendJob].flow = "RECEIVED_WAIT"
  BY ONLY <1>2, <1>3, FrameHasBeenSent
<1>5. HandleResults([n \in {sendJob} |-> r], FALSE, FALSE)
  <2>1. {n \in Live : n = sendJob /\ ~Released(n)} = {sendJob}
    BY <1>2, <1>4 DEF Released
  <2>2. [m \in {sendJob} |-> FramesSent(job[m], FrameCount[m])] = [n \in {sendJob} |-> r]
    OBVIOUS
  <2>3. HandleResults([m \in {n \in Live : n = sendJob /\ ~Released(n)} |->
                         FramesSent(job[m], FrameCount[m])], FALSE, FALSE)
    BY <1>1 DEF CanFrameSent
  <2>. QED BY <2>1, <2>2, <2>3
<1>. HIDE DEF r
<1>6. /\ Same(r.job, job'[sendJob]) /\ sendPending' = FALSE
      /\ \A n \in Messages \ {sendJob} : job'[n] = job[n]
  BY <1>1, <1>2, <1>4, <1>5, HandledOne
<1>7. BusInv'
  <2>1. Len(hw) \in Nat \ {0}
    BY ONLY <1>1, EmptySeq
  <2>2. Tail(hw) \in Seq(Frame) /\ Len(Tail(hw)) = Len(hw) - 1
    BY ONLY <1>1, HeadTailProperties
  <2>. DEFINE n == Len(hw)  k == Len(Tail(hw))
  <2>3. n \in Nat /\ n # 0 /\ n <= 1 /\ k = n - 1
    BY <1>1, <2>1, <2>2
  <2>. HIDE DEF n, k
  <2>3a. k = 0
    BY <2>3
  <2>4. Len(Tail(hw)) = 0
    BY ONLY <2>3a DEF k
  <2>5. Tail(hw) = <<>>
    BY <2>2, <2>4, EmptySeq
  <2>6. Len(hw') = 0 /\ hw' = <<>>
    BY <1>1, <2>4, <2>5
  <2>. QED BY <1>6, <2>6 DEF BusInv
<1>8. \A n \in Messages : job[n].frameIndex \in Nat /\ got[n] \in Nat
  BY <1>1 DEF TypeOK, Job
<1>9. Accounted
  <2>. SUFFICES ASSUME NEW n \in Messages
                PROVE  job'[n].frameIndex <= job[n].frameIndex
                         + (IF hwSent /\ AwaitsCallback(job[n]) THEN 1 ELSE 0)
    BY <1>1, <1>8 DEF Accounted
  <2>1. CASE n = sendJob
    <3>1. job'[n].frameIndex = job[n].frameIndex + 1
      BY <1>4, <1>6, <2>1 DEF Same
    <3>. QED BY <1>1, <1>2, <1>8, <2>1, <3>1
  <2>2. CASE n # sendJob
    BY <1>6, <1>8, <2>2
  <2>. QED BY <2>1, <2>2
<1>10. FailsWaiting
  BY <1>4, <1>6 DEF FailsWaiting, Same
<1>11. GrantInv => GrantInv'
  BY <1>1, <1>4, <1>6 DEF GrantInv, Same
<1>. QED BY <1>7, <1>9, <1>10, <1>11 DEF Punctually

\* startSendDataFrames(): the controller is empty, and the timeout of the callback is set.
LEMMA PunctualSend ==
  ASSUME TransmitterInv, BusInv, SendFrame
  PROVE  Punctually
<1>1. PICK m \in Candidates :
        /\ hw' = Append(hw, [message |-> m, index |-> job[m].frameIndex])
        /\ sendJob' = m
        /\ HandleResults([n \in {m} |-> FrameSending(job[m], FrameCount[m])], TRUE, TRUE)
  BY DEF SendFrame
<1>2. /\ TypeOK /\ m \in Live /\ job[m].state = "SEND" /\ ~sendPending /\ m \in Messages
      /\ job \in [Messages -> Job] /\ UNCHANGED <<list, got, granted, accepted>>
  BY FoundAreLive, LiveFinite DEF TransmitterInv, TypeOK, SendFrame, TransceiverFree
<1>3. /\ job[m] \in Job /\ FrameCount[m] \in Nat \ {0} /\ granted[m] \in Nat
      /\ GoodJob(job[m], FrameCount[m], granted[m])
  BY <1>2, LiveJob
<1>. DEFINE r == FrameSending(job[m], FrameCount[m])
            f == [message |-> m, index |-> job[m].frameIndex]
<1>4. /\ r.job \in Job /\ r.transition = TRUE /\ r.cancelSend = FALSE
      /\ GoodJob(r.job, FrameCount[m], granted[m]) /\ AwaitsCallback(r.job)
      /\ ~IsDone(job[m]) /\ r.job.frameIndex = job[m].frameIndex
      /\ r.job.error = job[m].error /\ r.job.blockEnd = job[m].blockEnd
      /\ r.job.flow # "RECEIVED_WAIT"
  BY ONLY <1>2, <1>3, FrameIsSending
<1>5. HandleResults([n \in {m} |-> r], TRUE, TRUE)
  BY <1>1
<1>. HIDE DEF r
<1>6. /\ Same(r.job, job'[m]) /\ sendPending' = TRUE /\ job'[m] = ResetTimer(r.job)
      /\ \A n \in Messages \ {m} : job'[n] = job[n]
  BY <1>2, <1>4, <1>5, HandledOne
<1>7. job'[m].timerSet /\ 0 < job'[m].timer
  <2>1. r.job.timeout = "TX_CALLBACK"
    BY <1>4 DEF AwaitsCallback
  <2>2. ResetTimer(r.job).timerSet /\ ResetTimer(r.job).timer = TxTimeout
    BY <1>4, <2>1, ResetTimerFacts
  <2>. QED BY <1>6, <2>2, TransmitterAssumption
<1>8. BusInv'
  <2>1. hw = <<>> /\ f.message = m
    BY <1>2 DEF BusInv
  <2>. HIDE DEF f
  <2>2. hw' = <<f>>
    BY <1>1, <2>1 DEF f
  <2>3. Len(hw') = 1 /\ hw' # <<>> /\ hw'[1] = f
    BY <2>2
  <2>. QED BY <1>1, <1>6, <1>7, <2>1, <2>3 DEF BusInv
<1>9. \A n \in Messages : job[n].frameIndex \in Nat /\ got[n] \in Nat
  BY <1>2 DEF TypeOK, Job
<1>10. \A n \in Messages : job'[n].frameIndex = job[n].frameIndex
  BY <1>4, <1>6 DEF Same
<1>11. Accounted
  BY <1>2, <1>9, <1>10 DEF Accounted
<1>12. FailsWaiting
  BY <1>4, <1>6 DEF FailsWaiting, Same
<1>13. GrantInv => GrantInv'
  BY <1>2, <1>4, <1>6 DEF GrantInv, Same
<1>. QED BY <1>8, <1>11, <1>12, <1>13 DEF Punctually

\* Time passes while the controller is empty.
LEMMA PunctualTick ==
  ASSUME TransmitterInv, BusInv, ~BusMayStall, Tick
  PROVE  Punctually
<1>1. /\ TypeOK /\ hw = <<>> /\ job \in [Messages -> Job]
      /\ job' = [m \in Messages |-> IF m \in Live /\ job[m].timerSet
                                    THEN [job[m] EXCEPT !.timer = @ - 1] ELSE job[m]]
      /\ UNCHANGED <<sendPending, hw, sendJob, got, granted>>
  BY DEF TransmitterInv, TypeOK, Tick, busVars
<1>2. ASSUME NEW m \in Messages PROVE Same(job[m], job'[m])
  <2>1. job[m] \in Job /\ (job'[m] = job[m] \/ job'[m] = [job[m] EXCEPT !.timer = @ - 1])
    BY <1>1
  <2>. QED BY <2>1 DEF Job, Same
<1>3. BusInv'
  BY <1>1 DEF BusInv
<1>4. \A m \in Messages : job[m].frameIndex \in Nat /\ got[m] \in Nat
  BY <1>1 DEF TypeOK, Job
<1>5. Accounted
  BY <1>1, <1>2, <1>4 DEF Accounted, Same
<1>6. FailsWaiting
  BY <1>2 DEF FailsWaiting, Same
<1>7. GrantInv => GrantInv'
  BY <1>1, <1>2 DEF GrantInv, Same, IsDone
<1>. QED BY <1>3, <1>5, <1>6, <1>7 DEF Punctually

\* A sequence that has an element of a set has a first one.
LEMMA FirstExists ==
  ASSUME NEW T, NEW s \in Seq(T), NEW S, NEW x \in ToSet(s), x \in S
  PROVE  First(s, S) # {}
<1>. DEFINE K == {k \in DOMAIN s : s[k] \in S}
<1>1. DOMAIN s = 1 .. Len(s) /\ Len(s) \in Nat
  OBVIOUS
<1>2. K \in SUBSET Nat /\ K # {}
  BY <1>1 DEF ToSet
<1>3. PICK k \in K : \A j \in K : k <= j
  <2>. HIDE DEF K
  <2>. QED BY ONLY <1>2, LeastNumber
<1>4. \A h \in 1 .. k - 1 : s[h] \notin S
  <2>. SUFFICES ASSUME NEW h \in 1 .. k - 1, s[h] \in S PROVE FALSE
    OBVIOUS
  <2>1. h \in DOMAIN s /\ ~(k <= h)
    BY <1>1
  <2>. QED BY <1>3, <2>1
<1>5. s[k] \in First(s, S)
  BY <1>4 DEF First
<1>. QED BY <1>5

\* The peer answers a job that expects it.
LEMMA AnswerExpected ==
  ASSUME TransmitterInv, GrantInv, NEW m \in Messages, PeerDue(m)
  PROVE  job[m].flow = "EXPECTED"
<1>1. m \in Live /\ ~IsDone(job[m]) /\ got[m] = granted[m] /\ got[m] < FrameCount[m]
  BY DEF PeerDue, Released
<1>2. /\ job[m] \in Job /\ FrameCount[m] \in Nat \ {0} /\ granted[m] \in Nat
      /\ GoodJob(job[m], FrameCount[m], granted[m])
  BY <1>1, LiveJob
<1>3. job[m].blockEnd = granted[m] /\ job[m].flow # "RECEIVED_WAIT"
  BY <1>1 DEF GrantInv
<1>4. PICK hi \in Nat : FramesOf(m, hi)
  BY DEF TransmitterInv, FramesInv
<1>5. hi <= granted[m] /\ got[m] <= hi /\ hi = NextFrame(job[m])
  BY <1>1, <1>4 DEF FramesOf, Line
<1>. DEFINE d == IF AwaitsCallback(job[m]) THEN 1 ELSE 0
<1>6. /\ job[m].frameIndex + d = job[m].blockEnd /\ job[m].blockEnd < FrameCount[m]
      /\ job[m].frameIndex \in Nat /\ job[m].blockEnd \in Nat /\ job[m].flow \in Flows
  <2>1. job[m].frameIndex \in Nat /\ job[m].blockEnd \in Nat /\ job[m].flow \in Flows
    BY <1>2 DEF Job
  <2>2. NextFrame(job[m]) = job[m].frameIndex + d
    BY DEF NextFrame
  <2>3. job[m].frameIndex + d = job[m].blockEnd
    <3>. HIDE DEF d
    <3>. QED BY <1>1, <1>2, <1>3, <1>5, <2>2
  <2>. QED BY <1>1, <1>2, <1>3, <2>1, <2>3
<1>7. CASE AwaitsCallback(job[m])
  <2>1. IsSending(job[m], FrameCount[m])
    BY <1>1, <1>2, <1>7 DEF GoodJob, Starts, MaySend, AwaitsFlowControl, HasEnded, AwaitsCallback
  <2>2. job[m].frameIndex + 1 = job[m].blockEnd /\ job[m].frameIndex + 1 < FrameCount[m]
    BY <1>6, <1>7
  <2>3. /\ job[m].flow = "UNEXPECTED" =>
             job[m].frameIndex + 1 < job[m].blockEnd \/ job[m].frameIndex + 1 = FrameCount[m]
        /\ job[m].flow = "RECEIVED_CTS" => job[m].frameIndex + 1 < job[m].blockEnd
    BY <2>1 DEF IsSending
  <2>4. job[m].flow # "UNEXPECTED" /\ job[m].flow # "RECEIVED_CTS"
    BY <1>2, <1>6, <2>2, <2>3
  <2>. QED BY <1>3, <1>6, <2>4 DEF Flows
<1>8. CASE ~AwaitsCallback(job[m])
  <2>1. job[m].frameIndex = job[m].blockEnd
    BY <1>6, <1>8
  <2>2. AwaitsFlowControl(job[m], FrameCount[m])
    BY <1>1, <1>2, <1>6, <1>8, <2>1 DEF GoodJob, Starts, MaySend, IsSending, HasEnded
  <2>. QED BY <1>3, <2>2 DEF AwaitsFlowControl
<1>. QED BY <1>7, <1>8

\* A result that leaves a job waiting for its callback, its timer as it was.
KeepsWaiting(r, j) ==
  /\ r.transition = FALSE /\ AwaitsCallback(r.job)
  /\ r.job.timerSet = j.timerSet /\ r.job.timer = j.timer

\* A go-ahead, taken by a job that waits for its callback, is kept: neither its state nor its
\* timer changes.
LEMMA GoAheadKept ==
  ASSUME NEW j \in Job, NEW n \in Nat, NEW b \in Nat, NEW s \in BOOLEAN, AwaitsCallback(j)
  PROVE  KeepsWaiting(HandleFlowControl(j, n, "CTS", b, s), j)
<1>. DEFINE r == HandleFlowControl(j, n, "CTS", b, s)
            next == [j EXCEPT !.blockEnd = IF b > 0 THEN @ + b ELSE n, !.separated = s]
<1>1. j.timeout = "TX_CALLBACK" /\ j.state = "WAIT"
  BY DEF AwaitsCallback
<1>2. CASE j.flow # "EXPECTED"
  <2>1. r = Result(j, FALSE)
    BY <1>2 DEF HandleFlowControl
  <2>2. r.transition = FALSE /\ r.job = j
    BY <2>1 DEF Result
  <2>. HIDE DEF r
  <2>3. KeepsWaiting(r, j)
    BY <2>2 DEF KeepsWaiting
  <2>. QED BY <2>3 DEF r
<1>3. CASE j.flow = "EXPECTED"
  <2>1. r = HandleCTS(j, n, b, s)
    BY <1>3 DEF HandleFlowControl
  <2>2. r = Result([next EXCEPT !.flow = "RECEIVED_CTS"], FALSE)
    BY <1>1, <2>1 DEF HandleCTS
  <2>3. /\ next.timeout = j.timeout /\ next.state = j.state /\ next.timer = j.timer
        /\ next.timerSet = j.timerSet /\ next \in Job
    <3>1. (IF b > 0 THEN j.blockEnd + b ELSE n) \in Nat
      BY DEF Job
    <3>. QED BY <3>1 DEF Job
  <2>. HIDE DEF next, r
  <2>4. r.transition = FALSE /\ r.job = [next EXCEPT !.flow = "RECEIVED_CTS"]
    BY <2>2 DEF Result
  <2>. DEFINE k == [next EXCEPT !.flow = "RECEIVED_CTS"]
  <2>5. /\ k.timeout = j.timeout /\ k.state = j.state /\ k.timer = j.timer
        /\ k.timerSet = j.timerSet
    BY <2>3 DEF Job
  <2>. HIDE DEF k
  <2>6. r.job = k
    BY <2>4 DEF k
  <2>7. KeepsWaiting(r, j)
    BY <1>1, <2>4, <2>5, <2>6 DEF AwaitsCallback, KeepsWaiting
  <2>. QED BY <2>7 DEF r
<1>. QED BY <1>2, <1>3

\* A flow control frame of a peer that grants what it is asked for.
LEMMA PunctualAnswer ==
  ASSUME TransmitterInv, BusInv, Statuses \subseteq {"CTS"}, NEW m \in Messages, PeerFlowControl(m)
  PROVE  Punctually
<1>1. /\ TypeOK /\ SendInv /\ Live \subseteq Messages /\ job \in [Messages -> Job]
      /\ granted \in [Messages -> Nat] /\ got \in [Messages -> Nat]
      /\ FrameCount \in [Messages -> Nat \ {0}] /\ BlockSizes \subseteq Nat
  BY LiveFinite, TransmitterAssumption DEF TransmitterInv, TypeOK
<1>2. PICK b \in Nat, s \in BOOLEAN :
        /\ FlowControlFrameReceived(Address[m], "CTS", b, s)
        /\ granted' = [granted EXCEPT ![m] = IF b > 0 THEN @ + b ELSE FrameCount[m]]
  BY <1>1 DEF PeerFlowControl
<1>3. PeerDue(m) /\ m \in Live /\ ~IsDone(job[m])
  BY DEF PeerFlowControl, PeerDue, Released
<1>. DEFINE h == IF b > 0 THEN granted[m] + b ELSE FrameCount[m]
            R == [n \in Receivers(Address[m]) |->
                    HandleFlowControl(job[n], FrameCount[n], "CTS", b, s)]
<1>4. /\ HandleResults(R, pendingSend, sendPending) /\ DOMAIN R = Receivers(Address[m])
      /\ UNCHANGED <<hw, sendJob, got>>
  BY <1>2 DEF FlowControlFrameReceived, busVars
<1>5. granted'[m] = h /\ \A n \in Messages \ {m} : granted'[n] = granted[n]
  BY <1>1, <1>2
<1>. HIDE DEF h
<1>6. ASSUME NEW n \in Receivers(Address[m])
      PROVE  /\ n \in Messages /\ Address[n] = Address[m] /\ ~IsDone(job[n])
             /\ R[n].job \in Job /\ R[n].job.frameIndex = job[n].frameIndex
             /\ R[n].job.error = job[n].error
             /\ job[n].flow = "EXPECTED" => /\ n = m /\ R[n].job.blockEnd = h
                                            /\ R[n].job.flow # "RECEIVED_WAIT"
             /\ AwaitsCallback(job[n]) => /\ R[n].transition = FALSE /\ AwaitsCallback(R[n].job)
                                          /\ R[n].job.timerSet = job[n].timerSet
                                          /\ R[n].job.timer = job[n].timer
  <2>1. /\ n \in Live /\ Address[n] = Address[m] /\ ~IsDone(job[n]) /\ n \in Messages
        /\ R[n] = HandleFlowControl(job[n], FrameCount[n], "CTS", b, s)
    BY <1>1, FoundAreLive DEF Released
  <2>2. /\ job[n] \in Job /\ FrameCount[n] \in Nat \ {0} /\ granted[n] \in Nat
        /\ GoodJob(job[n], FrameCount[n], granted[n])
    BY <2>1, LiveJob
  <2>. DEFINE r == HandleFlowControl(job[n], FrameCount[n], "CTS", b, s)
  <2>3. ASSUME AwaitsCallback(job[n]) PROVE KeepsWaiting(r, job[n])
    <3>1. FrameCount[n] \in Nat
      BY <2>2
    <3>. QED BY ONLY <2>2, <2>3, <3>1, b \in Nat, s \in BOOLEAN, GoAheadKept
  <2>4. /\ r.job \in Job /\ r.job.frameIndex = job[n].frameIndex /\ r.job.error = job[n].error
        /\ job[n].flow = "EXPECTED" => n = m /\ r.job.blockEnd = h /\ r.job.flow # "RECEIVED_WAIT"
    <3>1. CASE job[n].flow # "EXPECTED"
      <4>1. r = Result(job[n], FALSE)
        BY <3>1 DEF HandleFlowControl
      <4>2. r.job = job[n]
        BY <4>1 DEF Result
      <4>. HIDE DEF r
      <4>. QED BY <2>2, <3>1, <4>2
    <3>2. CASE job[n].flow = "EXPECTED"
      <4>1. n = m /\ NextFrame(job[n]) = granted[n]
        BY <1>3, <3>2, HeardBy
      <4>2. r = HandleCTS(job[n], FrameCount[n], b, s)
        BY <3>2 DEF HandleFlowControl
      <4>. DEFINE g == IF b > 0 THEN granted[n] + b ELSE FrameCount[n]
                  c == HandleCTS(job[n], FrameCount[n], b, s)
      <4>3. /\ Event(c, job[n], FrameCount[n], g) /\ c.job.blockEnd = g
            /\ c.job.error = job[n].error /\ c.job.flow # "RECEIVED_WAIT"
        BY ONLY <2>2, <3>2, <4>1, b \in Nat, s \in BOOLEAN, HandlesCTS
      <4>4. g = h
        BY <4>1 DEF h
      <4>. HIDE DEF c, r, g
      <4>5. r = c
        BY <4>2 DEF c
      <4>. QED BY <4>1, <4>3, <4>4, <4>5 DEF Event
    <3>. QED BY <3>1, <3>2
  <2>. HIDE DEF r
  <2>5. R[n] = r
    BY <2>1 DEF r
  <2>. HIDE DEF R
  <2>. QED BY <2>1, <2>3, <2>4, <2>5 DEF KeepsWaiting
<1>. HIDE DEF R
<1>7. ASSUME NEW n \in Messages
      PROVE  /\ n \in Receivers(Address[m]) => /\ Same(R[n].job, job'[n])
                                               /\ ~R[n].transition => job'[n] = R[n].job
             /\ n \notin Receivers(Address[m]) => job'[n] = job[n]
  <2>1. n \in DOMAIN R => R[n].job \in Job
    BY <1>4, <1>6
  <2>. QED BY <1>4, <2>1, HandledAs
<1>8. BusInv'
  <2>1. sendPending => /\ sendJob \in Messages /\ AwaitsCallback(job[sendJob])
                       /\ job[sendJob].timerSet
    BY <1>1 DEF SendInv, BusInv
  <2>2. sendPending => /\ AwaitsCallback(job'[sendJob])
                       /\ job'[sendJob].timerSet /\ job'[sendJob].timer = job[sendJob].timer
    <3>. SUFFICES ASSUME sendPending
                  PROVE  /\ AwaitsCallback(job'[sendJob])
                         /\ job'[sendJob].timerSet /\ job'[sendJob].timer = job[sendJob].timer
      OBVIOUS
    <3>1. CASE sendJob \in Receivers(Address[m])
      <4>1. /\ R[sendJob].transition = FALSE /\ AwaitsCallback(R[sendJob].job)
            /\ R[sendJob].job.timerSet = job[sendJob].timerSet
            /\ R[sendJob].job.timer = job[sendJob].timer
        BY <1>6, <2>1, <3>1
      <4>2. job'[sendJob] = R[sendJob].job
        BY <1>7, <2>1, <3>1, <4>1
      <4>. QED BY <2>1, <4>1, <4>2
    <3>2. CASE sendJob \notin Receivers(Address[m])
      BY <1>7, <2>1, <3>2
    <3>. QED BY <3>1, <3>2
  <2>3. sendPending' => sendPending
    BY <1>4 DEF HandleResults
  <2>4. TransmitterInv'
    BY FlowControlStep
  <2>. QED BY <1>4, <2>2, <2>3, <2>4, BusKept
<1>9. \A n \in Messages : job[n].frameIndex \in Nat /\ got[n] \in Nat
  BY <1>1 DEF Job
<1>10. \A n \in Messages : /\ job'[n].frameIndex = job[n].frameIndex
                           /\ job'[n].error = job[n].error
  BY ZenonT(60), <1>6, <1>7 DEF Same
<1>11. Accounted
  <2>1. \A n \in Messages : IsDone(job[n]) => granted'[n] = granted[n]
    BY <1>3, <1>5
  <2>. QED BY <1>4, <1>9, <1>10, <2>1 DEF Accounted
<1>12. FailsWaiting
  BY <1>10 DEF FailsWaiting
<1>13. ASSUME AddressesDiffer, GrantInv PROVE GrantInv'
  <2>1. Receivers(Address[m]) \subseteq {m}
    BY <1>6, <1>13 DEF AddressesDiffer
  <2>2. m \in Receivers(Address[m])
    <3>. DEFINE S == {n \in Live : ~Released(n) /\ Address[n] = Address[m]}
    <3>1. m \in S /\ m \in ToSet(list) /\ list \in Seq(Messages)
      BY <1>1, <1>3 DEF Released, Live, TypeOK
    <3>. HIDE DEF S
    <3>2. First(list, S) # {}
      BY ONLY <3>1, FirstExists
    <3>. QED BY <2>1, <3>2 DEF S, Receivers
  <2>3. job[m].flow = "EXPECTED"
    BY <1>3, <1>13, AnswerExpected
  <2>4. /\ job'[m].blockEnd = granted'[m] /\ job'[m].flow # "RECEIVED_WAIT"
        /\ job'[m].error = job[m].error
    BY ZenonT(60), <1>5, <1>6, <1>7, <2>2, <2>3 DEF Same
  <2>5. \A n \in Messages \ {m} : job'[n] = job[n]
    BY <1>7, <2>1
  <2>. QED BY <1>3, <1>5, <1>13, <2>4, <2>5 DEF GrantInv
<1>. QED BY <1>8, <1>11, <1>12, <1>13 DEF Punctually

\* Every step, with a punctual bus.
LEMMA PunctualStep ==
  ASSUME Punctual, TransmitterInv, BusInv, [Next]_vars
  PROVE  Punctually
<1>1. ASSUME NEW m \in Messages, PeerFlowControl(m) PROVE Punctually
  BY <1>1, PunctualAnswer DEF Punctual
<1>2. CASE ProcessMessageTransmitters \/ CanFrameSent \/ CyclicTask
  BY <1>2, PunctualProcess, PunctualCallback, PunctualCyclic
<1>3. CASE SendFrame \/ SendFailed
  BY <1>3, PunctualSend, PunctualFailed
<1>4. CASE Tick
  BY <1>4, PunctualTick DEF Punctual
<1>5. ASSUME NEW m \in Messages, Send(m) PROVE Punctually
  <2>1. UNCHANGED <<job, hw, sendJob, sendPending, granted, got>>
    BY <1>5 DEF Send, transmitterVars, busVars
  <2>. QED BY <2>1, PunctualQuiet
<1>6. CASE SendNothing \/ SendFull \/ RemoveReleased
  <2>1. UNCHANGED <<job, hw, sendJob, sendPending, granted, got>>
    BY <1>6 DEF SendNothing, SendFull, RemoveReleased, transmitterVars, busVars
  <2>. QED BY <2>1, PunctualQuiet
<1>7. CASE NotifyProcessed \/ NotifyEnd \/ SortTransmitters \/ UNCHANGED vars
  <2>1. UNCHANGED <<job, hw, sendJob, sendPending, granted, got>>
    BY <1>7 DEF NotifyProcessed, NotifyEnd, SortTransmitters, vars, transmitterVars, busVars
  <2>. QED BY <2>1, PunctualQuiet
<1>8. CASE BusTransmit
  <2>1. UNCHANGED <<job, hw, sendJob, sendPending, granted>>
    BY <1>8 DEF BusTransmit, transmitterVars
  <2>. QED BY <1>8, <2>1, PunctualQuiet
<1>9. ~Shutdown
  BY DEF Shutdown, Punctual
<1>. QED BY <1>1, <1>2, <1>3, <1>4, <1>5, <1>6, <1>7, <1>8, <1>9 DEF Next, ContextStep

\* What the punctual bus starts with.
LEMMA PunctualStart ==
  ASSUME Init
  PROVE  BusInv /\ CountedFramesWereSent /\ GrantInv
         /\ \A m \in Messages : job[m].error # TimedOut
<1>1. /\ job = [m \in Messages |-> NewJob] /\ sendPending = FALSE /\ hw = <<>>
      /\ got = [m \in Messages |-> 0] /\ granted = [m \in Messages |-> 1]
  BY DEF Init
<1>2. NewJob.frameIndex = 0 /\ NewJob.blockEnd = 1 /\ NewJob.flow = "UNEXPECTED" /\ NewJob.error = "NONE"
  BY DEF NewJob
<1>3. Len(<<>>) = 0
  OBVIOUS
<1>4. BusInv
  BY <1>1, <1>3 DEF BusInv
<1>. QED BY <1>1, <1>2, <1>4 DEF CountedFramesWereSent, GrantInv, TimedOut

\* A frame is counted as sent only after it has been on the bus, as long as the bus sends every
\* frame before the timeout of its callback, nothing is shut down and the peer only grants: the
\* callback that frameDataSent() gives to a job is the one of its own frame.
THEOREM CountedWereSent == Punctual => (Spec => []CountedFramesWereSent)
<1>. SUFFICES ASSUME Punctual PROVE Spec => []CountedFramesWereSent
  OBVIOUS
<1>. DEFINE Inv == BusInv /\ CountedFramesWereSent
<1>1. Init => Inv
  BY PunctualStart
<1>2. TransmitterInv /\ Inv /\ [Next]_vars => Inv'
  <2>. SUFFICES ASSUME TransmitterInv, Inv, [Next]_vars PROVE Inv'
    OBVIOUS
  <2>1. BusInv' /\ Accounted /\ TransmitterInv
    BY PunctualStep, TransmitterStep DEF Punctually
  <2>2. ASSUME NEW m \in Messages PROVE job'[m].frameIndex <= got'[m]
    <3>1. /\ job[m].frameIndex \in Nat /\ got[m] \in Nat /\ job'[m].frameIndex \in Nat /\ got'[m] \in Nat
      BY TransmitterStep DEF TransmitterInv, TypeOK, Job
    <3>. DEFINE d == IF hwSent /\ AwaitsCallback(job[m]) THEN 1 ELSE 0
    <3>2. job'[m].frameIndex <= job[m].frameIndex + d /\ got[m] <= got'[m]
      BY <2>1 DEF Accounted
    <3>3. job[m].frameIndex + d <= got[m] /\ d \in Nat
      <4>1. CASE ~IsDone(job[m])
        BY <3>1, <4>1, SentFrames
      <4>2. CASE IsDone(job[m])
        <5>1. d = 0
          BY <4>2 DEF AwaitsCallback, IsDone
        <5>2. job[m].frameIndex <= got[m]
          BY DEF CountedFramesWereSent
        <5>. HIDE DEF d
        <5>. QED BY <3>1, <5>1, <5>2
      <4>. QED BY <4>1, <4>2
    <3>. HIDE DEF d
    <3>. QED BY <3>1, <3>2, <3>3
  <2>. QED BY <2>1, <2>2 DEF CountedFramesWereSent
<1>3. Inv => CountedFramesWereSent
  OBVIOUS
<1>. QED BY <1>1, <1>2, <1>3, TransmitterInvariant, PTL DEF Spec

\* A message fails for want of a flow control frame only if the peer has not sent the go-ahead,
\* as long as the bus is punctual and every message has an address of its own: a go-ahead that
\* overtakes the callback of the frame it answers is kept by handleFlowControl().
THEOREM GrantsAreHeard == Punctual /\ AddressesDiffer => (Spec => []GrantIsHeard)
<1>. SUFFICES ASSUME Punctual, AddressesDiffer PROVE Spec => []GrantIsHeard
  OBVIOUS
<1>. DEFINE Late == \A m \in Messages : job[m].error = TimedOut =>
                                          IsDone(job[m]) /\ granted[m] = got[m]
            Inv == BusInv /\ GrantInv /\ Late
<1>1. Init => Inv
  BY PunctualStart
<1>2. TransmitterInv /\ Inv /\ [Next]_vars => Inv'
  <2>. SUFFICES ASSUME TransmitterInv, Inv, [Next]_vars PROVE Inv'
    OBVIOUS
  <2>1. BusInv' /\ Accounted /\ GrantInv' /\ FailsWaiting
    BY PunctualStep DEF Punctually
  <2>2. EndsOnce
    BY EndsOnceStep DEF Punctual
  <2>3. ASSUME NEW m \in Messages, job'[m].error = TimedOut
        PROVE  IsDone(job'[m]) /\ granted'[m] = got'[m]
    <3>1. IsDone(job'[m])
      BY <2>1, <2>3 DEF GrantInv, TimedOut
    <3>2. CASE job[m].error = TimedOut
      <4>1. IsDone(job[m]) /\ granted[m] = got[m]
        BY <3>2
      <4>2. got'[m] = got[m] /\ granted'[m] = granted[m]
        BY <2>1, <4>1 DEF Accounted
      <4>. QED BY <3>1, <4>1, <4>2
    <3>3. CASE /\ ~IsDone(job[m]) /\ AwaitsFlowControl(job[m], FrameCount[m])
               /\ granted' = granted /\ got' = got
      <4>1. job[m].blockEnd = granted[m] /\ job[m].frameIndex = job[m].blockEnd
            /\ ~AwaitsCallback(job[m])
        BY <3>3 DEF GrantInv, AwaitsFlowControl, AwaitsCallback
      <4>2. got[m] = job[m].frameIndex + 0
        BY <3>3, <4>1, SentFrames
      <4>3. job[m].frameIndex \in Nat
        BY DEF TransmitterInv, TypeOK, Job
      <4>. QED BY <3>1, <3>3, <4>1, <4>2, <4>3
    <3>. QED BY <2>1, <2>3, <3>2, <3>3 DEF FailsWaiting
  <2>. QED BY <2>1, <2>3
<1>3. Inv => GrantIsHeard
  BY DEF GrantIsHeard, TimedOut
<1>. QED BY <1>1, <1>2, <1>3, TransmitterInvariant, PTL DEF Spec
===============================================================================
