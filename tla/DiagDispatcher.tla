--------------------------- MODULE DiagDispatcher ---------------------------
(***************************************************************************)
(* libs/bsw/uds: DiagDispatcher and its pool of IncomingDiagConnections,   *)
(* composed with the buffers and the routing of transportRouterSimple.     *)
(*                                                                         *)
(* A TransportMessage is the buffer of the router it lies in.  Requests    *)
(* come from the context of a transport layer, of higher priority than the *)
(* diagnostic context: send() runs between any two steps of processQueue() *)
(* at which it does not hold the lock.                                     *)
(***************************************************************************)
EXTENDS IncomingDiagConnection, FiniteSets

CONSTANTS Connections,      \* the pool of IncomingDiagConnections
          NumBuffers,       \* the router's buffers, and those
          NumShortBuffers,  \* for functional requests: NUM_FUNCTIONAL_BUFFERS
          QueueSize         \* the capacity of _sendJobQueue

ASSUME DispatcherAssumption ==
  /\ NumBuffers \in Nat \ {0} /\ NumShortBuffers \in Nat
  /\ QueueSize \in Nat \ {0}

VARIABLES
  conn,        \* the connections
  locked,      \* the buffers in use: _locked, _functionalLocked
  queue,       \* _sendJobQueue
  sendJob,     \* processQueue(): the job it works on, in memory the queue may use again
  pc,          \* its place: "idle", "loop", "popped", "checked", "busy"
  triggered,   \* _asyncProcessQueue is in the queue of the context
  running,     \* not shut down: fEnabled, ~_connectionShutdownRequested, layer registered
  dropped      \* messages that were accepted and forgotten because of a shutdown

queueVars == <<queue, sendJob, pc, triggered>>
vars == <<conn, locked, queueVars, running, dropped>>

Messages      == 1 .. NumBuffers
ShortMessages == NumBuffers + 1 .. NumBuffers + NumShortBuffers
Buffers       == Messages \cup ShortMessages

\* Requests to the ECU, to all ECUs, and of somebody who is not a tester.
Kinds  == {"physical", "functional", "foreign"}
Job    == [message : Buffers, kind : Kinds]
NoSend == [message |-> NoMessage, kind |-> "foreign"]

Init ==
  /\ conn = [c \in Connections |-> Closed]
  /\ locked = {} /\ dropped = {}
  /\ queue = <<>> /\ sendJob = NoSend /\ pc = "idle" /\ triggered = FALSE
  /\ running = TRUE
------------------------------------------------------------------------------
\* The router, and the transport layer below it.

\* getTransportMessage(): the first buffer that is free, if any; a functional request
\* takes a short one if it can.
FirstFree(buffers) == IF buffers \ locked = {} THEN {} ELSE {Min(buffers \ locked)}

Provided(kind) ==
  IF kind = "functional" /\ FirstFree(ShortMessages) # {} THEN FirstFree(ShortMessages)
  ELSE FirstFree(Messages)

\* enqueueMessage() and the trigger.  The job that fills the queue gets the memory of the
\* job popped last, which processQueue() may still refer to.
EnqueueMessage(job) ==
  /\ queue' = Append(queue, job)
  /\ sendJob' = IF Len(queue) + 1 = QueueSize /\ sendJob # NoSend THEN job ELSE sendJob
  /\ triggered' = TRUE

\* A transport layer has received a request and gives it to messageReceived(), which
\* forwards it to send() of the dispatcher.  If that fails the message is given back at
\* once; without a layer for the bus the router still reports success.
MessageReceived(kind) ==
  /\ \E b \in Provided(kind) :
       \/ /\ running /\ Len(queue) < QueueSize
          /\ locked' = locked \cup {b}
          /\ EnqueueMessage([message |-> b, kind |-> kind])
          /\ UNCHANGED dropped
       \/ /\ ~running
          /\ locked' = locked \cup {b} /\ dropped' = dropped \cup {b}
          /\ UNCHANGED <<queue, sendJob, triggered>>
  /\ UNCHANGED <<conn, pc, running>>

\* transportMessageProcessed() of a message a connection has sent.
MessageSent(c) ==
  /\ \E k \in DOMAIN conn[c].flight :
       conn' = [conn EXCEPT ![c] = TransportMessageProcessed(@, k)]
  /\ UNCHANGED <<locked, queueVars, running, dropped>>
------------------------------------------------------------------------------
\* processQueue() in the diagnostic context.

\* The runnable starts, or goes on with the loop.
InLoop == pc = "loop" \/ (pc = "idle" /\ triggered)

PopJob ==
  /\ InLoop /\ queue # <<>>
  /\ sendJob' = Head(queue) /\ queue' = Tail(queue)
  /\ pc' = "popped"
  /\ triggered' = (triggered /\ pc # "idle")
  /\ UNCHANGED <<conn, locked, running, dropped>>

QueueEmpty ==
  /\ InLoop /\ queue = <<>>
  /\ pc' = "idle"
  /\ triggered' = (triggered /\ pc # "idle")
  /\ UNCHANGED <<conn, locked, queue, sendJob, running, dropped>>

JobDone == pc' = "loop" /\ sendJob' = NoSend

\* A request of somebody else is given back.
Discard == /\ sendJob.kind = "foreign"
           /\ locked' = locked \ {sendJob.message} /\ JobDone

\* Mutant: the copy is used, and the request is not given back.
CopyRequestKept ==
  IF ~running \/ FirstFree(Messages) = {}
  THEN pc' = "busy" /\ UNCHANGED <<locked, sendJob>>
  ELSE \E b \in FirstFree(Messages) :
         /\ locked' = locked \cup {b}
         /\ sendJob' = [sendJob EXCEPT !.message = b]
         /\ pc' = "checked"

\* copyFunctionalRequest(): the request is given back, unless there is no buffer.
CopyRequest ==
  IF ~running \/ FirstFree(Messages) = {}
  THEN pc' = "busy" /\ UNCHANGED <<locked, sendJob>>
  ELSE \E b \in FirstFree(Messages) :
         /\ locked' = (locked \ {sendJob.message}) \cup {b}
         /\ sendJob' = [sendJob EXCEPT !.message = b]
         /\ pc' = "checked"

\* precheckRequest().
PrecheckRequest ==
  /\ pc = "popped"
  /\ \/ Discard
     \/ sendJob.kind = "physical" /\ pc' = "checked" /\ UNCHANGED <<locked, sendJob>>
     \/ sendJob.kind = "functional" /\ CopyRequest
  /\ UNCHANGED <<conn, queue, triggered, running, dropped>>

\* A destroyed connection; what could still refer to it is kept in sight.
Destroyed(c) == [Closed EXCEPT !.queue = c.queue, !.flight = c.flight,
                 !.pendingTimeout = c.pendingTimeout, !.globalTimeout = c.globalTimeout]

\* diagConnectionTerminated() gives the message to the listener of the request; a copy is
\* given back by the dispatcher, which after a shutdown has no router to give it to.
GiveBack(before) ==
  IF before.functional /\ ~running
  THEN dropped' = dropped \cup {before.message} /\ UNCHANGED locked
  ELSE locked' = locked \ {before.message} /\ UNCHANGED dropped

\* What becomes of connection c, which is `before' when the function is called.
Become(c, before, after) ==
  /\ conn' = [conn EXCEPT ![c] = IF after.isOpen THEN after ELSE Destroyed(after)]
  /\ IF before.isOpen /\ ~after.isOpen THEN GiveBack(before) ELSE UNCHANGED <<locked, dropped>>

\* diagJobRoot.execute(): a job takes the request, possibly as a nested one; the request
\* is ignored; or it is refused, which the dispatcher answers.
Executed(c) ==
  {[c EXCEPT !.job = Working, !.suppress = s] : s \in BOOLEAN}
  \cup StartNestedRequest(c)
  \cup {Terminate(c)}
  \cup {Terminate(SendNegativeResponse(c, code)) : code \in {"range", "other"}}

\* dispatchIncomingRequest() with a connection of the pool ...
DispatchIncomingRequest(c) ==
  /\ pc = "checked" /\ running /\ ~conn[c].isOpen
  /\ LET opened == Opened(sendJob.message, sendJob.kind = "functional")
     IN \E after \in Executed(opened) : Become(c, opened, after)
  /\ JobDone
  /\ UNCHANGED <<queue, triggered, running>>

\* ... or without one.
NoConnection ==
  /\ pc = "checked" /\ running /\ \A c \in Connections : conn[c].isOpen
  /\ pc' = "busy"
  /\ UNCHANGED <<conn, locked, queue, sendJob, triggered, running, dropped>>

\* sendBusyResponse(), and the request is given back.
SendBusyResponse ==
  /\ pc = "busy"
  /\ locked' = locked \ {sendJob.message}
  /\ JobDone
  /\ UNCHANGED <<conn, queue, triggered, running, dropped>>

\* A shutdown has been requested: the job is left alone.
DropRequest ==
  /\ pc = "checked" /\ ~running
  /\ dropped' = dropped \cup {sendJob.message}
  /\ JobDone
  /\ UNCHANGED <<conn, locked, queue, triggered, running>>
------------------------------------------------------------------------------
\* The other runnables of the diagnostic context, and the jobs.

\* The answers a send may get; without the transport layer all of them fail.
Answers == IF running THEN BOOLEAN ELSE {FALSE}

Closure(c) ==
  /\ pc = "idle" /\ conn[c].queue # <<>>
  /\ \E ok, ok2 \in Answers, overflow \in BOOLEAN :
       \E after \in RunClosure(conn[c], ok, ok2, overflow) : Become(c, conn[c], after)
  /\ UNCHANGED <<queueVars, running>>

PendingTimeout(c) ==
  /\ pc = "idle" /\ conn[c].pendingTimeout
  /\ \E ok \in Answers : Become(c, conn[c], PendingExpired(conn[c], ok))
  /\ UNCHANGED <<queueVars, running>>

\* The requests packed into a nested request are assumed to be answered in time.
GlobalTimeout(c) ==
  /\ pc = "idle" /\ conn[c].globalTimeout /\ conn[c].nested = NoNested
  /\ Become(c, conn[c], GlobalExpired(conn[c]))
  /\ UNCHANGED <<queueVars, running>>

\* A job answers, from whatever context it works in.
JobAnswers(c) ==
  /\ conn[c].job = Working
  /\ \/ conn' = [conn EXCEPT ![c] = SendPositiveResponse(@)]
     \/ \E code \in Codes \ {"pending"} :
          conn' = [conn EXCEPT ![c] = SendNegativeResponse(@, code)]
  /\ UNCHANGED <<locked, queueVars, running, dropped>>

JobAsksForTime(c) ==
  /\ conn[c].job = Working
  /\ conn' = [conn EXCEPT ![c] = SendNegativeResponse(@, "pending")]
  /\ UNCHANGED <<locked, queueVars, running, dropped>>

\* UdsSystem::shutdown() and DiagDispatcher::shutdown(): the router forgets the layer,
\* the pool is released, which leaves the connections that are open alone.
Shutdown ==
  /\ pc = "idle" /\ running
  /\ running' = FALSE
  /\ UNCHANGED <<conn, locked, queueVars, dropped>>

ContextStep == PopJob \/ QueueEmpty \/ PrecheckRequest \/ NoConnection \/ SendBusyResponse
               \/ DropRequest \/ \E c \in Connections : DispatchIncomingRequest(c) \/ Closure(c)

Next == \/ ContextStep
        \/ \E kind \in Kinds : MessageReceived(kind)
        \/ \E c \in Connections : \/ MessageSent(c) \/ PendingTimeout(c) \/ GlobalTimeout(c)
                                  \/ JobAnswers(c) \/ JobAsksForTime(c)
        \/ Shutdown

Spec == Init /\ [][Next]_vars

\* The context runs its closures and timeouts in turn, and processQueue() does not go on
\* for ever because a request arrives before it has emptied the queue; the transport layer
\* reports every message it has accepted, and does not refuse RESPONSE_PENDING for ever;
\* a job of a nested request that can answer again and again, for it only asks for time,
\* does so (others may never answer).
FairSpec == /\ Spec /\ WF_vars(ContextStep) /\ []<>(pc = "idle")
            /\ \A c \in Connections :
                 /\ SF_vars(Closure(c)) /\ SF_vars(GlobalTimeout(c)) /\ WF_vars(MessageSent(c))
                 /\ SF_vars(PendingTimeout(c) /\ conn'[c].flight # <<>>)
                 /\ SF_vars(conn[c].nested # NoNested /\ JobAnswers(c))
------------------------------------------------------------------------------
\* Who holds a buffer: jobs of the queue, the job being processed, connections.
Holders(b) ==
  {<<"queue", k>> : k \in {k \in DOMAIN queue : queue[k].message = b}}
  \cup (IF sendJob.message = b THEN {<<"sendJob", 0>>} ELSE {})
  \cup {<<"conn", c>> : c \in {c \in Connections : conn[c].isOpen /\ conn[c].message = b}}
  \cup (IF b \in dropped THEN {<<"dropped", 0>>} ELSE {})

\* Every buffer in use is held by exactly one job or connection that will give it
\* back, and nobody holds a buffer that has been given back.
BuffersHeldOnce ==
  \A b \in Buffers : Cardinality(Holders(b)) = IF b \in locked THEN 1 ELSE 0

\* When the connection has given the request (whose buffer the response is written to)
\* back, nothing of it is left: no closure, no message being sent, no timeout.
NothingOutlivesConnection ==
  \A c \in Connections : ~conn[c].isOpen =>
    /\ conn[c].queue = <<>> /\ conn[c].flight = <<>>
    /\ ~conn[c].pendingTimeout /\ ~conn[c].globalTimeout

\* A response and a RESPONSE_PENDING are never on their way at the same time, so that
\* the one closure for transportMessageProcessed() is never overwritten.
OneMessageInFlight ==
  \A c \in Connections :
    Len(conn[c].flight) + (IF IsQueued(conn[c], "processed") THEN 1 ELSE 0) <= 1

\* No message follows the final response to a request.
NothingAfterFinalResponse ==
  [][\A c \in Connections : conn[c].answered /\ conn'[c].answered =>
       Len(conn'[c].flight) <= Len(conn[c].flight)]_vars

\* Every request's buffer is given back, unless the dispatcher is shut down.
RequestGivenBack == \A b \in Buffers : b \in locked ~> b \notin locked \/ ~running
==============================================================================
