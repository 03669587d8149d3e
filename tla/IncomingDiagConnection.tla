----------------------- MODULE IncomingDiagConnection -----------------------
(***************************************************************************)
(* libs/bsw/uds: IncomingDiagConnection, the link between a request and    *)
(* the diagnostic job that answers it, with the NestedDiagRequest of       *)
(* MultipleReadDataByIdentifier.                                           *)
(*                                                                         *)
(* A connection is a record; what its functions do is a function of it.    *)
(* They run in the diagnostic context, one after the other.  The functions *)
(* that jobs and the transport layer call from anywhere only note what is  *)
(* to be done and put a closure into the queue of that context.  `ok' is   *)
(* the answer of the transport layer to the message the function sends.    *)
(***************************************************************************)
EXTENDS Naturals, Sequences, SequencesExt

CONSTANT NestedRequests   \* the number of requests packed into a nested request

ASSUME ConnectionAssumption == NestedRequests \in Nat \ {0}

\* The response codes that are told apart: REQUEST_OUT_OF_RANGE, which is not sent in
\* answer to a functional request, RESPONSE_PENDING, and any other.
Codes == {"range", "pending", "other"}

NoMessage == 0   \* a null pointer to a TransportMessage

NoNested == [active |-> FALSE]
NoJob    == [state |-> "none"]

\* The diagnostic job that holds the connection: it works, waits for responseSent(), or
\* will never answer.
Working    == [state |-> "work"]
Stuck      == [state |-> "stuck"]
Asked(r)   == [state |-> "wait", response |-> r]

\* The members of IncomingDiagConnection.  `queue' holds its closures in the context's
\* queue with their arguments, `response' what is to be sent, `flight' the messages
\* given to the transport layer whose transportMessageProcessed() has not come yet;
\* `answered': the transport layer has accepted a response other than RESPONSE_PENDING.
Closed ==
  [isOpen |-> FALSE, message |-> NoMessage, functional |-> FALSE, suppress |-> FALSE,
   sender |-> FALSE, callbacks |-> 0, terminating |-> FALSE, pendingIsPending |-> FALSE,
   pendingSent |-> FALSE, pendingIsBeingSent |-> FALSE, nested |-> NoNested, job |-> NoJob,
   response |-> "none", answered |-> FALSE, pendingTimeout |-> FALSE, globalTimeout |-> FALSE,
   queue |-> <<>>, flight |-> <<>>]

\* The constructor, requestIncomingConnection() and open(true).
Opened(message, functional) ==
  [Closed EXCEPT !.isOpen = TRUE, !.message = message, !.functional = functional,
                 !.pendingTimeout = TRUE, !.globalTimeout = TRUE]

IsQueued(c, call) == \E k \in DOMAIN c.queue : c.queue[k].call = call

\* The closure gets its arguments, then async::execute(): a closure that is queued already
\* is not queued again, but has the new arguments.
Execute(c, call, arg) ==
  LET new == [call |-> call, arg |-> arg]
  IN [c EXCEPT !.queue = IF IsQueued(c, call)
                         THEN [k \in DOMAIN @ |-> IF @[k].call = call THEN new ELSE @[k]]
                         ELSE Append(@, new)]
------------------------------------------------------------------------------
\* Sending a response.

\* sendPositiveResponseInternal(); the result is ignored by the jobs.
SendPositiveResponse(c) ==
  IF ~c.isOpen \/ c.sender THEN c
  ELSE Execute([c EXCEPT !.callbacks = @ + 1, !.job = Asked("positive")], "positive", "ok")

\* sendNegativeResponse().
SendNegativeResponse(c, code) ==
  IF ~c.isOpen THEN c
  ELSE Execute([c EXCEPT !.callbacks = @ + 1, !.job = Asked(code)], "negative", code)

\* endNestedRequest().
EndNestedRequest(c) ==
  LET ended == [c EXCEPT !.nested = NoNested]
  IN IF c.nested.code = "ok" THEN SendPositiveResponse(ended)
     ELSE SendNegativeResponse(ended, c.nested.code)

\* diagConnectionTerminated() has returned the message and destroyed the connection.
Terminated(c) ==
  [c EXCEPT !.isOpen = FALSE, !.pendingTimeout = FALSE, !.globalTimeout = FALSE,
            !.terminating = FALSE, !.sender = FALSE, !.message = NoMessage, !.job = NoJob]

\* Mutant: outstanding callbacks are not waited for.
TerminateAtOnce(c) ==
  IF c.nested # NoNested
  THEN IF c.nested.code = "ok" THEN Execute(c, "next", "ok") ELSE EndNestedRequest(c)
  ELSE IF ~c.isOpen THEN c ELSE Terminated(c)

\* terminate(): goes on with a nested request, waits for outstanding callbacks.
Terminate(c) ==
  IF c.nested # NoNested
  THEN IF c.nested.code = "ok" THEN Execute(c, "next", "ok") ELSE EndNestedRequest(c)
  ELSE IF ~c.isOpen THEN c
  ELSE IF c.callbacks # 0 THEN [c EXCEPT !.terminating = TRUE]
  ELSE Terminated(c)

\* AbstractDiagJob::responseSent(): the default terminates the connection; a job that
\* has sent RESPONSE_PENDING itself goes on working.
ResponseSent(c) ==
  IF c.job = Asked("pending") THEN [c EXCEPT !.job = Working]
  ELSE Terminate([c EXCEPT !.job = NoJob])

Sent(c) == [c EXCEPT !.flight = Append(@, "response"), !.response = "none",
                     !.answered = @ \/ c.response # "pending"]

\* Mutant: a failed send still counts.
SendResponseKept(c, ok) ==
  IF ok THEN Sent(c)
  ELSE LET told == IF c.sender THEN ResponseSent([c EXCEPT !.sender = FALSE]) ELSE c
       IN IF told.terminating /\ told.callbacks = 0 THEN Terminate(told) ELSE told

\* sendResponse().
SendResponse(c, ok) ==
  IF ok THEN Sent(c)
  ELSE LET failed == [c EXCEPT !.callbacks = @ - 1]
           told == IF c.sender THEN ResponseSent([failed EXCEPT !.sender = FALSE]) ELSE failed
       IN IF told.terminating /\ told.callbacks = 0 THEN Terminate(told) ELSE told

\* sendResponsePending(), of an open connection only.
SendResponsePending(c, ok) ==
  IF ~c.isOpen \/ ~ok THEN c
  ELSE [c EXCEPT !.callbacks = @ + 1, !.pendingSent = TRUE, !.pendingIsBeingSent = TRUE,
                 !.flight = Append(@, "pending")]

\* A response that is not to be sent counts as sent.
Suppressed(c) == ResponseSent([c EXCEPT !.callbacks = @ - 1, !.sender = FALSE])

\* Mutant: the response does not wait for the RESPONSE_PENDING that is being sent.
AsyncSendPositiveAtOnce(c, ok, overflow) ==
  IF c.nested # NoNested
  THEN ResponseSent([c EXCEPT !.callbacks = @ - 1, !.nested.combined = "ok",
                              !.nested.code = IF overflow THEN "other" ELSE @])
  ELSE LET c1 == [c EXCEPT !.sender = TRUE, !.response = "positive"]
       IN IF c.suppress /\ ~c.pendingSent THEN Suppressed(c1) ELSE SendResponse(c1, ok)

\* asyncSendPositiveResponse(); `overflow': the response of a nested request is too long.
AsyncSendPositiveResponse(c, ok, overflow) ==
  IF c.nested # NoNested
  THEN ResponseSent([c EXCEPT !.callbacks = @ - 1, !.nested.combined = "ok",
                              !.nested.code = IF overflow THEN "other" ELSE @])
  ELSE LET c1 == [c EXCEPT !.sender = TRUE, !.response = "positive"]
       IN IF c.suppress /\ ~c.pendingSent THEN Suppressed(c1)
          ELSE IF c.pendingIsBeingSent THEN c1 ELSE SendResponse(c1, ok)

\* handleNestedResponseCode(), defaultCheckResponse(): out of range is skipped, any other
\* negative response ends the nested request.
Refused(n, code) == IF code = "range" THEN n ELSE [n EXCEPT !.combined = code, !.code = code]

\* asyncSendNegativeResponse().
AsyncSendNegativeResponse(c, code, ok) ==
  IF c.nested # NoNested
  THEN LET c1 == [c EXCEPT !.callbacks = @ - 1]
       IN IF code # "pending" THEN ResponseSent([c1 EXCEPT !.nested = Refused(@, code)])
          ELSE IF c.nested.pendingSent THEN ResponseSent(c1)
          ELSE LET c2 == [c1 EXCEPT !.nested.pendingSender = TRUE, !.pendingTimeout = TRUE,
                                    !.pendingIsPending = (c1.callbacks # 0)]
               IN IF c2.pendingIsPending THEN c2 ELSE SendResponsePending(c2, ok)
  ELSE LET c1 == [c EXCEPT !.sender = TRUE, !.response = code]
       IN IF c.functional /\ code = "range" THEN Suppressed(c1)
          ELSE IF c.pendingIsBeingSent THEN c1
          ELSE SendResponse([c1 EXCEPT !.pendingTimeout = @ \/ code = "pending"], ok)
------------------------------------------------------------------------------
\* The nested request.

\* triggerNextNestedRequest(): requests are skipped as long as they are out of range; one
\* is given to a job, or fails and ends it, or there is none left.
TriggerNextNestedRequest(c) ==
  IF c.nested.code # "ok" THEN {EndNestedRequest(c)}
  ELSE {[c EXCEPT !.nested.left = n, !.job = Working] : n \in 0 .. c.nested.left - 1}
       \cup {EndNestedRequest([c EXCEPT !.nested = Refused([@ EXCEPT !.left = n], "other")])
               : n \in 0 .. c.nested.left - 1}
       \cup {EndNestedRequest([c EXCEPT !.nested.left = 0, !.nested.code = c.nested.combined])}

\* MultipleReadDataByIdentifier::process(), startNestedRequest().
StartNestedRequest(c) ==
  TriggerNextNestedRequest(
    [c EXCEPT !.nested = [active |-> TRUE, left |-> NestedRequests, combined |-> "range",
                          code |-> "ok", pendingSender |-> FALSE, pendingSent |-> FALSE]])
------------------------------------------------------------------------------
\* The transport layer and the timeouts.

\* transportMessageProcessed(), from the context of the transport layer.
TransportMessageProcessed(c, k) ==
  Execute([c EXCEPT !.flight = RemoveAt(@, k)], "processed", c.flight[k])

\* asyncTransportMessageProcessed(); `ok2' answers the RESPONSE_PENDING sent at its end.
AsyncTransportMessageProcessed(c, message, ok, ok2) ==
  LET pending == message = "pending"
      c1 == [c EXCEPT !.callbacks = @ - 1, !.pendingIsBeingSent = @ /\ ~pending]
      c2 == [c1 EXCEPT !.nested.pendingSent = TRUE, !.nested.pendingSender = FALSE]
      c3 == IF ~c1.sender THEN c1
            ELSE IF pending THEN SendResponse(c1, ok)
            ELSE ResponseSent([c1 EXCEPT !.sender = FALSE])
  IN IF pending /\ c.nested # NoNested
     THEN IF c.nested.pendingSender THEN ResponseSent(c2) ELSE c2
     ELSE IF c3.callbacks # 0 THEN c3
     ELSE IF c3.terminating THEN Terminate(c3)
     ELSE IF c3.pendingIsPending
     THEN SendResponsePending([c3 EXCEPT !.pendingIsPending = FALSE], ok2)
     ELSE c3

\* Mutant: RESPONSE_PENDING is sent whatever is outstanding.
PendingExpiredAlways(c, ok) == SendResponsePending(c, ok)

\* expired() of _responsePendingTimeout, which is started again.
PendingExpired(c, ok) ==
  IF c.callbacks # 0 THEN [c EXCEPT !.pendingIsPending = TRUE]
  ELSE SendResponsePending([c EXCEPT !.pendingIsPending = FALSE], ok)

\* expired() of _globalPendingTimeout.  A job that has not answered by now never will.
GlobalExpired(c) ==
  Terminate([c EXCEPT !.pendingTimeout = FALSE, !.globalTimeout = FALSE,
                      !.job = IF @ = Working THEN Stuck ELSE @])

\* One closure of the connection runs.
RunClosure(c, ok, ok2, overflow) ==
  LET c1 == [c EXCEPT !.queue = Tail(@)]
      arg == Head(c.queue).arg
  IN CASE Head(c.queue).call = "positive"  -> {AsyncSendPositiveResponse(c1, ok, overflow)}
       [] Head(c.queue).call = "negative"  -> {AsyncSendNegativeResponse(c1, arg, ok)}
       [] Head(c.queue).call = "processed" -> {AsyncTransportMessageProcessed(c1, arg, ok, ok2)}
       [] Head(c.queue).call = "next"      -> TriggerNextNestedRequest(c1)
==============================================================================
