------------------------------ MODULE DoIpServer ------------------------------
(***************************************************************************)
(* libs/bsw/doip, server: the transport layer with its alive checks, its   *)
(* connections (handler, TCP connection and diagnostic message handler)    *)
(* and their pools.                                                        *)
(*                                                                         *)
(* All of it runs in one context, which also gets the callbacks of the TCP *)
(* stack; only send() comes from another context, of lower priority: a     *)
(* whole handler fits between two of its steps.  A handler is a function   *)
(* from a state record to the next one, as the calls it makes come back    *)
(* through callbacks.  Of the bytes on a connection only the frames are    *)
(* kept, of a send job whether it has been acknowledged.                   *)
(***************************************************************************)
EXTENDS Naturals, Sequences, SequencesExt, FiniteSets

CONSTANTS Connections,      \* the places of the connection pool
          Testers,          \* source addresses
          Groups,           \* socket groups
          MaxConnections,   \* getMaxConnectionCount()
          NumSendJobs,      \* _sendJobPool of a connection
          NumProtocolJobs,  \* the shared pool of diagnostic acknowledgements
          NumMessageJobs,   \* the shared pool of diagnostic messages
          Messages,         \* the transport messages given to send()
          None,             \* no connection, helper, message, address
          MaxAccepts        \* bound: the number of connections accepted

ASSUME DoIpAssumption ==
  /\ {NumSendJobs, NumProtocolJobs, NumMessageJobs} \subseteq Nat \ {0}
  /\ MaxConnections \in Nat \ {0} /\ MaxAccepts \in Nat
  /\ None \notin Connections \cup Testers \cup Groups \cup Messages

VARIABLES
  conn,        \* the connections
  open,        \* _connections, the latest one first
  toRelease,   \* _connectionsToRelease
  helpers,     \* _aliveCheckHelpers, at most one for a socket group
  posted,      \* the layer's runnables in the queue of the context
  active,      \* the internal addresses the application takes for routed
  unreported,  \* messages accepted by send() whose listener has not been called
  sender,      \* the call of send() in the other context
  locks,       \* _removeLockCount
  accepts      \* the number of connections accepted so far

serverVars == <<conn, open, toRelease, helpers, posted, active, unreported>>
vars == <<serverVars, sender, locks, accepts>>

Free == [used |-> FALSE, state |-> "SHUTDOWN", group |-> None, source |-> None,
         pending |-> FALSE, routed |-> FALSE, timer |-> FALSE, marked |-> FALSE,
         socket |-> FALSE, held |-> FALSE, jobs |-> <<>>]

\* A connection of which start() has been called.
Started(g) == [Free EXCEPT !.used = TRUE, !.state = "INACTIVE", !.group = g,
                           !.timer = TRUE, !.socket = TRUE]

NotSending == [pc |-> "idle", connection |-> None, message |-> None]

\* A frame to be sent; `last' ones close the connection when they have been sent.
Answer(last)  == [pool |-> "handler",  last |-> last, message |-> None]
Ack(last)     == [pool |-> "protocol", last |-> last, message |-> None]
Transport(m)  == [pool |-> "message",  last |-> FALSE, message |-> m]

Init ==
  /\ conn = [c \in Connections |-> Free]
  /\ open = <<>> /\ toRelease = <<>>
  /\ helpers = [g \in Groups |-> None]
  /\ posted = <<>> /\ active = {} /\ unreported = {}
  /\ sender = NotSending /\ locks = 0 /\ accepts = 0

\* `closing' are the connections executeEventClose() has taken off the list to close them.
State == [conn |-> conn, open |-> open, toRelease |-> toRelease, helpers |-> helpers,
          posted |-> posted, active |-> active, unreported |-> unreported, closing |-> <<>>]

Become(s) ==
  \E t \in {s} :
    /\ conn' = t.conn /\ open' = t.open /\ toRelease' = t.toRelease
    /\ helpers' = t.helpers /\ posted' = t.posted
    /\ active' = t.active /\ unreported' = t.unreported

\* async::execute(): a runnable that is queued is not queued again.
Post(s, runnable) ==
  IF Contains(s.posted, runnable) THEN s ELSE [s EXCEPT !.posted = Append(@, runnable)]

IsRouting(s, c) == s.conn[c].state = "ACTIVE"

\* findRoutingConnectionBySourceAddress(); the internal address is the source address.
RoutingConnection(s, a) ==
  SelectSeq(s.open, LAMBDA c : IsRouting(s, c) /\ s.conn[c].source = a)

RoutingInGroup(s, g) == SelectSeq(s.open, LAMBDA c : IsRouting(s, c) /\ s.conn[c].group = g)
------------------------------------------------------------------------------
\* The connection.

JobsOf(s, c, pool) == SelectSeq(s.conn[c].jobs, LAMBDA j : j.pool = pool)

Queued(s, pool) ==
  {<<c, i>> \in Connections \X (1 .. NumSendJobs + NumProtocolJobs + NumMessageJobs) :
     i <= Len(JobsOf(s, c, pool))}

\* DoIpTcpConnection::sendMessage(); a job that is refused is destroyed at once.
SendMessage(s, c, job) ==
  IF s.conn[c].socket THEN [s EXCEPT !.conn[c].jobs = Append(@, job)] ELSE s

\* closeConnection() and releaseSendJobs() of the TCP connection: every job is released,
\* the listener of a message is told.
CloseSocket(s, c) ==
  IF s.conn[c].socket
  THEN [s EXCEPT !.conn[c].socket = FALSE, !.conn[c].jobs = <<>>,
                 !.unreported = @ \ {s.conn[c].jobs[i].message : i \in DOMAIN s.conn[c].jobs}]
  ELSE s

\* The layer's connectionClosed(): an alive check on behalf of the connection loses its
\* cause, the connection waits for its release.  (One that waits already, or that
\* executeEventClose() has in its list, is linked: push_front() refuses it.)
LayerConnectionClosed(s, c) ==
  LET g == s.conn[c].group
      t == [s EXCEPT
              !.helpers[g] = IF @ # None /\ @.handler = c THEN [@ EXCEPT !.handler = None] ELSE @,
              !.open = SelectSeq(@, LAMBDA d : d # c),
              !.toRelease = IF Contains(s.closing \o @, c) THEN @ ELSE <<c>> \o @]
  IN Post(t, "release")

RECURSIVE Close(_, _), RoutingActivationCompleted(_, _, _), StartAliveChecks(_)

\* allocateSendJob() and the use of the job in sendNack(), sendRoutingActivationResponse()
\* and startAliveCheck(): without a job the connection is closed.
SendAnswer(s, c, last) ==
  LET t == IF last THEN [s EXCEPT !.conn[c].state = "CLOSING"] ELSE s
  IN IF s.conn[c].state = "SHUTDOWN" \/ Len(JobsOf(s, c, "handler")) >= NumSendJobs
     THEN Close(IF s.conn[c].state = "SHUTDOWN" THEN s ELSE t, c)
     ELSE SendMessage(t, c, Answer(last))

\* Mutant: any answer makes room.
EndAliveCheckHasty(s, g, alive) ==
  LET handler == s.helpers[g].handler
      t == IF handler # None
           THEN RoutingActivationCompleted([s EXCEPT !.helpers[g].handler = None], handler, TRUE)
           ELSE s
  IN IF t.helpers[g].count > 1 THEN [t EXCEPT !.helpers[g].count = @ - 1]
     ELSE [t EXCEPT !.helpers[g] = None]

\* endAliveCheck(): the first connection that is not alive makes room, the last answer
\* ends the check.
EndAliveCheck(s, g, alive) ==
  LET handler == s.helpers[g].handler
      t == IF ~alive /\ handler # None
           THEN RoutingActivationCompleted([s EXCEPT !.helpers[g].handler = None], handler, TRUE)
           ELSE s
      ended == [t EXCEPT !.helpers[g] = None]
  IN IF t.helpers[g].count > 1 THEN [t EXCEPT !.helpers[g].count = @ - 1]
     ELSE IF handler # None THEN RoutingActivationCompleted(ended, handler, FALSE)
     ELSE ended

\* The layer's aliveCheckResponseReceived(): a helper belongs to the socket group of the
\* connection that has answered.
AliveCheckResponse(s, c, alive) ==
  LET g == s.conn[c].group
  IN StartAliveChecks(IF s.helpers[g] # None THEN EndAliveCheck(s, g, alive) ELSE s)

\* Mutant: a connection that is closed does not answer its alive check.
CloseUnanswered(s, c) ==
  IF s.conn[c].state = "SHUTDOWN" THEN s
  ELSE LET t == [CloseSocket([s EXCEPT !.conn[c].state = "SHUTDOWN"], c)
                   EXCEPT !.conn[c].held = FALSE, !.conn[c].timer = FALSE]
       IN LayerConnectionClosed(t, c)

\* Mutant: the message that is being received is not given back.
CloseHolding(s, c) ==
  IF s.conn[c].state = "SHUTDOWN" THEN s
  ELSE LET t == [CloseSocket([s EXCEPT !.conn[c].state = "SHUTDOWN"], c)
                   EXCEPT !.conn[c].timer = FALSE]
           u == LayerConnectionClosed(t, c)
       IN IF u.conn[c].pending THEN AliveCheckResponse(u, c, FALSE) ELSE u

\* DoIpServerConnectionHandler::close() with the message handler's connectionClosed().
Close(s, c) ==
  IF s.conn[c].state = "SHUTDOWN" THEN s
  ELSE LET t == [CloseSocket([s EXCEPT !.conn[c].state = "SHUTDOWN"], c)
                   EXCEPT !.conn[c].held = FALSE, !.conn[c].timer = FALSE]
           u == LayerConnectionClosed(t, c)
       IN IF u.conn[c].pending THEN AliveCheckResponse(u, c, FALSE) ELSE u

\* routingActivationCompleted(): the response may have closed the connection.
RoutingActivationCompleted(s, c, success) ==
  IF s.conn[c].state # "ACTIVATING" THEN s
  ELSE LET t == SendAnswer(s, c, ~success)
       IN IF success
          THEN [t EXCEPT !.conn[c].state = "ACTIVE", !.conn[c].routed = TRUE,
                         !.conn[c].timer = TRUE,
                         !.active = @ \cup {s.conn[c].source}]
          ELSE t

\* The connection's startAliveCheck().
CheckConnection(s, c) ==
  IF ~IsRouting(s, c) THEN AliveCheckResponse(s, c, FALSE)
  ELSE LET t == [s EXCEPT !.conn[c].pending = TRUE]
       IN IF Len(JobsOf(t, c, "handler")) < NumSendJobs
          THEN SendAnswer([t EXCEPT !.conn[c].timer = TRUE], c, FALSE)
          ELSE Close(t, c)

\* The loop over the connections to check: a connection that closes takes the iterator
\* with it into the list of those to be released, and the rest is not checked.
RECURSIVE CheckAll(_, _, _)
CheckAll(s, g, checked) ==
  IF checked = <<>> THEN s
  ELSE LET c == Head(checked)
           t == CheckConnection([s EXCEPT !.helpers[g].count = @ + 1], c)
       IN IF Contains(t.open, c) THEN CheckAll(t, g, Tail(checked)) ELSE t

\* startAliveCheck(routingActivationConnection, connectionToCheck).
StartAliveCheck(s, c, checked) ==
  LET g == s.conn[c].group
      t == [s EXCEPT !.helpers[g] = [handler |-> c, count |-> 1]]
  IN EndAliveCheck(CheckAll(t, g, checked), g, TRUE)

\* The connection that routes the source address already, if any.
Rivals(s, c) ==
  LET routing == RoutingConnection(s, s.conn[c].source)
  IN IF routing = <<>> THEN <<>> ELSE <<Head(routing)>>

\* The layer's startAliveCheck(): as long as there is a connection to activate, of a socket
\* group without a helper: check the connection of the same tester, or activate it, or,
\* when there are too many, check those of the socket group.
StartAliveChecks(s) ==
  LET waiting == SelectSeq(s.open, LAMBDA c : /\ s.conn[c].state = "ACTIVATING"
                                              /\ s.helpers[s.conn[c].group] = None)
      c == Head(waiting)
      g == s.conn[c].group
  IN IF waiting = <<>> THEN s
     ELSE StartAliveChecks(
            IF Rivals(s, c) # <<>> THEN StartAliveCheck(s, c, Rivals(s, c))
            ELSE IF Len(RoutingInGroup(s, g)) < MaxConnections
            THEN RoutingActivationCompleted(s, c, TRUE)
            ELSE StartAliveCheck(s, c, RoutingInGroup(s, g)))
------------------------------------------------------------------------------
\* The connections in their context.

\* A server socket accepts a connection: filterConnection(), createConnection(), which
\* takes a free place of the pool, and connectionAccepted(); the socket is established.
Accept(g) ==
  LET free == {c \in Connections : ~conn[c].used}
      place == CHOOSE c \in free : TRUE
  IN /\ free # {} /\ accepts < MaxAccepts /\ accepts' = accepts + 1
     /\ Len(SelectSeq(open, LAMBDA c : conn[c].group = g)) <= MaxConnections
     /\ conn' = [conn EXCEPT ![place] = Started(g)]
     /\ open' = <<place>> \o open
     /\ UNCHANGED <<toRelease, helpers, posted, active, unreported, sender, locks>>

\* A frame arrives; the rest of a message that is being received comes before it.
Receives(c) == conn[c].socket /\ ~conn[c].held /\ UNCHANGED <<sender, locks, accepts>>

\* headerReceived(): a frame on a routing connection restarts the inactivity timer, which
\* is also the timer of a pending alive check.
HeaderReceived(c) ==
  IF conn[c].state = "ACTIVE" THEN [State EXCEPT !.conn[c].timer = TRUE] ELSE State

\* routingActivationRequestReceived(), when checkRoutingActivation() agrees.
RoutingActivationRequest(c, a) ==
  /\ Receives(c)
  /\ LET s == HeaderReceived(c)
     IN \/ /\ conn[c].state = "INACTIVE"
           /\ Become(StartAliveChecks([s EXCEPT !.conn[c].state = "ACTIVATING",
                                                !.conn[c].source = a]))
        \/ /\ conn[c].state # "INACTIVE"
           /\ Become(SendAnswer(s, c, conn[c].source # a))

\* A frame that is refused: a routing activation checkRoutingActivation() rejects, or a
\* frame answered by a NACK, of another protocol version (before the timer is restarted),
\* of a wrong length or of an unknown type.
RefusedFrame(c, last) ==
  /\ Receives(c)
  /\ \E s \in {HeaderReceived(c)} \cup {t \in {State} : last} : Become(SendAnswer(s, c, last))

\* aliveCheckResponseReceived() with the address of the tester or another one.
AliveCheckResponseReceived(c, expected) ==
  /\ Receives(c)
  /\ LET s == HeaderReceived(c)
         t == IF s.conn[c].pending
              THEN AliveCheckResponse([s EXCEPT !.conn[c].pending = FALSE], c, expected) ELSE s
     IN Become(IF expected THEN t ELSE Close(t, c))

\* diagnosticMessageUserDataPrefixReceivedNack() and queueDiagnosticAck(); without a job
\* there is no answer.
SendAck(s, c, last) ==
  IF Cardinality(Queued(s, "protocol")) >= NumProtocolJobs THEN s ELSE SendMessage(s, c, Ack(last))

\* diagnosticMessagePayloadPrefixDataReceived(): the message of a tester that has been
\* activated with this address, and for which the router provides a transport message, is
\* received; the last answer is for a wrong address.
DiagnosticMessageBegins(c) ==
  /\ Receives(c)
  /\ LET s == HeaderReceived(c)
     IN \/ \E last \in {TRUE} \cup {~conn[c].routed} : Become(SendAck(s, c, last))
        \/ conn[c].routed /\ Become([s EXCEPT !.conn[c].held = TRUE])

\* diagnosticMessageUserDataReceived(): the acknowledgement is queued first, and turned
\* into a NACK when the router refuses the message; either way, the message goes.
DiagnosticMessageEnds(c) ==
  /\ conn[c].socket /\ conn[c].held
  /\ Become(SendAck([State EXCEPT !.conn[c].held = FALSE], c, FALSE))
  /\ UNCHANGED <<sender, locks, accepts>>

\* The peer has acknowledged the first job: handleDataSent(), release(true).
JobSent(c) ==
  /\ conn[c].socket /\ conn[c].jobs # <<>>
  /\ LET job == Head(conn[c].jobs)
         s   == [State EXCEPT !.conn[c].jobs = Tail(@), !.unreported = @ \ {job.message}]
     IN Become(IF job.last THEN Close(s, c) ELSE s)
  /\ UNCHANGED <<sender, locks, accepts>>

\* The TCP stack closes the connection, or fails to read.
ConnectionLost(c) ==
  /\ conn[c].socket
  /\ Become(Close(CloseSocket(State, c), c))
  /\ UNCHANGED <<sender, locks, accepts>>

\* timerExpired() of a connection that waits for its first request or routes; an expiry in
\* another state does nothing.
TimerExpired(c) ==
  /\ conn[c].timer /\ conn[c].state \in {"INACTIVE", "ACTIVE"}
  /\ Become(Close([State EXCEPT !.conn[c].timer = FALSE], c))
  /\ UNCHANGED <<sender, locks, accepts>>

\* closeConnection(), closeSocketGroupConnections() and closeAllConnections(), from any
\* context: the connections are marked under the lock.
MarkForClose(marked) ==
  /\ conn' = [c \in Connections |-> IF c \in marked THEN [conn[c] EXCEPT !.marked = TRUE] ELSE conn[c]]
  /\ posted' = Post(State, "close").posted
  /\ UNCHANGED <<open, toRelease, helpers, active, unreported, sender, locks, accepts>>

RECURSIVE CloseAll(_)
CloseAll(s) ==
  IF s.closing = <<>> THEN s
  ELSE CloseAll(Close([s EXCEPT !.closing = Tail(@)], Head(s.closing)))

\* executeEventClose(): the marked connections leave the list and are closed; the end of
\* its remove guard asks for the release.
ExecuteEventClose ==
  /\ posted # <<>> /\ Head(posted) = "close"
  /\ LET s == [State EXCEPT !.posted = Tail(@),
                            !.open = SelectSeq(@, LAMBDA c : ~conn[c].marked),
                            !.closing = Reverse(SelectSeq(open, LAMBDA c : conn[c].marked))]
         t == CloseAll(s)
     IN Become(IF locks = 0 THEN Post(t, "release") ELSE t)
  /\ UNCHANGED <<sender, locks, accepts>>

\* Mutant: the remove lock is not looked at.
ReleaseConnectionsUnlocked ==
  /\ posted # <<>> /\ Head(posted) = "release"
  /\ posted' = Tail(posted)
  /\ /\ conn' = [c \in Connections |-> IF Contains(toRelease, c) THEN Free ELSE conn[c]]
     /\ active' = active \ {conn[toRelease[i]].source : i \in {j \in DOMAIN toRelease :
                     conn[toRelease[j]].routed /\ RoutingConnection(State, conn[toRelease[j]].source) = <<>>}}
     /\ toRelease' = <<>>
  /\ UNCHANGED <<open, helpers, unreported, sender, locks, accepts>>

\* Mutant: every address of a released connection is reported inactive.
ReleaseConnectionsForgetful ==
  /\ posted # <<>> /\ Head(posted) = "release"
  /\ posted' = Tail(posted)
  /\ IF locks > 0 THEN UNCHANGED <<conn, active, toRelease>>
     ELSE /\ conn' = [c \in Connections |-> IF Contains(toRelease, c) THEN Free ELSE conn[c]]
          /\ active' = active \ {conn[toRelease[i]].source : i \in DOMAIN toRelease}
          /\ toRelease' = <<>>
  /\ UNCHANGED <<open, helpers, unreported, sender, locks, accepts>>

\* execute(), releaseConnections(): nothing is released while somebody uses a connection.
\* The application hears of the last connection of an address.
ReleaseConnections ==
  /\ posted # <<>> /\ Head(posted) = "release"
  /\ posted' = Tail(posted)
  /\ IF locks > 0 THEN UNCHANGED <<conn, active, toRelease>>
     ELSE /\ conn' = [c \in Connections |-> IF Contains(toRelease, c) THEN Free ELSE conn[c]]
          /\ active' = active \ {conn[toRelease[i]].source : i \in {j \in DOMAIN toRelease :
                          conn[toRelease[j]].routed /\ RoutingConnection(State, conn[toRelease[j]].source) = <<>>}}
          /\ toRelease' = <<>>
  /\ UNCHANGED <<open, helpers, unreported, sender, locks, accepts>>
------------------------------------------------------------------------------
\* send() in the context of the router, which waits for what is queued in this one.
Preempted == posted # <<>>

\* The remove guard and the search for the connection.
SendBegin(m, a) ==
  /\ sender.pc = "idle" /\ m \notin unreported /\ ~Preempted
  /\ LET found == RoutingConnection(State, a)
     IN sender' = IF found = <<>> THEN [NotSending EXCEPT !.pc = "end"]
                  ELSE [pc |-> "found", connection |-> Head(found), message |-> m]
  /\ locks' = locks + 1
  /\ UNCHANGED <<serverVars, accepts>>

\* allocateJob() and the test in DoIpTcpConnection::sendMessage() ...  (Of the pool, a job
\* takes a place until its listener has been called.)
SendCheck ==
  /\ sender.pc = "found" /\ ~Preempted
  /\ sender' = IF Cardinality(unreported) >= NumMessageJobs \/ ~conn[sender.connection].socket
               THEN [NotSending EXCEPT !.pc = "end"] ELSE [sender EXCEPT !.pc = "push"]
  /\ UNCHANGED <<serverVars, locks, accepts>>

\* ... and the insertion, under a lock of its own, whatever has happened in between.
SendPush ==
  /\ sender.pc = "push" /\ ~Preempted
  /\ conn' = [conn EXCEPT ![sender.connection].jobs = Append(@, Transport(sender.message))]
  /\ unreported' = unreported \cup {sender.message}
  /\ sender' = [NotSending EXCEPT !.pc = "end"]
  /\ UNCHANGED <<open, toRelease, helpers, posted, active, locks, accepts>>

\* Mutant: the end of the guard does not ask for the release.
SendEndQuiet ==
  /\ sender.pc = "end" /\ ~Preempted
  /\ sender' = NotSending /\ locks' = locks - 1
  /\ posted' = posted
  /\ UNCHANGED <<conn, open, toRelease, helpers, active, unreported, accepts>>

\* The end of the remove guard: the last one asks for the release.
SendEnd ==
  /\ sender.pc = "end" /\ ~Preempted
  /\ sender' = NotSending /\ locks' = locks - 1
  /\ posted' = IF locks = 1 THEN Post(State, "release").posted ELSE posted
  /\ UNCHANGED <<conn, open, toRelease, helpers, active, unreported, accepts>>

SendStep == SendCheck \/ SendPush \/ SendEnd

\* The connections of a tester, of a socket group, or all.
Marked == {{c} : c \in {d \in ToSet(open) : IsRouting(State, d)}}
          \cup {{c \in ToSet(open) : conn[c].group = g} : g \in Groups}
          \cup {ToSet(open)}

ConnectionStep(c) ==
  \/ \E a \in Testers : RoutingActivationRequest(c, a)
  \/ \E last \in BOOLEAN : RefusedFrame(c, last)
  \/ \E expected \in BOOLEAN : AliveCheckResponseReceived(c, expected)
  \/ DiagnosticMessageBegins(c)
  \/ DiagnosticMessageEnds(c)
  \/ JobSent(c) \/ ConnectionLost(c) \/ TimerExpired(c)

ServerStep ==
  \/ \E g \in Groups : Accept(g)
  \/ \E c \in Connections : ConnectionStep(c)
  \/ \E marked \in Marked \ {{}} : MarkForClose(marked)
  \/ ExecuteEventClose
  \/ ReleaseConnections

Next ==
  \/ ServerStep
  \/ \E m \in Messages, a \in Testers : SendBegin(m, a)
  \/ SendStep

Spec == Init /\ [][Next]_vars

\* Fairness, stated on states.  The context gets through with its queue and the other one
\* with its call; the peer acknowledges a last answer or the connection is lost; a pending
\* alive check is answered or times out, as its tester does not go on sending other frames.
Fairness ==
  /\ []<>(posted = <<>>)
  /\ []<>(sender.pc = "idle")
  /\ \A c \in Connections :
       /\ []<>(conn[c].state # "CLOSING")
       /\ []<>~(conn[c].state = "ACTIVE" /\ conn[c].pending)

FairSpec == Spec /\ Fairness
------------------------------------------------------------------------------
Opened == ToSet(open)

\* A socket group routes no more connections than it may: one in excess waits for the alive
\* check of the others, whichever of them close, answer or are activated meanwhile
\* (startAliveCheck() and endAliveCheck()).
RoutingWithinLimit == \A g \in Groups : Len(RoutingInGroup(State, g)) <= MaxConnections

\* A tester is routed over one connection: a new one with its address waits for the alive
\* check of the first.
OneRoutePerAddress ==
  \A c, d \in Opened :
    IsRouting(State, c) /\ IsRouting(State, d) /\ conn[c].source = conn[d].source => c = d

\* An alive check waits for exactly the answers that are still to come, and ends with the
\* last one: an answer counted twice decides too early, one forgotten never.
AliveChecksAwaited ==
  \A g \in Groups :
    LET awaited == Cardinality({c \in Opened : conn[c].group = g /\ conn[c].pending})
    IN awaited = IF helpers[g] = None THEN 0 ELSE helpers[g].count

\* The application knows the addresses that are routed: every one of an open connection,
\* and none whose last connection has been released (releaseConnections()).
RoutesKnown ==
  /\ \A c \in Opened : IsRouting(State, c) => conn[c].source \in active
  /\ active \subseteq {conn[c].source : c \in {d \in Connections : conn[d].routed}}

\* send() in the other context never goes on with a connection that has been given back to
\* its pool (RemoveGuard).
SenderKeepsConnection == sender.connection # None => conn[sender.connection].used

\* A closed connection has given back the message it was receiving and its send jobs, on
\* whichever of the nested paths it was closed; only send() may have added one since.
ClosedHoldsNothing ==
  \A c \in Connections :
    ~conn[c].socket => ~conn[c].held /\ conn[c].jobs = JobsOf(State, c, "message")

\* A connection that is closed or has been marked goes back to its pool.
ClosedIsReleased ==
  \A c \in Connections :
    conn[c].used /\ (conn[c].state = "SHUTDOWN" \/ conn[c].marked) ~> ~conn[c].used

\* A tester that asks for routing gets an answer or loses its connection.
ActivationDecided ==
  \A c \in Connections : conn[c].state = "ACTIVATING" ~> conn[c].state # "ACTIVATING"
==============================================================================
