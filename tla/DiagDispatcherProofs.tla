------------------------- MODULE DiagDispatcherProofs -------------------------
(***************************************************************************)
(* Proofs about the diagnostic dispatcher, for any number of connections,  *)
(* buffers, places of the queue and nested requests.                       *)
(*                                                                         *)
(* The functions of IncomingDiagConnection call each other, and closures,  *)
(* timeouts, jobs and the transport layer call them in any order.  What    *)
(* holds them together is that an open connection is always in one of      *)
(* seven phases (Phase): each says which closures are queued, which        *)
(* message is on its way, how many callbacks are outstanding and what the  *)
(* job is doing.  Each function is shown once to lead from a phase to a    *)
(* phase, or to a connection that nothing is left of (Makes); the actions  *)
(* of the dispatcher follow.                                               *)
(*                                                                         *)
(* The buffers are shared out among the queue, processQueue(), the         *)
(* connections and those forgotten at a shutdown (Shares); every step      *)
(* moves one buffer from one holder to another.                            *)
(***************************************************************************)
EXTENDS DiagDispatcher, SequenceFacts, FiniteSetTheorems

-------------------------------------------------------------------------------
\* What a connection may be.

Responses == Codes \cup {"positive"}
Results   == Codes \cup {"ok"}
Ways      == {"none", "pending", "response"}

Entry(call, arg) == [call |-> call, arg |-> arg]
Entries == [call : {"positive", "negative", "processed", "next"},
            arg  : Responses \cup {"ok", "response"}]

NestedRequest == [active : {TRUE}, left : Nat, combined : Results, code : Results,
                  pendingSender : BOOLEAN, pendingSent : BOOLEAN]

Jobs == {NoJob, Working, Stuck} \cup {Asked(r) : r \in Responses}

Connection ==
  [isOpen : BOOLEAN, message : Nat, functional : BOOLEAN, suppress : BOOLEAN,
   sender : BOOLEAN, callbacks : Nat, terminating : BOOLEAN, pendingIsPending : BOOLEAN,
   pendingSent : BOOLEAN, pendingIsBeingSent : BOOLEAN,
   nested : NestedRequest \cup {NoNested}, job : Jobs,
   response : Responses \cup {"none"}, answered : BOOLEAN, pendingTimeout : BOOLEAN,
   globalTimeout : BOOLEAN, queue : Seq(Entries), flight : Seq({"pending", "response"})]

-------------------------------------------------------------------------------
\* The inductive invariant of a connection.

\* The elements of a sequence without repetition.
Once(q, S) == /\ \A i, j \in DOMAIN q : q[i] = q[j] => i = j
              /\ S = {q[i] : i \in DOMAIN q}

\* The closure that sends what a job has answered.
Answer(r) == IF r = "positive" THEN Entry("positive", "ok") ELSE Entry("negative", r)

\* Message m is on its way to the tester: the transport layer has it, or has reported it and
\* the closure is queued.
Reported(m, arrived) == IF m # "none" /\ arrived THEN {Entry("processed", m)} ELSE {}
Carried(m, arrived)  == IF m # "none" /\ ~arrived THEN <<m>> ELSE <<>>

\* The connection is open; its closures are those of X, which work on the request, and that of
\* message m; the callbacks it waits for are n for the request and one for RESPONSE_PENDING.
Linked(c, X, m, arrived, n) ==
  /\ c \in Connection /\ c.isOpen
  /\ c.flight = Carried(m, arrived)
  /\ Once(c.queue, X \cup Reported(m, arrived))
  /\ c.callbacks = n + (IF m = "pending" THEN 1 ELSE 0)
  /\ c.pendingIsBeingSent <=> m = "pending"
  /\ c.terminating => c.nested = NoNested

\* No response has been sent or is about to be sent.
Unanswered(c, m) == ~c.sender /\ ~c.answered /\ m # "response"

\* NestedDiagRequest waits for its RESPONSE_PENDING, or does not.
Waits(c)        == c.nested # NoNested /\ c.nested.pendingSender
DoesNotWait(c)  == c.nested # NoNested => ~c.nested.pendingSender

\* What an open connection is doing: a job works on the request; the job has answered and the
\* closure is queued; the response waits for RESPONSE_PENDING; the response has been sent; a
\* nested job has asked for time; the next nested request is to be triggered; the end is near
\* and only RESPONSE_PENDING has to come back.
Works(c, m, arrived) ==
  /\ c.job = Working /\ Unanswered(c, m) /\ DoesNotWait(c) /\ Linked(c, {}, m, arrived, 0)

HasAsked(c, m, arrived) ==
  /\ Unanswered(c, m) /\ DoesNotWait(c)
  /\ \E r \in Responses : c.job = Asked(r) /\ Linked(c, {Answer(r)}, m, arrived, 1)

Holds(c, m, arrived) ==
  /\ c.sender /\ ~c.answered /\ m = "pending" /\ c.nested = NoNested
  /\ c.response \in Responses /\ c.job = Asked(c.response) /\ Linked(c, {}, m, arrived, 1)

HasSent(c, m, arrived) ==
  /\ c.sender /\ m = "response" /\ c.nested = NoNested
  /\ \E r \in Responses : c.job = Asked(r) /\ (c.answered => r # "pending")
  /\ Linked(c, {}, m, arrived, 1)

AsksForTime(c, m, arrived) ==
  /\ c.job = Asked("pending") /\ Unanswered(c, m) /\ Waits(c) /\ Linked(c, {}, m, arrived, 0)

GoesOn(c, m, arrived) ==
  /\ c.job = NoJob /\ Unanswered(c, m) /\ c.nested # NoNested /\ DoesNotWait(c)
  /\ Linked(c, {Entry("next", "ok")}, m, arrived, 0)

IsOver(c, m, arrived) ==
  /\ c.job \in {NoJob, Stuck} /\ ~c.sender /\ ~c.answered /\ m = "pending" /\ c.terminating
  /\ Linked(c, {}, m, arrived, 0)

Phase(c, m, arrived) ==
  \/ Works(c, m, arrived)  \/ HasAsked(c, m, arrived)    \/ Holds(c, m, arrived)
  \/ HasSent(c, m, arrived) \/ AsksForTime(c, m, arrived) \/ GoesOn(c, m, arrived)
  \/ IsOver(c, m, arrived)

OpenInv(c) == \E m \in Ways, arrived \in BOOLEAN : Phase(c, m, arrived)

\* A connection that has been terminated, and one that is not in use.
Gone(c) == /\ c \in Connection /\ ~c.isOpen /\ c.queue = <<>> /\ c.flight = <<>>
           /\ ~c.pendingTimeout /\ ~c.globalTimeout /\ ~c.terminating

Unused(c) == Gone(c) /\ c.job = NoJob /\ ~c.answered

ConnInv == \A c \in Connections : Unused(conn[c]) \/ OpenInv(conn[c])

\* What a function may make of connection c: it ends it, or keeps its message, and sends
\* nothing after a response.
Makes(c, d) == \/ Gone(d)
               \/ /\ OpenInv(d) /\ d.message = c.message /\ d.functional = c.functional
                  /\ c.answered => d.answered /\ d.flight = c.flight

\* No job and no closure works on the request.
Rests(c, m, arrived) ==
  /\ c.job = NoJob /\ ~c.sender /\ m # "response" /\ DoesNotWait(c)
  /\ c.answered => m = "none" /\ c.nested = NoNested
  /\ Linked(c, {}, m, arrived, 0)

-------------------------------------------------------------------------------
\* Closures.

\* A queue without repetitions, when a closure is added to it or taken from it.
LEMMA OnceFacts ==
  ASSUME NEW T, NEW q \in Seq(T), NEW S, Once(q, S)
  PROVE  /\ q = <<>> <=> S = {}
         /\ \A x : x \notin S => Once(Append(q, x), S \cup {x})
         /\ q # <<>> => Head(q) \in S /\ Tail(q) \in Seq(T) /\ Once(Tail(q), S \ {Head(q)})
<1>1. q = <<>> <=> S = {}
  BY DEF Once
<1>2. ASSUME NEW x, x \notin S PROVE Once(Append(q, x), S \cup {x})
  <2>. DEFINE p == Append(q, x)
  <2>1. /\ DOMAIN q = 1 .. Len(q) /\ DOMAIN p = 1 .. Len(q) + 1 /\ Len(q) \in Nat
        /\ \A i \in 1 .. Len(q) : p[i] = q[i]
        /\ p[Len(q) + 1] = x
    OBVIOUS
  <2>. HIDE DEF p
  <2>2. \A i \in DOMAIN p : i \in DOMAIN q \/ i = Len(q) + 1
    BY <2>1
  <2>3. \A i, j \in DOMAIN p : p[i] = p[j] => i = j
    BY <1>2, <2>1, <2>2 DEF Once
  <2>4. S \cup {x} = {p[i] : i \in DOMAIN p}
    BY <2>1, <2>2 DEF Once
  <2>. QED BY <2>3, <2>4 DEF Once, p
<1>3. ASSUME q # <<>> PROVE Head(q) \in S /\ Tail(q) \in Seq(T) /\ Once(Tail(q), S \ {Head(q)})
  <2>. DEFINE p == Tail(q)
  <2>1. /\ DOMAIN q = 1 .. Len(q) /\ DOMAIN p = 1 .. Len(q) - 1 /\ Len(q) \in Nat /\ Len(q) >= 1
        /\ \A i \in 1 .. Len(q) - 1 : p[i] = q[i + 1]
        /\ Head(q) = q[1] /\ p \in Seq(T)
    BY <1>3
  <2>. HIDE DEF p
  <2>2. Head(q) \in S
    BY <2>1 DEF Once
  <2>3. \A i, j \in DOMAIN p : p[i] = p[j] => i = j
    <3>1. \A i \in DOMAIN p : i + 1 \in DOMAIN q /\ p[i] = q[i + 1] /\ i \in Int
      BY <2>1
    <3>. QED BY <3>1 DEF Once
  <2>4. S \ {Head(q)} = {p[i] : i \in DOMAIN p}
    <3>1. \A i \in DOMAIN p : i + 1 \in DOMAIN q /\ i + 1 # 1
      BY <2>1
    <3>2. 1 \in DOMAIN q
      BY <2>1
    <3>3. \A i \in DOMAIN p : p[i] \in S \ {Head(q)}
      BY <2>1, <3>1, <3>2 DEF Once
    <3>4. \A y \in S \ {Head(q)} : \E i \in DOMAIN p : p[i] = y
      <4>. SUFFICES ASSUME NEW k \in DOMAIN q, q[k] # Head(q)
                    PROVE  \E i \in DOMAIN p : p[i] = q[k]
        BY DEF Once
      <4>1. k - 1 \in DOMAIN p /\ (k - 1) + 1 = k
        BY <2>1
      <4>2. p[k - 1] = q[(k - 1) + 1]
        BY <2>1, <4>1
      <4>. QED BY <4>1, <4>2
    <3>. QED BY <3>3, <3>4
  <2>. QED BY <2>1, <2>2, <2>3, <2>4 DEF Once, p
<1>. QED BY <1>1, <1>2, <1>3

\* async::execute() of a closure that is not queued adds it and changes nothing else.
LEMMA ExecuteFacts ==
  ASSUME NEW c \in Connection, NEW S, Once(c.queue, S), NEW call, NEW arg,
         Entry(call, arg) \in Entries, \A x \in S : x.call # call
  PROVE  LET d == Execute(c, call, arg)
         IN /\ d \in Connection /\ d = [c EXCEPT !.queue = d.queue]
            /\ Once(d.queue, S \cup {Entry(call, arg)})
<1>. DEFINE x == Entry(call, arg)
<1>1. c.queue \in Seq(Entries)
  BY DEF Connection
<1>2. ~IsQueued(c, call)
  BY DEF IsQueued, Once
<1>3. x \notin S
  BY DEF Entry
<1>4. Once(Append(c.queue, x), S \cup {x})
  BY ONLY <1>1, <1>3, Once(c.queue, S), OnceFacts
<1>5. Append(c.queue, x) \in Seq(Entries)
  BY <1>1
<1>. DEFINE q == Append(c.queue, x)
<1>6. Execute(c, call, arg) = [c EXCEPT !.queue = q]
  BY <1>2 DEF Execute, Entry
<1>. HIDE DEF q
<1>7. [c EXCEPT !.queue = q].queue = q
  BY DEF Connection
<1>8. q \in Seq(Entries)
  BY <1>5 DEF q
<1>9. [c EXCEPT !.queue = q] \in Connection
  BY <1>8 DEF Connection
<1>. QED BY <1>4, <1>6, <1>7, <1>9 DEF q

-------------------------------------------------------------------------------
\* The functions of a connection, in the order in which they call each other.

\* sendPositiveResponse() and sendNegativeResponse() of a request that nobody has answered
\* yet queue one closure and leave the connection open.
LEMMA Asking ==
  ASSUME NEW c, NEW m \in Ways, NEW arrived \in BOOLEAN, Unanswered(c, m), DoesNotWait(c),
         Linked(c, {}, m, arrived, 0)
  PROVE  /\ Makes(c, SendPositiveResponse(c)) /\ SendPositiveResponse(c).isOpen
         /\ \A code \in Codes : /\ Makes(c, SendNegativeResponse(c, code))
                                /\ SendNegativeResponse(c, code).isOpen
<1>1. ASSUME NEW r \in Responses, NEW call, NEW arg, Answer(r) = Entry(call, arg),
             Entry(call, arg) \in Entries, call # "processed"
      PROVE  LET d == Execute([c EXCEPT !.callbacks = @ + 1, !.job = Asked(r)], call, arg)
             IN Makes(c, d) /\ d.isOpen
  <2>. DEFINE b == [c EXCEPT !.callbacks = @ + 1, !.job = Asked(r)]
              S == {} \cup Reported(m, arrived)
              d == Execute(b, call, arg)
              w == IF m = "pending" THEN 1 ELSE 0
  <2>0. c \in Connection /\ Asked(r) \in Jobs /\ c.callbacks + 1 \in Nat
    BY DEF Linked, Jobs, Connection
  <2>1. Once(c.queue, S) /\ c.callbacks = 0 + w /\ w \in Nat
    BY DEF Linked
  <2>2. /\ b \in Connection /\ b.queue = c.queue /\ b.job = Asked(r)
        /\ b.callbacks = c.callbacks + 1
        /\ b.isOpen = c.isOpen /\ b.flight = c.flight
        /\ b.pendingIsBeingSent = c.pendingIsBeingSent /\ b.terminating = c.terminating
        /\ b.nested = c.nested /\ b.sender = c.sender /\ b.answered = c.answered
        /\ b.message = c.message /\ b.functional = c.functional
    BY ONLY <2>0 DEF Connection
  <2>3. \A x \in S : x.call # call
    BY <1>1 DEF Reported, Entry
  <2>. HIDE DEF b, S
  <2>4. /\ d \in Connection /\ d = [b EXCEPT !.queue = d.queue]
        /\ Once(d.queue, S \cup {Entry(call, arg)})
    BY ONLY <1>1, <2>1, <2>2, <2>3, ExecuteFacts
  <2>. HIDE DEF d
  <2>5. /\ d.job = Asked(r) /\ d.callbacks = b.callbacks /\ d.isOpen = c.isOpen /\ d.flight = c.flight
        /\ d.pendingIsBeingSent = c.pendingIsBeingSent /\ d.terminating = c.terminating
        /\ d.nested = c.nested /\ d.sender = c.sender /\ d.answered = c.answered
        /\ d.message = c.message /\ d.functional = c.functional
    BY <2>2, <2>4 DEF Connection
  <2>6. S \cup {Entry(call, arg)} = {Answer(r)} \cup Reported(m, arrived)
    BY <1>1 DEF S
  <2>7. Linked(d, {Answer(r)}, m, arrived, 1)
    <3>1. d.callbacks = 1 + w
      <4>. HIDE DEF w
      <4>. QED BY ONLY <2>1, <2>2, <2>5
    <3>. QED BY <2>4, <2>5, <2>6, <3>1 DEF Linked
  <2>8. Unanswered(d, m) /\ DoesNotWait(d)
    BY <2>5 DEF Unanswered, DoesNotWait
  <2>9. OpenInv(d)
    BY <1>1, <2>5, <2>7, <2>8 DEF OpenInv, Phase, HasAsked
  <2>10. ~c.answered /\ c.isOpen
    BY DEF Unanswered, Linked
  <2>. QED BY <2>5, <2>9, <2>10 DEF Makes, b, d
<1>2. c.isOpen /\ ~c.sender
  BY DEF Linked, Unanswered
<1>3. Makes(c, SendPositiveResponse(c)) /\ SendPositiveResponse(c).isOpen
  <2>1. /\ "positive" \in Responses /\ Answer("positive") = Entry("positive", "ok")
        /\ Entry("positive", "ok") \in Entries
    BY DEF Responses, Answer, Entry, Entries
  <2>2. LET d == Execute([c EXCEPT !.callbacks = @ + 1, !.job = Asked("positive")], "positive", "ok")
        IN Makes(c, d) /\ d.isOpen
    BY <1>1, <2>1
  <2>. QED BY <1>2, <2>2 DEF SendPositiveResponse
<1>4. ASSUME NEW code \in Codes
      PROVE  Makes(c, SendNegativeResponse(c, code)) /\ SendNegativeResponse(c, code).isOpen
  <2>1. /\ code \in Responses /\ Answer(code) = Entry("negative", code)
        /\ Entry("negative", code) \in Entries
    BY DEF Responses, Answer, Entry, Entries, Codes
  <2>2. LET d == Execute([c EXCEPT !.callbacks = @ + 1, !.job = Asked(code)], "negative", code)
        IN Makes(c, d) /\ d.isOpen
    BY <1>1, <2>1
  <2>. QED BY <1>2, <2>2 DEF SendNegativeResponse
<1>. QED BY <1>3, <1>4

\* endNestedRequest() answers the whole request.
LEMMA Ending ==
  ASSUME NEW c, NEW m \in Ways, NEW arrived \in BOOLEAN, Rests(c, m, arrived),
         c.nested # NoNested
  PROVE  Makes(c, EndNestedRequest(c))
<1>. DEFINE e == [c EXCEPT !.nested = NoNested]
<1>1. /\ c \in Connection /\ c.nested \in NestedRequest
  BY DEF Rests, Linked, Connection
<1>2. c.nested.code \in Codes \cup {"ok"}
  BY <1>1 DEF NestedRequest, Results
<1>3. /\ e \in Connection /\ e.nested = NoNested /\ e.queue = c.queue /\ e.callbacks = c.callbacks
      /\ e.isOpen = c.isOpen /\ e.flight = c.flight
      /\ e.pendingIsBeingSent = c.pendingIsBeingSent /\ e.terminating = c.terminating
      /\ e.sender = c.sender /\ e.answered = c.answered
      /\ e.message = c.message /\ e.functional = c.functional
  BY <1>1 DEF Connection
<1>. HIDE DEF e
<1>4. Linked(e, {}, m, arrived, 0) /\ DoesNotWait(e) /\ Unanswered(e, m)
  BY <1>3 DEF Linked, Rests, DoesNotWait, Unanswered
<1>5. Makes(e, SendPositiveResponse(e)) /\ \A code \in Codes : Makes(e, SendNegativeResponse(e, code))
  BY <1>4, Asking
<1>6. \A d : Makes(e, d) => Makes(c, d)
  BY <1>3 DEF Makes
<1>7. Makes(e, EndNestedRequest(c))
  BY <1>2, <1>5 DEF EndNestedRequest, e
<1>. QED BY <1>6, <1>7

\* terminate() of a connection that waits for nothing ends it at once, and cleanly.
LEMMA Closing ==
  ASSUME NEW c \in Connection, c.isOpen, c.nested = NoNested, c.callbacks = 0,
         c.queue = <<>>, c.flight = <<>>
  PROVE  /\ Terminate(c) = Terminated(c) /\ Gone(Terminated(c))
         /\ Terminated(c).terminating = FALSE
<1>1. Terminate(c) = Terminated(c)
  BY DEF Terminate
<1>. DEFINE d == Terminated(c)
<1>2. NoJob \in Jobs /\ 0 \in Nat
  BY DEF Jobs
<1>3. d \in Connection
  BY ONLY ZenonT(60), <1>2, c \in Connection DEF Connection, Terminated, NoMessage
<1>4. /\ d.queue = <<>> /\ d.flight = <<>> /\ d.pendingTimeout = FALSE
      /\ d.globalTimeout = FALSE /\ d.isOpen = FALSE /\ d.terminating = FALSE
  BY DEF Connection, Terminated
<1>. HIDE DEF d
<1>5. Gone(d)
  BY <1>3, <1>4 DEF Gone
<1>. QED BY <1>1, <1>4, <1>5 DEF d

\* A connection that nothing is left of has neither closures nor messages.
LEMMA NothingLeft ==
  ASSUME NEW c, NEW arrived, Linked(c, {}, "none", arrived, 0)
  PROVE  c \in Connection /\ c.isOpen /\ c.callbacks = 0 /\ c.queue = <<>> /\ c.flight = <<>>
<1>1. /\ c \in Connection /\ c.isOpen /\ c.callbacks = 0 /\ c.flight = <<>>
      /\ Once(c.queue, {})
  BY DEF Linked, Carried, Reported
<1>2. c.queue \in Seq(Entries)
  BY <1>1 DEF Connection
<1>3. c.queue = <<>>
  BY ONLY <1>1, <1>2, OnceFacts
<1>. QED BY <1>1, <1>3

\* terminate() of a connection on whose request nobody works any more.
LEMMA Terminating ==
  ASSUME NEW c, NEW m \in Ways, NEW arrived \in BOOLEAN, Rests(c, m, arrived)
  PROVE  Makes(c, Terminate(c))
<1>0. c \in Connection /\ c.isOpen /\ Linked(c, {}, m, arrived, 0) /\ ~c.sender /\ c.job = NoJob
      /\ m # "response"
  BY DEF Rests, Linked
<1>1. ASSUME c.nested # NoNested, c.nested.code = "ok" PROVE Makes(c, Terminate(c))
  <2>. DEFINE d == Execute(c, "next", "ok")  S == {} \cup Reported(m, arrived)
  <2>1. Terminate(c) = d
    BY <1>1 DEF Terminate
  <2>2. Once(c.queue, S)
    BY DEF Rests, Linked
  <2>3. Entry("next", "ok") \in Entries /\ \A x \in S : x.call # "next"
    BY DEF Entry, Entries, Reported
  <2>. HIDE DEF S
  <2>4. /\ d \in Connection /\ d = [c EXCEPT !.queue = d.queue]
        /\ Once(d.queue, S \cup {Entry("next", "ok")})
    BY ONLY <1>0, <2>2, <2>3, ExecuteFacts
  <2>. HIDE DEF d
  <2>5. /\ d.job = NoJob /\ d.callbacks = c.callbacks /\ d.isOpen = c.isOpen /\ d.flight = c.flight
        /\ d.pendingIsBeingSent = c.pendingIsBeingSent /\ d.terminating = c.terminating
        /\ d.nested = c.nested /\ d.sender = c.sender /\ d.answered = c.answered
        /\ d.message = c.message /\ d.functional = c.functional
    BY <1>0, <2>4 DEF Connection
  <2>6. S \cup {Entry("next", "ok")} = {Entry("next", "ok")} \cup Reported(m, arrived)
    BY DEF S
  <2>7. Linked(d, {Entry("next", "ok")}, m, arrived, 0)
    BY <1>0, <2>4, <2>5, <2>6 DEF Linked
  <2>8. Unanswered(d, m) /\ d.nested # NoNested /\ DoesNotWait(d) /\ ~c.answered
    BY <1>0, <1>1, <2>5 DEF Rests, Unanswered, DoesNotWait
  <2>9. OpenInv(d)
    BY <2>5, <2>7, <2>8 DEF OpenInv, Phase, GoesOn
  <2>. QED BY <2>1, <2>5, <2>8, <2>9 DEF Makes
<1>2. ASSUME c.nested # NoNested, c.nested.code # "ok" PROVE Makes(c, Terminate(c))
  BY <1>2, Ending DEF Terminate
<1>3. ASSUME c.nested = NoNested, c.callbacks # 0 PROVE Makes(c, Terminate(c))
  <2>. DEFINE d == [c EXCEPT !.terminating = TRUE]
  <2>1. Terminate(c) = d
    BY <1>0, <1>3 DEF Terminate
  <2>2. m = "pending" /\ ~c.answered
    BY <1>3 DEF Rests, Linked
  <2>3. /\ d \in Connection /\ d.queue = c.queue
        /\ d.job = c.job /\ d.callbacks = c.callbacks /\ d.isOpen = c.isOpen /\ d.flight = c.flight
        /\ d.pendingIsBeingSent = c.pendingIsBeingSent /\ d.terminating = TRUE
        /\ d.nested = c.nested /\ d.sender = c.sender /\ d.answered = c.answered
        /\ d.message = c.message /\ d.functional = c.functional
    BY <1>0 DEF Connection
  <2>. HIDE DEF d
  <2>4. Linked(d, {}, m, arrived, 0)
    BY <1>0, <1>3, <2>3 DEF Linked
  <2>5. OpenInv(d)
    BY <1>0, <2>2, <2>3, <2>4 DEF OpenInv, Phase, IsOver
  <2>. QED BY <2>1, <2>2, <2>3, <2>5 DEF Makes
<1>4. ASSUME c.nested = NoNested, c.callbacks = 0 PROVE Makes(c, Terminate(c))
  <2>1. m = "none"
    BY <1>0, <1>4 DEF Linked, Ways
  <2>2. c.queue = <<>> /\ c.flight = <<>>
    BY <1>0, <2>1, NothingLeft
  <2>. QED BY <1>0, <1>4, <2>2, Closing DEF Makes
<1>. QED BY <1>1, <1>2, <1>3, <1>4

\* The job has been told that its answer was sent, or will not be.
LEMMA Telling ==
  ASSUME NEW c, NEW m \in Ways, NEW arrived \in BOOLEAN, NEW r \in Responses, c.job = Asked(r),
         ~c.sender, m # "response", DoesNotWait(c), Linked(c, {}, m, arrived, 0),
         c.answered => m = "none" /\ c.nested = NoNested /\ r # "pending"
  PROVE  Makes(c, ResponseSent(c))
<1>0. c \in Connection
  BY DEF Linked
<1>1. CASE r = "pending"
  <2>. DEFINE d == [c EXCEPT !.job = Working]
  <2>0. Working \in Jobs
    BY DEF Jobs
  <2>1. ResponseSent(c) = d
    BY <1>1 DEF ResponseSent
  <2>2. /\ d \in Connection /\ d.queue = c.queue
        /\ d.job = Working /\ d.callbacks = c.callbacks /\ d.isOpen = c.isOpen /\ d.flight = c.flight
        /\ d.pendingIsBeingSent = c.pendingIsBeingSent /\ d.terminating = c.terminating
        /\ d.nested = c.nested /\ d.sender = c.sender /\ d.answered = c.answered
        /\ d.message = c.message /\ d.functional = c.functional
    BY <1>0, <2>0 DEF Connection
  <2>. HIDE DEF d
  <2>3. Linked(d, {}, m, arrived, 0) /\ Unanswered(d, m) /\ DoesNotWait(d) /\ ~c.answered
    BY <1>1, <2>2 DEF Linked, Unanswered, DoesNotWait
  <2>4. OpenInv(d)
    BY <2>2, <2>3 DEF OpenInv, Phase, Works
  <2>. QED BY <2>1, <2>2, <2>3, <2>4 DEF Makes
<1>2. CASE r # "pending"
  <2>. DEFINE d == [c EXCEPT !.job = NoJob]
  <2>0. NoJob \in Jobs
    BY DEF Jobs
  <2>1. ResponseSent(c) = Terminate(d)
    BY <1>2 DEF ResponseSent, Asked
  <2>2. /\ d \in Connection /\ d.queue = c.queue
        /\ d.job = NoJob /\ d.callbacks = c.callbacks /\ d.isOpen = c.isOpen /\ d.flight = c.flight
        /\ d.pendingIsBeingSent = c.pendingIsBeingSent /\ d.terminating = c.terminating
        /\ d.nested = c.nested /\ d.sender = c.sender /\ d.answered = c.answered
        /\ d.message = c.message /\ d.functional = c.functional
    BY <1>0, <2>0 DEF Connection
  <2>. HIDE DEF d
  <2>3. Rests(d, m, arrived)
    BY <1>2, <2>2 DEF Linked, Rests, DoesNotWait
  <2>4. Makes(d, Terminate(d))
    BY <2>3, Terminating
  <2>5. \A e : Makes(d, e) => Makes(c, e)
    BY <2>2 DEF Makes
  <2>. QED BY <2>1, <2>4, <2>5
<1>. QED BY <1>1, <1>2

\* sendResponse() of a connection that nothing else is on its way for.
LEMMA Sending ==
  ASSUME NEW c, NEW arrived \in BOOLEAN, NEW ok \in BOOLEAN, c.sender, ~c.answered,
         c.nested = NoNested, c.response \in Responses, c.job = Asked(c.response),
         Linked(c, {}, "none", arrived, 1)
  PROVE  Makes(c, SendResponse(c, ok))
<1>. DEFINE r == c.response
<1>0. /\ c \in Connection /\ c.isOpen /\ c.callbacks = 1 /\ c.flight = <<>> /\ Once(c.queue, {})
      /\ ~c.pendingIsBeingSent
  BY DEF Linked, Carried, Reported
<1>1. CASE ok
  <2>. DEFINE d == Sent(c)  b == c.answered \/ c.response # "pending"
  <2>1. SendResponse(c, ok) = d
    BY <1>1 DEF SendResponse
  <2>2. b \in BOOLEAN /\ Append(c.flight, "response") = <<"response">>
        /\ <<"response">> \in Seq({"pending", "response"})
    BY <1>0
  <2>3. d = [c EXCEPT !.flight = <<"response">>, !.response = "none", !.answered = b]
    BY <2>2 DEF Sent
  <2>. HIDE DEF b
  <2>4. d \in Connection
    BY ONLY ZenonT(60), <1>0, <2>2, <2>3 DEF Connection
  <2>5. /\ d.flight = <<"response">> /\ d.answered = b /\ d.queue = c.queue
        /\ d.job = c.job /\ d.callbacks = c.callbacks /\ d.isOpen = c.isOpen
        /\ d.pendingIsBeingSent = c.pendingIsBeingSent /\ d.terminating = c.terminating
        /\ d.nested = c.nested /\ d.sender = c.sender
        /\ d.message = c.message /\ d.functional = c.functional
    BY ONLY ZenonT(60), <1>0, <2>3 DEF Connection
  <2>. HIDE DEF d
  <2>6. d.answered => r # "pending"
    BY <2>5 DEF b
  <2>7. Linked(d, {}, "response", FALSE, 1)
    BY <1>0, <2>4, <2>5 DEF Linked, Carried, Reported
  <2>8. HasSent(d, "response", FALSE)
    BY <2>5, <2>6, <2>7 DEF HasSent
  <2>9. OpenInv(d)
    BY <2>8 DEF OpenInv, Phase, Ways
  <2>. QED BY <2>1, <2>5, <2>9 DEF Makes
<1>2. CASE ~ok
  <2>. DEFINE f == [[c EXCEPT !.callbacks = @ - 1] EXCEPT !.sender = FALSE]
              told == ResponseSent(f)
  <2>1. SendResponse(c, ok) = IF told.terminating /\ told.callbacks = 0 THEN Terminate(told)
                              ELSE told
    BY <1>2 DEF SendResponse
  <2>2. c.callbacks - 1 \in Nat
    BY <1>0
  <2>3. f \in Connection
    BY ONLY <1>0, <2>2 DEF Connection
  <2>4. /\ f.flight = <<>> /\ f.answered = c.answered /\ f.queue = c.queue
        /\ f.job = c.job /\ f.callbacks = c.callbacks - 1 /\ f.isOpen = c.isOpen
        /\ f.pendingIsBeingSent = c.pendingIsBeingSent /\ f.terminating = c.terminating
        /\ f.nested = c.nested /\ f.sender = FALSE
        /\ f.message = c.message /\ f.functional = c.functional
    BY ONLY <1>0 DEF Connection
  <2>. HIDE DEF f
  <2>5. Linked(f, {}, "none", arrived, 0)
    BY <1>0, <2>3, <2>4 DEF Linked, Carried, Reported
  <2>6. f.callbacks = 0 /\ f.queue = <<>> /\ f.flight = <<>>
    BY <2>5, NothingLeft
  <2>7. ASSUME NEW j \in Jobs
        PROVE  LET e == [f EXCEPT !.job = j]
               IN /\ e \in Connection /\ e.isOpen /\ e.nested = NoNested /\ e.callbacks = 0
                  /\ e.queue = <<>> /\ e.flight = <<>> /\ e.terminating = c.terminating
                  /\ e.message = c.message /\ e.functional = c.functional /\ e.job = j
                  /\ e.answered = c.answered /\ e.sender = FALSE
                  /\ e.pendingIsBeingSent = c.pendingIsBeingSent
    BY <1>0, <2>3, <2>4, <2>6 DEF Connection
  <2>8. CASE r = "pending"
    <3>. DEFINE e == [f EXCEPT !.job = Working]
    <3>1. told = e
      BY <2>4, <2>8 DEF ResponseSent
    <3>2. Working \in Jobs
      BY DEF Jobs
    <3>3. /\ e \in Connection /\ e.isOpen /\ e.nested = NoNested /\ e.callbacks = 0
          /\ e.queue = <<>> /\ e.flight = <<>> /\ e.terminating = c.terminating
          /\ e.message = c.message /\ e.functional = c.functional /\ e.job = Working
          /\ e.answered = c.answered /\ e.sender = FALSE
          /\ e.pendingIsBeingSent = c.pendingIsBeingSent
      BY <2>7, <3>2
    <3>. HIDE DEF e, told
    <3>4. Gone(Terminate(e))
      BY <3>3, Closing
    <3>5. Linked(e, {}, "none", FALSE, 0)
      BY <1>0, <2>4, <2>6, <3>3 DEF Linked, Carried, Reported
    <3>6. Works(e, "none", FALSE)
      BY <3>3, <3>5 DEF Works, Unanswered, DoesNotWait
    <3>7. Makes(c, e)
      BY <3>3, <3>6 DEF Makes, OpenInv, Phase, Ways
    <3>. QED BY <2>1, <3>1, <3>4, <3>7 DEF Makes
  <2>9. CASE r # "pending"
    <3>. DEFINE e == [f EXCEPT !.job = NoJob]
    <3>1. told = Terminate(e)
      BY <2>4, <2>9 DEF ResponseSent, Asked
    <3>2. NoJob \in Jobs
      BY DEF Jobs
    <3>3. /\ e \in Connection /\ e.isOpen /\ e.nested = NoNested /\ e.callbacks = 0
          /\ e.queue = <<>> /\ e.flight = <<>>
      BY <2>7, <3>2
    <3>. HIDE DEF e, told
    <3>4. Gone(told) /\ told.terminating = FALSE
      BY <3>1, <3>3, Closing
    <3>. QED BY <2>1, <3>4 DEF Makes
  <2>. QED BY <2>8, <2>9
<1>. QED BY <1>1, <1>2

\* sendResponsePending() of a connection that waits for no callback.
LEMMA AskingForTime ==
  ASSUME NEW c, NEW arrived \in BOOLEAN, NEW ok,
         Works(c, "none", arrived) \/ AsksForTime(c, "none", arrived) \/ GoesOn(c, "none", arrived)
  PROVE  Makes(c, SendResponsePending(c, ok))
<1>0. /\ c \in Connection /\ c.isOpen /\ c.callbacks = 0 /\ c.flight = <<>>
      /\ Unanswered(c, "none")
  BY DEF Linked, Carried, Reported, Works, AsksForTime, GoesOn
<1>1. CASE ~ok
  <2>1. OpenInv(c)
    BY DEF OpenInv, Phase, Ways
  <2>. QED BY <1>1, <2>1 DEF SendResponsePending, Makes
<1>2. CASE ok
  <2>. DEFINE d == [c EXCEPT !.callbacks = @ + 1, !.pendingSent = TRUE, !.pendingIsBeingSent = TRUE,
                             !.flight = Append(@, "pending")]
  <2>1. SendResponsePending(c, ok) = d
    BY <1>0, <1>2 DEF SendResponsePending
  <2>2. /\ c.callbacks + 1 = 1 /\ Append(c.flight, "pending") = <<"pending">>
        /\ <<"pending">> \in Seq({"pending", "response"})
    BY <1>0
  <2>3. d = [c EXCEPT !.callbacks = 1, !.pendingSent = TRUE, !.pendingIsBeingSent = TRUE,
                      !.flight = <<"pending">>]
    BY <2>2
  <2>. HIDE DEF d
  <2>4. d \in Connection
    BY ONLY <1>0, <2>2, <2>3 DEF Connection
  <2>5. /\ d.flight = <<"pending">> /\ d.answered = c.answered /\ d.queue = c.queue
        /\ d.job = c.job /\ d.callbacks = 1 /\ d.isOpen = c.isOpen
        /\ d.pendingIsBeingSent = TRUE /\ d.terminating = c.terminating
        /\ d.nested = c.nested /\ d.sender = c.sender
        /\ d.message = c.message /\ d.functional = c.functional
    BY ONLY <1>0, <2>3 DEF Connection
  <2>6. \A X : Linked(c, X, "none", arrived, 0) => Linked(d, X, "pending", FALSE, 0)
    BY <2>4, <2>5 DEF Linked, Carried, Reported
  <2>7. Unanswered(d, "pending") /\ ~c.answered
    BY <1>0, <2>5 DEF Unanswered
  <2>8. Phase(d, "pending", FALSE)
    BY <2>5, <2>6, <2>7 DEF Phase, Works, AsksForTime, GoesOn, DoesNotWait, Waits
  <2>9. OpenInv(d)
    BY <2>8 DEF OpenInv, Ways
  <2>. QED BY <2>1, <2>5, <2>7, <2>9 DEF Makes
<1>. QED BY <1>1, <1>2

\* The answer of a job is not sent, waits for RESPONSE_PENDING, or is sent.
LEMMA Answering ==
  ASSUME NEW c, NEW m \in Ways, NEW arrived \in BOOLEAN, NEW ok \in BOOLEAN, m # "response",
         c.sender, ~c.answered, c.nested = NoNested, c.response \in Responses,
         c.job = Asked(c.response), Linked(c, {}, m, arrived, 1)
  PROVE  /\ Makes(c, Suppressed(c))
         /\ c.pendingIsBeingSent => Makes(c, c)
         /\ ~c.pendingIsBeingSent => Makes(c, SendResponse(c, ok))
<1>0. c \in Connection /\ c.isOpen /\ (c.pendingIsBeingSent <=> m = "pending")
  BY DEF Linked
<1>1. Makes(c, Suppressed(c))
  <2>. DEFINE f == [c EXCEPT !.callbacks = @ - 1, !.sender = FALSE]
              w == IF m = "pending" THEN 1 ELSE 0
  <2>1. c \in Connection /\ c.callbacks = 1 + w /\ w \in Nat
    BY DEF Linked
  <2>2. c.callbacks - 1 = 0 + w /\ c.callbacks - 1 \in Nat
    <3>. HIDE DEF w
    <3>. QED BY <2>1
  <2>3. f \in Connection
    BY ONLY <2>1, <2>2 DEF Connection
  <2>4. /\ f.flight = c.flight /\ f.answered = c.answered /\ f.queue = c.queue
        /\ f.job = c.job /\ f.callbacks = c.callbacks - 1 /\ f.isOpen = c.isOpen
        /\ f.pendingIsBeingSent = c.pendingIsBeingSent /\ f.terminating = c.terminating
        /\ f.nested = c.nested /\ f.sender = FALSE
        /\ f.message = c.message /\ f.functional = c.functional
    BY ONLY <2>1 DEF Connection
  <2>. HIDE DEF f
  <2>5. Linked(f, {}, m, arrived, 0)
    BY <2>2, <2>3, <2>4 DEF Linked
  <2>6. DoesNotWait(f) /\ f.job = Asked(c.response) /\ ~f.answered
    BY <2>4 DEF DoesNotWait
  <2>7. Makes(f, ResponseSent(f))
    BY <2>4, <2>5, <2>6, Telling
  <2>8. Suppressed(c) = ResponseSent(f)
    BY DEF Suppressed, f
  <2>. QED BY <2>4, <2>7, <2>8 DEF Makes
<1>2. ASSUME c.pendingIsBeingSent PROVE Makes(c, c)
  <2>1. Holds(c, m, arrived)
    BY <1>0, <1>2 DEF Holds
  <2>. QED BY <2>1 DEF Makes, OpenInv, Phase
<1>3. ASSUME ~c.pendingIsBeingSent PROVE Makes(c, SendResponse(c, ok))
  <2>1. m = "none"
    BY <1>0, <1>3 DEF Ways
  <2>. QED BY <2>1, Sending
<1>. QED BY <1>1, <1>2, <1>3

\* A nested request has got an answer and goes on or ends.
LEMMA NestedAnswer ==
  ASSUME NEW c, NEW m \in Ways, NEW arrived \in BOOLEAN, NEW r \in Responses, c.job = Asked(r),
         Unanswered(c, m), DoesNotWait(c), c.nested # NoNested, Linked(c, {}, m, arrived, 1),
         NEW n \in NestedRequest, n.pendingSender = c.nested.pendingSender, n # NoNested
  PROVE  LET f == [c EXCEPT !.callbacks = @ - 1, !.nested = n]
         IN Linked(f, {}, m, arrived, 0) /\ Makes(c, ResponseSent(f))
<1>. DEFINE f == [c EXCEPT !.callbacks = @ - 1, !.nested = n]
            w == IF m = "pending" THEN 1 ELSE 0
<1>1. c \in Connection /\ c.callbacks = 1 + w /\ w \in Nat
  BY DEF Linked
<1>2. c.callbacks - 1 = 0 + w /\ c.callbacks - 1 \in Nat
  <2>. HIDE DEF w
  <2>. QED BY <1>1
<1>3. f \in Connection
  BY ONLY <1>1, <1>2, n \in NestedRequest DEF Connection
<1>4. /\ f.flight = c.flight /\ f.answered = c.answered /\ f.queue = c.queue
      /\ f.job = c.job /\ f.callbacks = c.callbacks - 1 /\ f.isOpen = c.isOpen
      /\ f.pendingIsBeingSent = c.pendingIsBeingSent /\ f.terminating = c.terminating
      /\ f.nested = n /\ f.sender = c.sender
      /\ f.message = c.message /\ f.functional = c.functional
  BY ONLY <1>1 DEF Connection
<1>. HIDE DEF f
<1>5. Linked(f, {}, m, arrived, 0)
  BY <1>2, <1>3, <1>4 DEF Linked
<1>6. DoesNotWait(f) /\ f.job = Asked(r) /\ ~f.answered /\ ~f.sender /\ m # "response"
  BY <1>4 DEF DoesNotWait, Unanswered
<1>7. Makes(f, ResponseSent(f))
  BY <1>5, <1>6, Telling
<1>8. Makes(c, ResponseSent(f))
  BY <1>4, <1>7 DEF Makes, Unanswered
<1>. QED BY <1>5, <1>8 DEF f

\* asyncSendPositiveResponse(), of a plain and of a nested request.
LEMMA PositiveClosure ==
  ASSUME NEW c, NEW m \in Ways, NEW arrived \in BOOLEAN, NEW ok \in BOOLEAN,
         NEW overflow \in BOOLEAN, c.job = Asked("positive"),
         Unanswered(c, m), DoesNotWait(c), Linked(c, {}, m, arrived, 1)
  PROVE  Makes(c, AsyncSendPositiveResponse(c, ok, overflow))
<1>0. c \in Connection /\ "positive" \in Responses
  BY DEF Linked, Responses
<1>1. CASE c.nested # NoNested
  <2>. DEFINE x == IF overflow THEN "other" ELSE c.nested.code
              n == [c.nested EXCEPT !.combined = "ok", !.code = x]
  <2>1. c.nested \in NestedRequest
    BY <1>0, <1>1 DEF Connection
  <2>2. x \in Results
    BY <2>1 DEF NestedRequest, Results, Codes
  <2>3. AsyncSendPositiveResponse(c, ok, overflow) = ResponseSent([c EXCEPT !.callbacks = @ - 1, !.nested = n])
    BY <1>0, <1>1, <2>1 DEF AsyncSendPositiveResponse, Connection, NestedRequest
  <2>. HIDE DEF x
  <2>4. n \in NestedRequest /\ n.pendingSender = c.nested.pendingSender
    BY <2>1, <2>2 DEF NestedRequest, Results
  <2>5. n # NoNested
    BY <2>4 DEF NestedRequest, NoNested
  <2>. HIDE DEF n
  <2>6. Makes(c, ResponseSent([c EXCEPT !.callbacks = @ - 1, !.nested = n]))
    BY <1>0, <1>1, <2>4, <2>5, NestedAnswer
  <2>. QED BY <2>3, <2>6
<1>2. CASE c.nested = NoNested
  <2>. DEFINE d == [c EXCEPT !.sender = TRUE, !.response = "positive"]
  <2>1. /\ d \in Connection /\ d.sender = TRUE /\ d.response = "positive"
        /\ d.flight = c.flight /\ d.answered = c.answered /\ d.queue = c.queue
        /\ d.job = c.job /\ d.callbacks = c.callbacks /\ d.isOpen = c.isOpen
        /\ d.pendingIsBeingSent = c.pendingIsBeingSent /\ d.terminating = c.terminating
        /\ d.nested = c.nested
        /\ d.message = c.message /\ d.functional = c.functional
    BY ONLY <1>0 DEF Connection
  <2>2. AsyncSendPositiveResponse(c, ok, overflow)
          = IF c.suppress /\ ~c.pendingSent THEN Suppressed(d)
            ELSE IF c.pendingIsBeingSent THEN d ELSE SendResponse(d, ok)
    BY <1>2 DEF AsyncSendPositiveResponse
  <2>. HIDE DEF d
  <2>3. Linked(d, {}, m, arrived, 1)
    BY <2>1 DEF Linked
  <2>4. m # "response" /\ ~d.answered /\ ~c.answered
    BY <2>1 DEF Unanswered
  <2>5. /\ Makes(d, Suppressed(d)) /\ (d.pendingIsBeingSent => Makes(d, d))
        /\ ~d.pendingIsBeingSent => Makes(d, SendResponse(d, ok))
    BY <1>0, <1>2, <2>1, <2>3, <2>4, Answering
  <2>6. \A e : Makes(d, e) => Makes(c, e)
    BY <2>1, <2>4 DEF Makes
  <2>. QED BY <2>1, <2>2, <2>5, <2>6
<1>. QED BY <1>1, <1>2

\* asyncSendNegativeResponse(), of a plain and of a nested request.
LEMMA NegativeClosure ==
  ASSUME NEW c, NEW m \in Ways, NEW arrived \in BOOLEAN, NEW ok \in BOOLEAN,
         NEW code \in Codes, c.job = Asked(code),
         Unanswered(c, m), DoesNotWait(c), Linked(c, {}, m, arrived, 1)
  PROVE  Makes(c, AsyncSendNegativeResponse(c, code, ok))
<1>0. c \in Connection /\ code \in Responses /\ code # "positive" /\ code \in Results
      /\ ~c.answered /\ m # "response"
  BY DEF Linked, Responses, Codes, Results, Unanswered
<1>1. CASE c.nested # NoNested
  <2>1. c.nested \in NestedRequest
    BY <1>0, <1>1 DEF Connection
  <2>. DEFINE d == [c EXCEPT !.callbacks = @ - 1]
  <2>2. /\ d.nested = c.nested /\ d.pendingTimeout = c.pendingTimeout
        /\ d.callbacks = c.callbacks - 1
    BY ONLY <1>0 DEF Connection
  <2>3. ASSUME code # "pending"
        PROVE  Makes(c, AsyncSendNegativeResponse(c, code, ok))
    <3>. DEFINE n == Refused(c.nested, code)
    <3>1. AsyncSendNegativeResponse(c, code, ok) = ResponseSent([c EXCEPT !.callbacks = @ - 1, !.nested = n])
      BY <1>1, <2>2, <2>3 DEF AsyncSendNegativeResponse
    <3>2. n \in NestedRequest /\ n.pendingSender = c.nested.pendingSender
      BY <1>0, <2>1 DEF Refused, NestedRequest
    <3>3. n # NoNested
      BY <3>2 DEF NestedRequest, NoNested
    <3>. HIDE DEF n
    <3>4. Makes(c, ResponseSent([c EXCEPT !.callbacks = @ - 1, !.nested = n]))
      BY <1>0, <1>1, <3>2, <3>3, NestedAnswer
    <3>. QED BY <3>1, <3>4
  <2>4. [c EXCEPT !.callbacks = @ - 1, !.nested = c.nested] = d
    BY ONLY <1>0 DEF Connection
  <2>5. Linked(d, {}, m, arrived, 0) /\ Makes(c, ResponseSent(d))
    <3>. DEFINE n == c.nested
    <3>1. n \in NestedRequest /\ n.pendingSender = c.nested.pendingSender /\ n # NoNested
      BY <1>1, <2>1
    <3>2. LET f == [c EXCEPT !.callbacks = @ - 1, !.nested = n]
          IN Linked(f, {}, m, arrived, 0) /\ Makes(c, ResponseSent(f))
      BY <1>0, <1>1, <3>1, NestedAnswer
    <3>. QED BY <2>4, <3>2
  <2>6. ASSUME code = "pending", c.nested.pendingSent
        PROVE  Makes(c, AsyncSendNegativeResponse(c, code, ok))
    BY <1>1, <2>5, <2>6 DEF AsyncSendNegativeResponse
  <2>7. ASSUME code = "pending", ~c.nested.pendingSent
        PROVE  Makes(c, AsyncSendNegativeResponse(c, code, ok))
    <3>. DEFINE b == d.callbacks # 0  n == [c.nested EXCEPT !.pendingSender = TRUE]
                e == [d EXCEPT !.nested.pendingSender = TRUE, !.pendingTimeout = TRUE,
                               !.pendingIsPending = (d.callbacks # 0)]
                f == [d EXCEPT !.nested = n, !.pendingTimeout = TRUE, !.pendingIsPending = b]
    <3>1. AsyncSendNegativeResponse(c, code, ok) = IF e.pendingIsPending THEN e ELSE SendResponsePending(e, ok)
      BY <1>1, <2>7 DEF AsyncSendNegativeResponse
    <3>2. e = f
      BY <2>2
    <3>3. n \in NestedRequest /\ n.pendingSender = TRUE
      BY <2>1 DEF NestedRequest
    <3>4. n # NoNested
      BY <3>3 DEF NestedRequest, NoNested
    <3>5. b \in BOOLEAN /\ d \in Connection
      BY <2>5 DEF Linked
    <3>. HIDE DEF n, d, b
    <3>6. f \in Connection
      BY ONLY <3>3, <3>5 DEF Connection
    <3>7. /\ f.flight = d.flight /\ f.answered = d.answered /\ f.queue = d.queue
          /\ f.job = d.job /\ f.callbacks = d.callbacks /\ f.isOpen = d.isOpen
          /\ f.pendingIsBeingSent = d.pendingIsBeingSent /\ f.terminating = d.terminating
          /\ f.nested = n /\ f.sender = d.sender /\ f.pendingIsPending = b
          /\ f.message = d.message /\ f.functional = d.functional
      BY ONLY <3>5 DEF Connection
    <3>8. /\ d.answered = c.answered /\ d.sender = c.sender /\ d.job = c.job /\ d.nested = c.nested
          /\ d.message = c.message /\ d.functional = c.functional
      BY ONLY <1>0 DEF Connection, d
    <3>. HIDE DEF f
    <3>9. ~d.terminating
      BY <1>1, <2>5, <3>8 DEF Linked
    <3>10. Linked(f, {}, m, arrived, 0)
      BY <2>5, <3>6, <3>7, <3>9 DEF Linked
    <3>11. AsksForTime(f, m, arrived)
      BY <2>7, <3>3, <3>4, <3>7, <3>8, <3>10 DEF AsksForTime, Waits, Unanswered
    <3>12. Makes(c, f)
      BY <1>0, <3>7, <3>8, <3>11 DEF Makes, OpenInv, Phase
    <3>13. ASSUME ~b PROVE Makes(c, SendResponsePending(f, ok))
      <4>1. m = "none"
        BY <1>0, <2>5, <3>13 DEF Linked, Ways, b
      <4>2. AsksForTime(f, "none", arrived)
        BY <3>11, <4>1
      <4>3. Makes(f, SendResponsePending(f, ok))
        BY ONLY <4>2, arrived \in BOOLEAN, AskingForTime
      <4>. QED BY <1>0, <3>7, <3>8, <4>3 DEF Makes
    <3>. QED BY <3>1, <3>2, <3>7, <3>12, <3>13
  <2>. QED BY <2>3, <2>6, <2>7
<1>2. CASE c.nested = NoNested
  <2>. DEFINE d == [c EXCEPT !.sender = TRUE, !.response = code]
  <2>1. /\ d \in Connection /\ d.sender = TRUE /\ d.response = code
        /\ d.flight = c.flight /\ d.answered = c.answered /\ d.queue = c.queue
        /\ d.job = c.job /\ d.callbacks = c.callbacks /\ d.isOpen = c.isOpen
        /\ d.pendingIsBeingSent = c.pendingIsBeingSent /\ d.terminating = c.terminating
        /\ d.nested = c.nested
        /\ d.message = c.message /\ d.functional = c.functional
    BY ONLY <1>0 DEF Connection
  <2>. DEFINE b == d.pendingTimeout \/ code = "pending"  e == [d EXCEPT !.pendingTimeout = b]
  <2>2. AsyncSendNegativeResponse(c, code, ok)
          = IF c.functional /\ code = "range" THEN Suppressed(d)
            ELSE IF c.pendingIsBeingSent THEN d ELSE SendResponse(e, ok)
    BY <1>2 DEF AsyncSendNegativeResponse
  <2>. HIDE DEF d
  <2>3. b \in BOOLEAN
    BY <2>1 DEF Connection
  <2>. HIDE DEF b
  <2>4. /\ e \in Connection /\ e.sender = TRUE /\ e.response = code
        /\ e.flight = c.flight /\ e.answered = c.answered /\ e.queue = c.queue
        /\ e.job = c.job /\ e.callbacks = c.callbacks /\ e.isOpen = c.isOpen
        /\ e.pendingIsBeingSent = c.pendingIsBeingSent /\ e.terminating = c.terminating
        /\ e.nested = c.nested
        /\ e.message = c.message /\ e.functional = c.functional
    BY <2>1, <2>3 DEF Connection
  <2>. HIDE DEF e
  <2>5. Linked(d, {}, m, arrived, 1) /\ Linked(e, {}, m, arrived, 1)
    BY <2>1, <2>4 DEF Linked
  <2>6. /\ Makes(d, Suppressed(d)) /\ (d.pendingIsBeingSent => Makes(d, d))
    BY <1>0, <1>2, <2>1, <2>5, Answering
  <2>7. ~e.pendingIsBeingSent => Makes(e, SendResponse(e, ok))
    BY <1>0, <1>2, <2>4, <2>5, Answering
  <2>8. \A x : Makes(d, x) \/ Makes(e, x) => Makes(c, x)
    BY <1>0, <2>1, <2>4 DEF Makes
  <2>. QED BY <2>1, <2>2, <2>4, <2>6, <2>7, <2>8
<1>. QED BY <1>1, <1>2

\* One function after the other.
LEMMA MakesTransitive ==
  ASSUME NEW c, NEW d, NEW e, Makes(c, d), Gone(d) => Gone(e), OpenInv(d) => Makes(d, e)
  PROVE  Makes(c, e)
  BY DEF Makes

\* triggerNextNestedRequest(), whatever becomes of the requests.
LEMMA Triggering ==
  ASSUME NEW c, NEW m \in Ways, NEW arrived \in BOOLEAN, Rests(c, m, arrived),
         c.nested # NoNested, NEW d \in TriggerNextNestedRequest(c)
  PROVE  Makes(c, d)
<1>0. c \in Connection /\ c.nested \in NestedRequest /\ ~c.answered
  BY DEF Rests, Linked, Connection
<1>1. ASSUME NEW n \in NestedRequest, n.pendingSender = c.nested.pendingSender
      PROVE  LET e == [c EXCEPT !.nested = n]
             IN Makes(c, EndNestedRequest(e)) /\ Makes(c, [e EXCEPT !.job = Working])
  <2>. DEFINE e == [c EXCEPT !.nested = n]  f == [e EXCEPT !.job = Working]
  <2>1. n # NoNested /\ Working \in Jobs
    BY DEF NestedRequest, NoNested, Jobs
  <2>2. e \in Connection /\ f \in Connection
    BY ONLY <1>0, <1>1, <2>1, n \in NestedRequest DEF Connection
  <2>3. /\ e.flight = c.flight /\ e.answered = c.answered /\ e.queue = c.queue
        /\ e.job = c.job /\ e.callbacks = c.callbacks /\ e.isOpen = c.isOpen
        /\ e.pendingIsBeingSent = c.pendingIsBeingSent /\ e.terminating = c.terminating
        /\ e.nested = n /\ e.sender = c.sender
        /\ e.message = c.message /\ e.functional = c.functional
    BY ONLY <1>0 DEF Connection
  <2>4. /\ f.flight = c.flight /\ f.answered = c.answered /\ f.queue = c.queue
        /\ f.job = Working /\ f.callbacks = c.callbacks /\ f.isOpen = c.isOpen
        /\ f.pendingIsBeingSent = c.pendingIsBeingSent /\ f.terminating = c.terminating
        /\ f.nested = n /\ f.sender = c.sender
        /\ f.message = c.message /\ f.functional = c.functional
    BY ONLY <1>0 DEF Connection
  <2>. HIDE DEF e, f
  <2>5. ~c.terminating
    BY DEF Rests, Linked
  <2>6. Linked(e, {}, m, arrived, 0) /\ Linked(f, {}, m, arrived, 0)
    BY <2>2, <2>3, <2>4, <2>5 DEF Rests, Linked
  <2>7. Rests(e, m, arrived)
    BY <1>0, <1>1, <2>3, <2>6 DEF Rests, DoesNotWait
  <2>8. Makes(e, EndNestedRequest(e))
    BY <2>1, <2>3, <2>7, Ending
  <2>9. Makes(c, EndNestedRequest(e))
    BY <1>0, <2>3, <2>8 DEF Makes
  <2>10. Works(f, m, arrived)
    BY <1>0, <1>1, <2>4, <2>6 DEF Works, Rests, DoesNotWait, Unanswered
  <2>11. Makes(c, f)
    BY <1>0, <2>4, <2>10 DEF Makes, OpenInv, Phase
  <2>. QED BY <2>9, <2>11 DEF e, f
<1>2. CASE c.nested.code # "ok"
  BY <1>2, Ending DEF TriggerNextNestedRequest
<1>3. CASE c.nested.code = "ok"
  <2>. DEFINE left == c.nested.left
  <2>0. left \in Nat
    BY <1>0 DEF NestedRequest
  <2>1. \A n \in 0 .. left - 1 : n \in Nat
    BY ONLY <2>0
  <2>2. ASSUME NEW n \in 0 .. left - 1, d = [c EXCEPT !.nested.left = n, !.job = Working]
        PROVE  Makes(c, d)
    <3>. DEFINE x == [c.nested EXCEPT !.left = n]
    <3>1. x \in NestedRequest /\ x.pendingSender = c.nested.pendingSender
      BY <1>0, <2>1 DEF NestedRequest
    <3>2. Makes(c, [[c EXCEPT !.nested = x] EXCEPT !.job = Working])
      BY <1>1, <3>1
    <3>. QED BY <2>2, <3>2
  <2>3. ASSUME NEW n \in 0 .. left - 1,
               d = EndNestedRequest([c EXCEPT !.nested = Refused([@ EXCEPT !.left = n], "other")])
        PROVE  Makes(c, d)
    <3>. DEFINE x == Refused([c.nested EXCEPT !.left = n], "other")
    <3>1. x \in NestedRequest /\ x.pendingSender = c.nested.pendingSender
      BY <1>0, <2>1 DEF NestedRequest, Refused, Results, Codes
    <3>. HIDE DEF x
    <3>2. Makes(c, EndNestedRequest([c EXCEPT !.nested = x]))
      BY <1>1, <3>1
    <3>. QED BY <2>3, <3>2 DEF x
  <2>4. ASSUME d = EndNestedRequest([c EXCEPT !.nested.left = 0, !.nested.code = c.nested.combined])
        PROVE  Makes(c, d)
    <3>. DEFINE x == [c.nested EXCEPT !.left = 0, !.code = c.nested.combined]
    <3>1. x \in NestedRequest /\ x.pendingSender = c.nested.pendingSender
      BY <1>0, <2>1 DEF NestedRequest
    <3>2. [c EXCEPT !.nested.left = 0, !.nested.code = c.nested.combined] = [c EXCEPT !.nested = x]
      BY <1>0 DEF Connection
    <3>. HIDE DEF x
    <3>3. Makes(c, EndNestedRequest([c EXCEPT !.nested = x]))
      BY <1>1, <3>1
    <3>. QED BY <2>4, <3>2, <3>3
  <2>. QED BY <1>3, <2>2, <2>3, <2>4 DEF TriggerNextNestedRequest
<1>. QED BY <1>2, <1>3

\* The end of asyncTransportMessageProcessed().
Finished(c, ok) ==
  IF c.callbacks # 0 THEN c
  ELSE IF c.terminating THEN Terminate(c)
  ELSE IF c.pendingIsPending
  THEN SendResponsePending([c EXCEPT !.pendingIsPending = FALSE], ok)
  ELSE c

\* It leaves the connection in a phase, or gone.
LEMMA Finishing ==
  ASSUME NEW c, NEW ok
  PROVE  /\ OpenInv(c) => Makes(c, Finished(c, ok))
         /\ Gone(c) => Gone(Finished(c, ok))
<1>. DEFINE e == [c EXCEPT !.pendingIsPending = FALSE]
<1>0. ASSUME c \in Connection
      PROVE  /\ e \in Connection /\ e.flight = c.flight /\ e.answered = c.answered /\ e.queue = c.queue
             /\ e.job = c.job /\ e.callbacks = c.callbacks /\ e.isOpen = c.isOpen
             /\ e.pendingIsBeingSent = c.pendingIsBeingSent /\ e.terminating = c.terminating
             /\ e.nested = c.nested /\ e.sender = c.sender
             /\ e.message = c.message /\ e.functional = c.functional
             /\ e.pendingTimeout = c.pendingTimeout /\ e.globalTimeout = c.globalTimeout
  BY <1>0 DEF Connection
<1>1. ASSUME Gone(c) PROVE Gone(Finished(c, ok))
  <2>. HIDE DEF e
  <2>1. Gone(e) /\ ~e.isOpen /\ ~c.terminating
    BY <1>0, <1>1 DEF Gone
  <2>2. SendResponsePending(e, ok) = e
    BY <2>1 DEF SendResponsePending
  <2>. QED BY <1>1, <2>1, <2>2 DEF Finished, e
<1>2. ASSUME OpenInv(c) PROVE Makes(c, Finished(c, ok))
  <2>1. Makes(c, c)
    BY <1>2 DEF Makes
  <2>2. CASE c.callbacks # 0
    BY <2>1, <2>2 DEF Finished
  <2>3. CASE c.callbacks = 0
    <3>1. PICK m \in Ways, arrived \in BOOLEAN : Phase(c, m, arrived)
      BY <1>2 DEF OpenInv
    <3>2. m = "none" /\ (Works(c, m, arrived) \/ AsksForTime(c, m, arrived) \/ GoesOn(c, m, arrived))
      BY <2>3, <3>1 DEF Phase, Works, HasAsked, Holds, HasSent, AsksForTime, GoesOn, IsOver, Linked,
                        Ways, Unanswered
    <3>3. c \in Connection /\ c.isOpen /\ (c.terminating => c.nested = NoNested)
      BY <3>2 DEF Works, AsksForTime, GoesOn, Linked
    <3>4. CASE c.terminating
      <4>1. Linked(c, {}, "none", arrived, 0)
        BY <3>2, <3>3, <3>4 DEF Works, AsksForTime, GoesOn, Waits
      <4>2. Gone(Terminate(c))
        BY <2>3, <3>3, <3>4, <4>1, NothingLeft, Closing
      <4>. QED BY <2>3, <3>4, <4>2 DEF Finished, Makes
    <3>5. CASE ~c.terminating
      <4>. HIDE DEF e
      <4>1. \A X : Linked(c, X, m, arrived, 0) => Linked(e, X, m, arrived, 0)
        BY <1>0, <3>3 DEF Linked
      <4>2. Works(e, "none", arrived) \/ AsksForTime(e, "none", arrived) \/ GoesOn(e, "none", arrived)
        BY <1>0, <3>2, <3>3, <4>1 DEF Works, AsksForTime, GoesOn, Unanswered, DoesNotWait, Waits
      <4>3. Makes(e, SendResponsePending(e, ok))
        BY ONLY <4>2, arrived \in BOOLEAN, AskingForTime
      <4>4. Makes(c, SendResponsePending(e, ok))
        BY <1>0, <3>3, <4>3 DEF Makes
      <4>. QED BY <2>1, <2>3, <3>5, <4>4 DEF Finished, e
    <3>. QED BY <3>4, <3>5
  <2>. QED BY <2>2, <2>3
<1>. QED BY <1>1, <1>2

\* A closure is taken from the queue.
Popped(c) == [c EXCEPT !.queue = Tail(@)]

\* The closure is one of those the connection counts on, and the rest stay.
LEMMA Taking ==
  ASSUME NEW c, NEW X, NEW m \in Ways, NEW arrived \in BOOLEAN, NEW n, Linked(c, X, m, arrived, n),
         c.queue # <<>>
  PROVE  LET b == Popped(c)
             h == Head(c.queue)
         IN /\ h \in X \cup Reported(m, arrived)
            /\ Once(b.queue, (X \cup Reported(m, arrived)) \ {h})
            /\ b \in Connection /\ b.flight = c.flight /\ b.answered = c.answered
            /\ b.job = c.job /\ b.callbacks = c.callbacks /\ b.isOpen = c.isOpen
            /\ b.pendingIsBeingSent = c.pendingIsBeingSent /\ b.terminating = c.terminating
            /\ b.nested = c.nested /\ b.sender = c.sender /\ b.response = c.response
            /\ b.message = c.message /\ b.functional = c.functional
<1>. DEFINE S == X \cup Reported(m, arrived)  q == Tail(c.queue)  b == [c EXCEPT !.queue = q]
<1>1. c \in Connection /\ Once(c.queue, S)
  BY DEF Linked
<1>2. c.queue \in Seq(Entries)
  BY <1>1 DEF Connection
<1>. HIDE DEF S
<1>3. Head(c.queue) \in S /\ q \in Seq(Entries) /\ Once(q, S \ {Head(c.queue)})
  BY ONLY <1>1, <1>2, c.queue # <<>>, OnceFacts
<1>. HIDE DEF q
<1>4. b \in Connection
  BY ONLY <1>1, <1>3 DEF Connection
<1>5. /\ b.queue = q /\ b.flight = c.flight /\ b.answered = c.answered
      /\ b.job = c.job /\ b.callbacks = c.callbacks /\ b.isOpen = c.isOpen
      /\ b.pendingIsBeingSent = c.pendingIsBeingSent /\ b.terminating = c.terminating
      /\ b.nested = c.nested /\ b.sender = c.sender /\ b.response = c.response
      /\ b.message = c.message /\ b.functional = c.functional
  BY ONLY <1>1 DEF Connection
<1>. HIDE DEF b
<1>. QED BY <1>3, <1>4, <1>5 DEF S, q, b, Popped

\* The closure works on the request.
LEMMA TakingRequest ==
  ASSUME NEW c, NEW x, NEW m \in Ways, NEW arrived \in BOOLEAN, NEW n,
         Linked(c, {x}, m, arrived, n), c.queue # <<>>, Head(c.queue).call # "processed",
         x.call # "processed"
  PROVE  LET b == Popped(c)
         IN Head(c.queue) = x /\ Linked(b, {}, m, arrived, n)
<1>. DEFINE b == Popped(c)  h == Head(c.queue)
<1>1. /\ h \in {x} \cup Reported(m, arrived)
      /\ Once(b.queue, ({x} \cup Reported(m, arrived)) \ {h})
      /\ b \in Connection /\ b.flight = c.flight
      /\ b.callbacks = c.callbacks /\ b.isOpen = c.isOpen
      /\ b.pendingIsBeingSent = c.pendingIsBeingSent /\ b.terminating = c.terminating
      /\ b.nested = c.nested
  <2>. DEFINE X == {x}
  <2>1. Linked(c, X, m, arrived, n) /\ c.queue # <<>>
    OBVIOUS
  <2>. HIDE DEF X
  <2>2. /\ h \in X \cup Reported(m, arrived)
        /\ Once(b.queue, (X \cup Reported(m, arrived)) \ {h})
        /\ b \in Connection /\ b.flight = c.flight
        /\ b.callbacks = c.callbacks /\ b.isOpen = c.isOpen
        /\ b.pendingIsBeingSent = c.pendingIsBeingSent /\ b.terminating = c.terminating
        /\ b.nested = c.nested
    BY ONLY ZenonT(60), <2>1, m \in Ways, arrived \in BOOLEAN, Taking
  <2>. QED BY <2>2 DEF X
<1>2. h.call # "processed"
  OBVIOUS
<1>. HIDE DEF b, h
<1>3. h = x /\ ({x} \cup Reported(m, arrived)) \ {h} = {} \cup Reported(m, arrived)
  BY <1>1, <1>2 DEF Reported, Entry
<1>4. Linked(b, {}, m, arrived, n)
  BY <1>1, <1>3 DEF Linked
<1>. QED BY <1>3, <1>4 DEF b, h

\* The closure reports a message; the callback has come.
Counted(c, m) ==
  [Popped(c) EXCEPT !.callbacks = @ - 1, !.pendingIsBeingSent = @ /\ m # "pending"]

Alike(c, d) == /\ d.answered = c.answered /\ d.job = c.job /\ d.sender = c.sender
               /\ d.nested = c.nested /\ d.response = c.response /\ d.message = c.message
               /\ d.functional = c.functional /\ d.terminating = c.terminating
               /\ d.flight = c.flight

\* The closure of a message that was sent: the callback is counted off, and nothing is on
\* its way to the tester any more.
LEMMA TakingReport ==
  ASSUME NEW c, NEW X, NEW m \in Ways, NEW arrived \in BOOLEAN, NEW n \in Nat,
         Linked(c, X, m, arrived, n), c.queue # <<>>, Head(c.queue).call = "processed",
         \A x \in X : x.call # "processed", m = "response" => n = 1
  PROVE  /\ Head(c.queue).arg = m /\ m # "none"
         /\ m = "pending" => Linked(Counted(c, m), X, "none", FALSE, n)
         /\ m = "response" => Linked(Counted(c, m), X, "none", FALSE, 0)
         /\ Alike(c, Counted(c, m)) /\ Popped(c).nested = c.nested
<1>. DEFINE b == Popped(c)  h == Head(c.queue)
            p == b.pendingIsBeingSent /\ m # "pending"
            d == [b EXCEPT !.callbacks = @ - 1, !.pendingIsBeingSent = p]
            k == IF m = "pending" THEN n ELSE 0
<1>1. /\ h \in X \cup Reported(m, arrived)
      /\ Once(b.queue, (X \cup Reported(m, arrived)) \ {h})
      /\ b \in Connection /\ b.flight = c.flight /\ b.answered = c.answered
      /\ b.job = c.job /\ b.callbacks = c.callbacks /\ b.isOpen = c.isOpen
      /\ b.pendingIsBeingSent = c.pendingIsBeingSent /\ b.terminating = c.terminating
      /\ b.nested = c.nested /\ b.sender = c.sender /\ b.response = c.response
      /\ b.message = c.message /\ b.functional = c.functional
  BY Taking
<1>2. h.call = "processed"
  OBVIOUS
<1>. HIDE DEF b, h
<1>3. /\ h = Entry("processed", m) /\ m # "none" /\ arrived
      /\ (X \cup Reported(m, arrived)) \ {h} = X \cup Reported("none", FALSE)
  BY <1>1, <1>2 DEF Reported, Entry
<1>4. c.flight = Carried("none", FALSE) /\ h.arg = m
  BY <1>3 DEF Linked, Carried, Entry
<1>5. b.callbacks - 1 = k + 0 /\ k \in Nat
  <2>1. b.callbacks = n + (IF m = "pending" THEN 1 ELSE 0)
    BY <1>1 DEF Linked
  <2>2. CASE m = "pending"
    BY <2>1, <2>2
  <2>3. CASE m = "response"
    BY <2>1, <2>3
  <2>. QED BY <1>3, <2>2, <2>3 DEF Ways
<1>6. p = FALSE
  BY <1>1 DEF Linked
<1>. HIDE DEF p, k
<1>7. b.callbacks - 1 \in Nat /\ p \in BOOLEAN
  <2>1. b.callbacks - 1 \in Nat
    BY ONLY <1>5
  <2>. QED BY ONLY <1>6, <2>1
<1>8. d \in Connection
  BY ONLY <1>1, <1>7 DEF Connection
<1>9. /\ d.queue = b.queue /\ d.flight = b.flight /\ d.answered = b.answered
      /\ d.job = b.job /\ d.callbacks = b.callbacks - 1 /\ d.isOpen = b.isOpen
      /\ d.pendingIsBeingSent = p /\ d.terminating = b.terminating
      /\ d.nested = b.nested /\ d.sender = b.sender /\ d.response = b.response
      /\ d.message = b.message /\ d.functional = b.functional
  BY ONLY <1>1 DEF Connection
<1>. HIDE DEF d
<1>10. Linked(d, X, "none", FALSE, k)
  BY <1>1, <1>3, <1>4, <1>5, <1>6, <1>8, <1>9 DEF Linked
<1>11. d = Counted(c, m)
  BY DEF Counted, d, p, b
<1>12. Alike(c, d)
  BY <1>1, <1>9 DEF Alike
<1>. QED BY <1>1, <1>3, <1>4, <1>10, <1>11, <1>12 DEF b, h, k

\* A report while a nested request is being processed: it is RESPONSE_PENDING that was sent.
LEMMA NestedReport ==
  ASSUME NEW c, c.nested # NoNested,
         \/ Works(c, "none", FALSE) \/ HasAsked(c, "none", FALSE) \/ GoesOn(c, "none", FALSE)
         \/ AsksForTime(c, "none", FALSE)
  PROVE  LET e == [c EXCEPT !.nested.pendingSent = TRUE, !.nested.pendingSender = FALSE]
         IN Makes(c, IF c.nested.pendingSender THEN ResponseSent(e) ELSE e)
<1>. DEFINE n == [c.nested EXCEPT !.pendingSent = TRUE, !.pendingSender = FALSE]
            e == [c EXCEPT !.nested = n]
<1>0. c \in Connection /\ ~c.answered /\ ~c.sender
  BY DEF Works, HasAsked, GoesOn, AsksForTime, Linked, Unanswered
<1>1. c.nested \in NestedRequest
  BY <1>0 DEF Connection
<1>2. n \in NestedRequest /\ n.pendingSender = FALSE
  BY <1>1 DEF NestedRequest
<1>3. n # NoNested
  BY <1>2 DEF NestedRequest, NoNested
<1>4. [c EXCEPT !.nested.pendingSent = TRUE, !.nested.pendingSender = FALSE] = e
  BY <1>0 DEF Connection
<1>. HIDE DEF n
<1>5. e \in Connection
  BY ONLY <1>0, <1>2 DEF Connection
<1>6. /\ e.flight = c.flight /\ e.answered = c.answered /\ e.queue = c.queue
      /\ e.job = c.job /\ e.callbacks = c.callbacks /\ e.isOpen = c.isOpen
      /\ e.pendingIsBeingSent = c.pendingIsBeingSent /\ e.terminating = c.terminating
      /\ e.nested = n /\ e.sender = c.sender
      /\ e.message = c.message /\ e.functional = c.functional
  BY ONLY <1>0 DEF Connection
<1>. HIDE DEF e
<1>7. \A X, k : Linked(c, X, "none", FALSE, k) => Linked(e, X, "none", FALSE, k)
  BY <1>5, <1>6 DEF Linked
<1>8. CASE AsksForTime(c, "none", FALSE)
  <2>1. c.nested.pendingSender /\ e.job = Asked("pending") /\ Linked(e, {}, "none", FALSE, 0)
    BY <1>6, <1>7, <1>8 DEF AsksForTime, Waits
  <2>2. DoesNotWait(e) /\ ~e.sender /\ ~e.answered
    BY <1>0, <1>2, <1>6 DEF DoesNotWait
  <2>3. "pending" \in Responses /\ "none" \in Ways /\ FALSE \in BOOLEAN
    BY DEF Responses, Codes, Ways
  <2>4. Makes(e, ResponseSent(e))
    BY <2>1, <2>2, <2>3, Telling
  <2>. QED BY <1>0, <1>4, <1>6, <2>1, <2>4 DEF Makes
<1>9. CASE ~AsksForTime(c, "none", FALSE)
  <2>1. ~c.nested.pendingSender
    BY <1>9 DEF Works, HasAsked, GoesOn, DoesNotWait
  <2>2. DoesNotWait(e) /\ Unanswered(e, "none")
    BY <1>0, <1>2, <1>6 DEF DoesNotWait, Unanswered
  <2>3. Phase(e, "none", FALSE)
    BY <1>3, <1>6, <1>7, <1>9, <2>2 DEF Phase, Works, HasAsked, GoesOn
  <2>4. Makes(c, e)
    BY <1>0, <1>6, <2>3 DEF Makes, OpenInv, Ways
  <2>. QED BY <1>4, <2>1, <2>4
<1>. QED BY <1>8, <1>9


\* The phase that the report of a message leads to.
LEMMA ReportPhase ==
  ASSUME NEW c, NEW m \in Ways, NEW arrived \in BOOLEAN,
         Phase(c, m, arrived), c.queue # <<>>, Head(c.queue).call = "processed"
  PROVE  LET d == Counted(c, m)
         IN /\ Head(c.queue).arg = m /\ m # "none" /\ Alike(c, d) /\ Popped(c).nested = c.nested
            /\ \/ Works(d, "none", FALSE) \/ HasAsked(d, "none", FALSE)
               \/ GoesOn(d, "none", FALSE) \/ AsksForTime(d, "none", FALSE)
               \/ Holds(c, m, arrived) /\ Linked(d, {}, "none", FALSE, 1)
               \/ HasSent(c, m, arrived) /\ Linked(d, {}, "none", FALSE, 0)
               \/ IsOver(c, m, arrived) /\ Linked(d, {}, "none", FALSE, 0)
<1>. DEFINE d == Counted(c, m)
            Goal(k) == /\ Head(c.queue).arg = m /\ m # "none" /\ Alike(c, d)
                       /\ Popped(c).nested = c.nested
                       /\ m = "pending" => k
                       /\ m = "response" => Linked(d, {}, "none", FALSE, 0)
<1>. HIDE DEF d
<1>1. ASSUME Linked(c, {}, m, arrived, 0), m # "response"
      PROVE  Goal(Linked(d, {}, "none", FALSE, 0))
  <2>. DEFINE X == {}
  <2>1. 0 \in Nat /\ Linked(c, X, m, arrived, 0) /\ (\A x \in X : x.call # "processed") /\ m # "response"
    BY <1>1
  <2>. HIDE DEF X
  <2>2. /\ Head(c.queue).arg = m /\ m # "none" /\ Alike(c, d)
        /\ Popped(c).nested = c.nested
        /\ m = "pending" => Linked(d, X, "none", FALSE, 0)
        /\ m = "response" => Linked(d, X, "none", FALSE, 0)
    BY ZenonT(60), <2>1, TakingReport DEF d
  <2>. QED BY <2>2 DEF X
<1>2. ASSUME Linked(c, {}, m, arrived, 1)
      PROVE  Goal(Linked(d, {}, "none", FALSE, 1))
  <2>. DEFINE X == {}
  <2>1. 1 \in Nat /\ Linked(c, X, m, arrived, 1) /\ (\A x \in X : x.call # "processed")
    BY <1>2
  <2>. HIDE DEF X
  <2>2. /\ Head(c.queue).arg = m /\ m # "none" /\ Alike(c, d)
        /\ Popped(c).nested = c.nested
        /\ m = "pending" => Linked(d, X, "none", FALSE, 1)
        /\ m = "response" => Linked(d, X, "none", FALSE, 0)
    BY ZenonT(60), <2>1, TakingReport DEF d
  <2>. QED BY <2>2 DEF X
<1>3. CASE Works(c, m, arrived)
  <2>1. Linked(c, {}, m, arrived, 0) /\ m # "response"
    BY <1>3 DEF Works, Unanswered
  <2>2. Goal(Linked(d, {}, "none", FALSE, 0))
    BY <1>1, <2>1
  <2>3. Works(d, "none", FALSE)
    BY <1>3, <2>1, <2>2 DEF Works, Alike, Unanswered, DoesNotWait, Ways
  <2>. QED BY <2>2, <2>3 DEF d
<1>4. CASE HasAsked(c, m, arrived)
  <2>1. PICK r \in Responses : c.job = Asked(r) /\ Linked(c, {Answer(r)}, m, arrived, 1)
    BY <1>4 DEF HasAsked
  <2>. DEFINE X == {Answer(r)}
  <2>2. (\A x \in X : x.call # "processed") /\ 1 \in Nat /\ m # "response"
    BY <1>4 DEF Answer, Entry, HasAsked, Unanswered
  <2>3. Linked(c, X, m, arrived, 1)
    BY <2>1
  <2>. HIDE DEF X
  <2>4. Goal(Linked(d, X, "none", FALSE, 1))
    BY ZenonT(60), <2>2, <2>3, TakingReport DEF d
  <2>5. Linked(d, {Answer(r)}, "none", FALSE, 1) /\ d.job = Asked(r)
    BY <2>1, <2>2, <2>4 DEF X, Ways, Alike
  <2>6. HasAsked(d, "none", FALSE)
    BY <1>4, <2>4, <2>5 DEF HasAsked, Alike, Unanswered, DoesNotWait
  <2>. QED BY <2>4, <2>6 DEF d
<1>5. CASE GoesOn(c, m, arrived)
  <2>. DEFINE X == {Entry("next", "ok")}
  <2>1. Linked(c, X, m, arrived, 0) /\ 0 \in Nat /\ m # "response"
    BY <1>5 DEF GoesOn, Unanswered
  <2>2. \A x \in X : x.call # "processed"
    BY DEF Entry
  <2>. HIDE DEF X
  <2>3. Goal(Linked(d, X, "none", FALSE, 0))
    BY <2>1, <2>2, TakingReport DEF d
  <2>4. Linked(d, {Entry("next", "ok")}, "none", FALSE, 0)
    BY <2>1, <2>3 DEF X, Ways
  <2>5. GoesOn(d, "none", FALSE)
    BY <1>5, <2>3, <2>4 DEF GoesOn, Alike, Unanswered, DoesNotWait
  <2>. QED BY <2>3, <2>5 DEF d
<1>6. CASE AsksForTime(c, m, arrived)
  <2>1. Linked(c, {}, m, arrived, 0) /\ m # "response"
    BY <1>6 DEF AsksForTime, Unanswered
  <2>2. Goal(Linked(d, {}, "none", FALSE, 0))
    BY <1>1, <2>1
  <2>3. AsksForTime(d, "none", FALSE)
    BY <1>6, <2>1, <2>2 DEF AsksForTime, Alike, Unanswered, Waits, Ways
  <2>. QED BY <2>2, <2>3 DEF d
<1>7. CASE Holds(c, m, arrived)
  <2>1. Linked(c, {}, m, arrived, 1) /\ m = "pending"
    BY <1>7 DEF Holds
  <2>2. Goal(Linked(d, {}, "none", FALSE, 1))
    BY <1>2, <2>1
  <2>. QED BY <1>7, <2>1, <2>2 DEF d
<1>8. CASE HasSent(c, m, arrived)
  <2>1. Linked(c, {}, m, arrived, 1) /\ m = "response"
    BY <1>8 DEF HasSent
  <2>2. Goal(Linked(d, {}, "none", FALSE, 1))
    BY <1>2, <2>1
  <2>. QED BY <1>8, <2>1, <2>2 DEF d
<1>9. CASE IsOver(c, m, arrived)
  <2>1. Linked(c, {}, m, arrived, 0) /\ m = "pending"
    BY <1>9 DEF IsOver
  <2>2. Goal(Linked(d, {}, "none", FALSE, 0))
    BY <1>1, <2>1
  <2>. QED BY <1>9, <2>1, <2>2 DEF d
<1>. QED BY <1>3, <1>4, <1>5, <1>6, <1>7, <1>8, <1>9 DEF Phase

\* asyncTransportMessageProcessed().
LEMMA ReportClosure ==
  ASSUME NEW c, NEW m \in Ways, NEW arrived \in BOOLEAN, NEW ok \in BOOLEAN, NEW ok2 \in BOOLEAN,
         Phase(c, m, arrived), c.queue # <<>>, Head(c.queue).call = "processed"
  PROVE  Makes(c, AsyncTransportMessageProcessed(Popped(c), Head(c.queue).arg, ok, ok2))
<1>. DEFINE b == Popped(c)  arg == Head(c.queue).arg  d == Counted(c, m)
            e == [d EXCEPT !.nested.pendingSent = TRUE, !.nested.pendingSender = FALSE]
            f == IF ~d.sender THEN d
                 ELSE IF m = "pending" THEN SendResponse(d, ok)
                 ELSE ResponseSent([d EXCEPT !.sender = FALSE])
            Result == AsyncTransportMessageProcessed(b, arg, ok, ok2)
<1>1. /\ arg = m /\ m # "none" /\ Alike(c, d) /\ b.nested = c.nested
      /\ \/ Works(d, "none", FALSE) \/ HasAsked(d, "none", FALSE)
         \/ GoesOn(d, "none", FALSE) \/ AsksForTime(d, "none", FALSE)
         \/ Holds(c, m, arrived) /\ Linked(d, {}, "none", FALSE, 1)
         \/ HasSent(c, m, arrived) /\ Linked(d, {}, "none", FALSE, 0)
         \/ IsOver(c, m, arrived) /\ Linked(d, {}, "none", FALSE, 0)
  BY ReportPhase
<1>2. Result = IF m = "pending" /\ c.nested # NoNested
               THEN IF c.nested.pendingSender THEN ResponseSent(e) ELSE e
               ELSE Finished(f, ok2)
  <2>1. d = [b EXCEPT !.callbacks = @ - 1, !.pendingIsBeingSent = @ /\ ~(m = "pending")]
    BY DEF Counted
  <2>. HIDE DEF b, arg, d
  <2>2. AsyncTransportMessageProcessed(b, m, ok, ok2)
          = IF m = "pending" /\ b.nested # NoNested
            THEN IF b.nested.pendingSender THEN ResponseSent(e) ELSE e
            ELSE Finished(f, ok2)
    BY <2>1 DEF AsyncTransportMessageProcessed, Finished
  <2>. QED BY <1>1, <2>2
<1>. HIDE DEF b, arg, d, Result
<1>3. \A x : Makes(d, x) => Makes(c, x)
  BY <1>1 DEF Makes, Alike
<1>4. OpenInv(f) => Makes(f, Finished(f, ok2))
  BY Finishing
<1>5. Gone(f) => Gone(Finished(f, ok2))
  BY Finishing
<1>6. CASE \/ Works(d, "none", FALSE) \/ HasAsked(d, "none", FALSE)
           \/ GoesOn(d, "none", FALSE) \/ AsksForTime(d, "none", FALSE)
  <2>1. CASE m = "pending" /\ c.nested # NoNested
    <3>1. d.nested = c.nested
      BY <1>1 DEF Alike
    <3>2. Makes(d, IF d.nested.pendingSender THEN ResponseSent(e) ELSE e)
      BY <1>6, <2>1, <3>1, NestedReport
    <3>. QED BY <1>2, <1>3, <2>1, <3>1, <3>2 DEF Result, b, arg
  <2>2. CASE ~(m = "pending" /\ c.nested # NoNested)
    <3>1. OpenInv(d) /\ ~d.sender
      BY <1>6 DEF OpenInv, Phase, Ways, Works, HasAsked, GoesOn, AsksForTime, Unanswered
    <3>2. f = d
      BY <3>1
    <3>. HIDE DEF f
    <3>3. Makes(d, Finished(f, ok2))
      BY <1>4, <3>1, <3>2
    <3>. QED BY <1>2, <1>3, <2>2, <3>3 DEF Result, b, arg
  <2>. QED BY <2>1, <2>2
<1>7. CASE Holds(c, m, arrived) /\ Linked(d, {}, "none", FALSE, 1)
  <2>1. /\ m = "pending" /\ c.nested = NoNested /\ d.sender /\ ~d.answered /\ d.nested = NoNested
        /\ d.response \in Responses /\ d.job = Asked(d.response)
    BY <1>1, <1>7 DEF Holds, Alike
  <2>2. f = SendResponse(d, ok)
    BY <2>1
  <2>. HIDE DEF f
  <2>3. Makes(d, f)
    BY <1>7, <2>1, <2>2, Sending
  <2>4. Makes(d, Finished(f, ok2))
    BY <1>4, <1>5, <2>3, MakesTransitive
  <2>. QED BY <1>2, <1>3, <2>1, <2>4 DEF Result, b, arg
<1>8. CASE HasSent(c, m, arrived) /\ Linked(d, {}, "none", FALSE, 0)
  <2>. DEFINE g == [d EXCEPT !.sender = FALSE]
  <2>1. /\ m = "response" /\ c.nested = NoNested /\ d.sender /\ d.nested = NoNested
    BY <1>1, <1>8 DEF HasSent, Alike
  <2>2. PICK r \in Responses : d.job = Asked(r) /\ (d.answered => r # "pending")
    BY <1>1, <1>8 DEF HasSent, Alike
  <2>3. d \in Connection
    BY <1>8 DEF Linked
  <2>4. g \in Connection
    BY ONLY <2>3 DEF Connection
  <2>5. /\ g.flight = d.flight /\ g.answered = d.answered /\ g.queue = d.queue
        /\ g.job = d.job /\ g.callbacks = d.callbacks /\ g.isOpen = d.isOpen
        /\ g.pendingIsBeingSent = d.pendingIsBeingSent /\ g.terminating = d.terminating
        /\ g.nested = d.nested /\ g.sender = FALSE
        /\ g.message = d.message /\ g.functional = d.functional
    BY ONLY <2>3 DEF Connection
  <2>6. f = ResponseSent(g)
    BY <2>1
  <2>. HIDE DEF f, g
  <2>7. Linked(g, {}, "none", FALSE, 0) /\ DoesNotWait(g) /\ g.nested = NoNested /\ ~g.sender
    BY <1>8, <2>1, <2>4, <2>5 DEF Linked, DoesNotWait
  <2>8. g.job = Asked(r) /\ (g.answered => r # "pending") /\ "none" \in Ways /\ FALSE \in BOOLEAN
    BY <2>2, <2>5 DEF Ways
  <2>9. Makes(g, f)
    BY <2>6, <2>7, <2>8, Telling
  <2>10. Makes(g, Finished(f, ok2))
    BY <1>4, <1>5, <2>9, MakesTransitive
  <2>11. Makes(d, Finished(f, ok2))
    BY <2>5, <2>10 DEF Makes
  <2>. QED BY <1>2, <1>3, <2>1, <2>11 DEF Result, b, arg
<1>9. CASE IsOver(c, m, arrived) /\ Linked(d, {}, "none", FALSE, 0)
  <2>1. /\ d.terminating /\ ~d.sender
    BY <1>1, <1>9 DEF IsOver, Alike
  <2>2. d.nested = NoNested /\ d.nested = c.nested
    BY <1>1, <1>9, <2>1 DEF Linked, Alike
  <2>3. f = d
    BY <2>1
  <2>. HIDE DEF f
  <2>4. d \in Connection /\ d.isOpen /\ d.callbacks = 0 /\ d.queue = <<>> /\ d.flight = <<>>
    BY <1>9, NothingLeft
  <2>5. Gone(Terminate(d))
    BY <2>2, <2>4, Closing
  <2>6. Finished(f, ok2) = Terminate(d)
    BY <2>1, <2>3, <2>4 DEF Finished
  <2>. QED BY <1>2, <2>2, <2>5, <2>6 DEF Result, b, arg, Makes
<1>. QED BY <1>1, <1>6, <1>7, <1>8, <1>9

\* A closure of the connection runs.
LEMMA ClosureRuns ==
  ASSUME NEW c, OpenInv(c), c.queue # <<>>, NEW ok \in BOOLEAN, NEW ok2 \in BOOLEAN,
         NEW overflow \in BOOLEAN, NEW d \in RunClosure(c, ok, ok2, overflow)
  PROVE  Makes(c, d)
<1>. DEFINE b == Popped(c)  h == Head(c.queue)
<1>1. PICK m \in Ways, arrived \in BOOLEAN : Phase(c, m, arrived)
  BY DEF OpenInv
<1>2. RunClosure(c, ok, ok2, overflow)
        = CASE h.call = "positive"  -> {AsyncSendPositiveResponse(b, ok, overflow)}
            [] h.call = "negative"  -> {AsyncSendNegativeResponse(b, h.arg, ok)}
            [] h.call = "processed" -> {AsyncTransportMessageProcessed(b, h.arg, ok, ok2)}
            [] h.call = "next"      -> TriggerNextNestedRequest(b)
  BY DEF RunClosure, Popped
<1>3. CASE h.call = "processed"
  <2>1. Makes(c, AsyncTransportMessageProcessed(b, h.arg, ok, ok2))
    BY <1>1, <1>3, ReportClosure
  <2>. QED BY <1>2, <1>3, <2>1
<1>4. CASE h.call # "processed" /\ HasAsked(c, m, arrived)
  <2>1. PICK r \in Responses : c.job = Asked(r) /\ Linked(c, {Answer(r)}, m, arrived, 1)
    BY <1>4 DEF HasAsked
  <2>. DEFINE x == Answer(r)
  <2>2. x.call # "processed"
    BY DEF Answer, Entry
  <2>3. Linked(c, {x}, m, arrived, 1)
    BY <2>1
  <2>. HIDE DEF x
  <2>4. h = x /\ Linked(b, {}, m, arrived, 1)
    BY <1>4, <2>2, <2>3, TakingRequest
  <2>5. c \in Connection
    BY <2>1 DEF Linked
  <2>6. /\ b.job = c.job /\ b.answered = c.answered /\ b.sender = c.sender /\ b.nested = c.nested
        /\ b.message = c.message /\ b.functional = c.functional
    BY <2>5 DEF Popped, Connection
  <2>. HIDE DEF b, h
  <2>7. Unanswered(b, m) /\ DoesNotWait(b) /\ ~c.answered
    BY <1>4, <2>6 DEF HasAsked, Unanswered, DoesNotWait
  <2>8. \A y : Makes(b, y) => Makes(c, y)
    BY <2>6, <2>7 DEF Makes
  <2>9. CASE r = "positive"
    <3>1. h.call = "positive"
      BY <2>4, <2>9 DEF x, Answer, Entry
    <3>2. Makes(b, AsyncSendPositiveResponse(b, ok, overflow))
      BY <2>1, <2>4, <2>6, <2>7, <2>9, PositiveClosure
    <3>. QED BY <1>2, <2>8, <3>1, <3>2
  <2>10. CASE r # "positive"
    <3>1. h.call = "negative" /\ h.arg = r /\ r \in Codes
      BY <2>4, <2>10 DEF x, Answer, Entry, Responses
    <3>2. Makes(b, AsyncSendNegativeResponse(b, r, ok))
      BY <2>1, <2>4, <2>6, <2>7, <3>1, NegativeClosure
    <3>. QED BY <1>2, <2>8, <3>1, <3>2
  <2>. QED BY <2>9, <2>10
<1>5. CASE h.call # "processed" /\ GoesOn(c, m, arrived)
  <2>. DEFINE x == Entry("next", "ok")
  <2>1. x.call = "next" /\ Linked(c, {x}, m, arrived, 0) /\ c.nested # NoNested
    BY <1>5 DEF GoesOn, Entry
  <2>. HIDE DEF x
  <2>2. h = x /\ Linked(b, {}, m, arrived, 0)
    BY <1>5, <2>1, TakingRequest
  <2>3. c \in Connection
    BY <2>1 DEF Linked
  <2>4. /\ b.job = c.job /\ b.answered = c.answered /\ b.sender = c.sender /\ b.nested = c.nested
        /\ b.message = c.message /\ b.functional = c.functional
    BY <2>3 DEF Popped, Connection
  <2>. HIDE DEF b, h
  <2>5. Rests(b, m, arrived) /\ ~c.answered /\ b.nested # NoNested
    BY <1>5, <2>2, <2>4 DEF GoesOn, Rests, Unanswered, DoesNotWait
  <2>6. d \in TriggerNextNestedRequest(b)
    BY <1>2, <2>1, <2>2
  <2>7. Makes(b, d)
    BY <2>5, <2>6, Triggering
  <2>. QED BY <2>4, <2>5, <2>7 DEF Makes
<1>6. CASE \/ Works(c, m, arrived) \/ Holds(c, m, arrived) \/ HasSent(c, m, arrived)
           \/ AsksForTime(c, m, arrived) \/ IsOver(c, m, arrived)
  <2>. DEFINE X == {}
  <2>1. \E n : Linked(c, X, m, arrived, n)
    BY <1>6 DEF Works, Holds, HasSent, AsksForTime, IsOver
  <2>. HIDE DEF X, h
  <2>2. h \in X \cup Reported(m, arrived)
    BY <2>1, Taking DEF h
  <2>3. h.call = "processed"
    BY <2>2 DEF X, Reported, Entry
  <2>. QED BY <1>3, <2>3
<1>. QED BY <1>1, <1>3, <1>4, <1>5, <1>6 DEF Phase

\* Whether RESPONSE_PENDING is due, and the timeouts, do not matter to the phase.
LEMMA TimeoutsDoNotMatter ==
  ASSUME NEW c \in Connection, NEW e \in Connection, Alike(c, e), e.queue = c.queue,
         e.callbacks = c.callbacks, e.isOpen = c.isOpen,
         e.pendingIsBeingSent = c.pendingIsBeingSent, NEW m, NEW arrived
  PROVE  /\ \A X, n : Linked(c, X, m, arrived, n) => Linked(e, X, m, arrived, n)
         /\ Works(c, m, arrived) => Works(e, m, arrived)
         /\ AsksForTime(c, m, arrived) => AsksForTime(e, m, arrived)
         /\ GoesOn(c, m, arrived) => GoesOn(e, m, arrived)
         /\ Phase(c, m, arrived) => Phase(e, m, arrived)
<1>1. \A X, n : Linked(c, X, m, arrived, n) => Linked(e, X, m, arrived, n)
  BY DEF Linked, Alike
<1>2. Works(c, m, arrived) => Works(e, m, arrived)
  BY <1>1 DEF Works, Alike, Unanswered, DoesNotWait
<1>3. HasAsked(c, m, arrived) => HasAsked(e, m, arrived)
  BY <1>1 DEF HasAsked, Alike, Unanswered, DoesNotWait
<1>4. Holds(c, m, arrived) => Holds(e, m, arrived)
  BY <1>1 DEF Holds, Alike
<1>5. HasSent(c, m, arrived) => HasSent(e, m, arrived)
  BY <1>1 DEF HasSent, Alike
<1>6. AsksForTime(c, m, arrived) => AsksForTime(e, m, arrived)
  BY <1>1 DEF AsksForTime, Alike, Unanswered, Waits
<1>7. GoesOn(c, m, arrived) => GoesOn(e, m, arrived)
  BY <1>1 DEF GoesOn, Alike, Unanswered, DoesNotWait
<1>8. IsOver(c, m, arrived) => IsOver(e, m, arrived)
  BY <1>1 DEF IsOver, Alike
<1>. QED BY <1>1, <1>2, <1>3, <1>4, <1>5, <1>6, <1>7, <1>8 DEF Phase

\* _responsePendingTimeout expires: RESPONSE_PENDING is sent, or remembered.
LEMMA PendingTimeoutExpires ==
  ASSUME NEW c, OpenInv(c), NEW ok
  PROVE  Makes(c, PendingExpired(c, ok))
<1>1. PICK m \in Ways, arrived \in BOOLEAN : Phase(c, m, arrived)
  BY DEF OpenInv
<1>2. c \in Connection
  BY <1>1 DEF Phase, Works, HasAsked, Holds, HasSent, AsksForTime, GoesOn, IsOver, Linked
<1>3. ASSUME NEW v \in BOOLEAN
      PROVE  LET e == [c EXCEPT !.pendingIsPending = v]
             IN /\ e \in Connection /\ Alike(c, e) /\ e.queue = c.queue
                /\ e.callbacks = c.callbacks /\ e.isOpen = c.isOpen
                /\ e.pendingIsBeingSent = c.pendingIsBeingSent
  BY <1>2 DEF Connection, Alike
<1>4. CASE c.callbacks # 0
  <2>. DEFINE e == [c EXCEPT !.pendingIsPending = TRUE]
  <2>1. /\ e \in Connection /\ Alike(c, e) /\ e.queue = c.queue
        /\ e.callbacks = c.callbacks /\ e.isOpen = c.isOpen
        /\ e.pendingIsBeingSent = c.pendingIsBeingSent
    BY <1>3
  <2>2. PendingExpired(c, ok) = e
    BY <1>4 DEF PendingExpired
  <2>. HIDE DEF e
  <2>3. Phase(e, m, arrived)
    BY <1>1, <1>2, <2>1, TimeoutsDoNotMatter
  <2>. QED BY <2>1, <2>2, <2>3 DEF Makes, OpenInv, Alike
<1>5. CASE c.callbacks = 0
  <2>. DEFINE e == [c EXCEPT !.pendingIsPending = FALSE]
  <2>1. /\ e \in Connection /\ Alike(c, e) /\ e.queue = c.queue
        /\ e.callbacks = c.callbacks /\ e.isOpen = c.isOpen
        /\ e.pendingIsBeingSent = c.pendingIsBeingSent
    BY <1>3
  <2>2. PendingExpired(c, ok) = SendResponsePending(e, ok)
    BY <1>5 DEF PendingExpired
  <2>. HIDE DEF e
  <2>3. m = "none" /\ (Works(c, m, arrived) \/ AsksForTime(c, m, arrived) \/ GoesOn(c, m, arrived))
    BY <1>1, <1>5 DEF Phase, Works, HasAsked, Holds, HasSent, AsksForTime, GoesOn, IsOver, Linked,
                      Ways, Unanswered
  <2>4. Works(e, m, arrived) \/ AsksForTime(e, m, arrived) \/ GoesOn(e, m, arrived)
    BY <1>2, <2>1, <2>3, TimeoutsDoNotMatter
  <2>5. Makes(e, SendResponsePending(e, ok))
    BY <2>3, <2>4, AskingForTime
  <2>. QED BY <2>1, <2>2, <2>5 DEF Makes, Alike
<1>. QED BY <1>4, <1>5

\* terminate() while the connection is in use.
LEMMA TerminatingEarly ==
  ASSUME NEW c, OpenInv(c), c.nested = NoNested
  PROVE  Makes(c, Terminate(c))
<1>1. PICK m \in Ways, arrived \in BOOLEAN : Phase(c, m, arrived)
  BY DEF OpenInv
<1>2. c \in Connection /\ c.isOpen
  BY <1>1 DEF Phase, Works, HasAsked, Holds, HasSent, AsksForTime, GoesOn, IsOver, Linked
<1>3. CASE c.callbacks = 0
  <2>1. m = "none" /\ Works(c, m, arrived)
    BY <1>1, <1>3 DEF Phase, Works, HasAsked, Holds, HasSent, AsksForTime, GoesOn, IsOver, Linked,
                      Ways, Unanswered, Waits
  <2>2. Linked(c, {}, "none", arrived, 0)
    BY <2>1 DEF Works
  <2>3. Gone(Terminate(c))
    BY <1>2, <1>3, <2>2, NothingLeft, Closing
  <2>. QED BY <2>3 DEF Makes
<1>4. CASE c.callbacks # 0
  <2>. DEFINE d == [c EXCEPT !.terminating = TRUE]
  <2>1. Terminate(c) = d
    BY <1>2, <1>4 DEF Terminate
  <2>2. /\ d \in Connection /\ d.queue = c.queue
        /\ d.job = c.job /\ d.callbacks = c.callbacks /\ d.isOpen = c.isOpen /\ d.flight = c.flight
        /\ d.pendingIsBeingSent = c.pendingIsBeingSent /\ d.terminating = TRUE
        /\ d.nested = c.nested /\ d.sender = c.sender /\ d.answered = c.answered
        /\ d.message = c.message /\ d.functional = c.functional /\ d.response = c.response
    BY <1>2 DEF Connection
  <2>. HIDE DEF d
  <2>3. \A X, n : Linked(c, X, m, arrived, n) => Linked(d, X, m, arrived, n)
    BY <2>2 DEF Linked
  <2>4. Phase(d, m, arrived)
    <3>1. CASE Works(c, m, arrived)
      BY <2>2, <2>3, <3>1 DEF Phase, Works, Unanswered, DoesNotWait
    <3>2. CASE HasAsked(c, m, arrived)
      BY <2>2, <2>3, <3>2 DEF Phase, HasAsked, Unanswered, DoesNotWait
    <3>3. CASE Holds(c, m, arrived)
      BY <2>2, <2>3, <3>3 DEF Phase, Holds
    <3>4. CASE HasSent(c, m, arrived)
      BY <2>2, <2>3, <3>4 DEF Phase, HasSent
    <3>5. CASE IsOver(c, m, arrived)
      BY <2>2, <2>3, <3>5 DEF Phase, IsOver
    <3>6. CASE AsksForTime(c, m, arrived) \/ GoesOn(c, m, arrived)
      BY <3>6 DEF AsksForTime, GoesOn, Waits
    <3>. QED BY <1>1, <3>1, <3>2, <3>3, <3>4, <3>5, <3>6 DEF Phase
  <2>. QED BY <2>1, <2>2, <2>4 DEF Makes, OpenInv
<1>. QED BY <1>2, <1>3, <1>4 DEF Connection

\* Only in one phase a job works.
LEMMA WhoWorks ==
  ASSUME NEW c, NEW m, NEW arrived, Phase(c, m, arrived), c.job = Working
  PROVE  Works(c, m, arrived)
<1>1. \A r : Working # Asked(r)
  BY DEF Working, Asked
<1>2. Working \notin {NoJob, Stuck}
  BY DEF Working, NoJob, Stuck
<1>. HIDE DEF Working
<1>. QED BY <1>1, <1>2 DEF Phase, HasAsked, Holds, HasSent, AsksForTime, GoesOn, IsOver

\* _globalPendingTimeout expires: the connection ends, or waits for its callbacks.
LEMMA GlobalTimeoutExpires ==
  ASSUME NEW c, OpenInv(c), c.nested = NoNested
  PROVE  Makes(c, GlobalExpired(c))
<1>1. PICK m \in Ways, arrived \in BOOLEAN : Phase(c, m, arrived)
  BY DEF OpenInv
<1>2. c \in Connection /\ c.isOpen
  BY <1>1 DEF Phase, Works, HasAsked, Holds, HasSent, AsksForTime, GoesOn, IsOver, Linked
<1>. DEFINE j == IF c.job = Working THEN Stuck ELSE c.job
            e == [c EXCEPT !.pendingTimeout = FALSE, !.globalTimeout = FALSE, !.job = j]
<1>3. GlobalExpired(c) = Terminate(e)
  BY <1>2 DEF GlobalExpired, Connection
<1>4. j \in Jobs
  BY <1>2 DEF Connection, Jobs
<1>. HIDE DEF j
<1>5. e \in Connection
  BY ONLY <1>2, <1>4 DEF Connection
<1>6. /\ e.queue = c.queue
      /\ e.job = j /\ e.callbacks = c.callbacks /\ e.isOpen = c.isOpen /\ e.flight = c.flight
      /\ e.pendingIsBeingSent = c.pendingIsBeingSent /\ e.terminating = c.terminating
      /\ e.nested = c.nested /\ e.sender = c.sender /\ e.answered = c.answered
      /\ e.message = c.message /\ e.functional = c.functional /\ e.response = c.response
  BY ONLY <1>2 DEF Connection
<1>. HIDE DEF e
<1>7. \A d : Makes(e, d) => Makes(c, d)
  BY <1>6 DEF Makes
<1>8. CASE c.job = Working
  <2>1. Works(c, m, arrived)
    BY <1>1, <1>8, WhoWorks
  <2>2. Linked(e, {}, m, arrived, 0) /\ ~e.answered /\ ~e.sender /\ e.job = Stuck /\ m # "response"
    BY <1>5, <1>6, <1>8, <2>1 DEF Works, Linked, j, Unanswered
  <2>3. CASE e.callbacks = 0
    <3>1. m = "none"
      BY <2>2, <2>3 DEF Linked, Ways
    <3>2. Gone(Terminate(e))
      BY <1>6, <2>2, <3>1, NothingLeft, Closing
    <3>. QED BY <1>3, <3>2 DEF Makes
  <2>4. CASE e.callbacks # 0
    <3>. DEFINE d == [e EXCEPT !.terminating = TRUE]
    <3>1. Terminate(e) = d
      BY <1>2, <1>6, <2>4 DEF Terminate
    <3>2. /\ d \in Connection /\ d.queue = e.queue
          /\ d.job = e.job /\ d.callbacks = e.callbacks /\ d.isOpen = e.isOpen /\ d.flight = e.flight
          /\ d.pendingIsBeingSent = e.pendingIsBeingSent /\ d.terminating = TRUE
          /\ d.nested = e.nested /\ d.sender = e.sender /\ d.answered = e.answered
          /\ d.message = e.message /\ d.functional = e.functional
      BY <1>5 DEF Connection
    <3>. HIDE DEF d
    <3>3. Linked(d, {}, m, arrived, 0)
      BY <1>6, <2>2, <3>2 DEF Linked
    <3>4. m = "pending"
      BY <2>2, <2>4 DEF Linked
    <3>5. IsOver(d, m, arrived)
      BY <2>2, <3>2, <3>3, <3>4 DEF IsOver
    <3>6. Makes(e, d)
      BY <2>2, <3>2, <3>5 DEF Makes, OpenInv, Phase
    <3>. QED BY <1>3, <1>7, <3>1, <3>6
  <2>. QED BY <2>3, <2>4
<1>9. CASE c.job # Working
  <2>1. Alike(c, e)
    BY <1>6, <1>9 DEF Alike, j
  <2>2. Phase(e, m, arrived)
    BY <1>1, <1>2, <1>5, <1>6, <2>1, TimeoutsDoNotMatter
  <2>3. OpenInv(e) /\ e.nested = NoNested
    BY <1>6, <2>2 DEF OpenInv
  <2>4. Makes(e, Terminate(e))
    BY <2>3, TerminatingEarly
  <2>. QED BY <1>3, <1>7, <2>4
<1>. QED BY <1>8, <1>9

\* A job answers or asks for time.
LEMMA JobSpeaks ==
  ASSUME NEW c, OpenInv(c), c.job = Working
  PROVE  /\ Makes(c, SendPositiveResponse(c)) /\ SendPositiveResponse(c).isOpen
         /\ \A code \in Codes : /\ Makes(c, SendNegativeResponse(c, code))
                                /\ SendNegativeResponse(c, code).isOpen
<1>1. PICK m \in Ways, arrived \in BOOLEAN : Phase(c, m, arrived)
  BY DEF OpenInv
<1>2. Works(c, m, arrived)
  BY <1>1, WhoWorks
<1>3. Unanswered(c, m) /\ DoesNotWait(c) /\ Linked(c, {}, m, arrived, 0)
  BY <1>2 DEF Works
<1>. QED BY <1>3, Asking

\* transportMessageProcessed().
LEMMA MessageIsReported ==
  ASSUME NEW c, OpenInv(c), NEW k \in DOMAIN c.flight
  PROVE  LET d == TransportMessageProcessed(c, k)
         IN /\ OpenInv(d) /\ d.isOpen /\ d.message = c.message /\ d.functional = c.functional
            /\ d.flight = <<>>
<1>1. PICK m \in Ways, arrived \in BOOLEAN : Phase(c, m, arrived)
  BY DEF OpenInv
<1>2. c \in Connection /\ c.isOpen /\ c.flight = Carried(m, arrived)
  BY <1>1 DEF Phase, Works, HasAsked, Holds, HasSent, AsksForTime, GoesOn, IsOver, Linked
<1>3. m # "none" /\ arrived = FALSE /\ c.flight = <<m>> /\ k = 1 /\ c.flight[k] = m
  <2>1. m # "none" /\ ~arrived
    BY <1>2 DEF Carried
  <2>2. c.flight = <<m>>
    BY <1>2, <2>1 DEF Carried
  <2>. QED BY <2>1, <2>2
<1>4. RemoveAt(c.flight, k) = <<>>
  <2>1. <<m>> \in Seq({m}) /\ 1 \in 1 .. Len(<<m>>) /\ Len(<<m>>) = 1
    OBVIOUS
  <2>2. RemoveAt(<<m>>, 1) \in Seq({m}) /\ Len(RemoveAt(<<m>>, 1)) = Len(<<m>>) - 1
    BY ONLY <2>1, RemoveAtFacts
  <2>3. RemoveAt(<<m>>, 1) = <<>>
    BY <2>1, <2>2
  <2>. QED BY <1>3, <2>3
<1>. DEFINE b == [c EXCEPT !.flight = <<>>]  d == Execute(b, "processed", m)
<1>5. TransportMessageProcessed(c, k) = d
  BY <1>3, <1>4 DEF TransportMessageProcessed
<1>6. <<>> \in Seq({"pending", "response"})
  OBVIOUS
<1>7. b \in Connection
  BY ONLY <1>2, <1>6 DEF Connection
<1>8. /\ b.queue = c.queue /\ b.job = c.job /\ b.callbacks = c.callbacks /\ b.isOpen = c.isOpen
      /\ b.flight = <<>> /\ b.pendingIsBeingSent = c.pendingIsBeingSent
      /\ b.terminating = c.terminating
      /\ b.nested = c.nested /\ b.sender = c.sender /\ b.answered = c.answered
      /\ b.message = c.message /\ b.functional = c.functional /\ b.response = c.response
  BY ONLY <1>2 DEF Connection
<1>. HIDE DEF b
<1>9. Entry("processed", m) \in Entries
  BY <1>3 DEF Entry, Entries, Ways, Responses, Codes
<1>10. ASSUME NEW X, NEW n, Linked(c, X, m, arrived, n), \A x \in X : x.call # "processed"
       PROVE  /\ Linked(d, X, m, TRUE, n)
              /\ d.job = c.job /\ d.sender = c.sender /\ d.answered = c.answered
              /\ d.nested = c.nested /\ d.terminating = c.terminating /\ d.response = c.response
              /\ d.message = c.message /\ d.functional = c.functional
              /\ d.isOpen /\ d.flight = <<>>
  <2>1. Once(b.queue, X)
    BY <1>3, <1>8, <1>10 DEF Linked, Reported
  <2>2. /\ d \in Connection /\ d = [b EXCEPT !.queue = d.queue]
        /\ Once(d.queue, X \cup {Entry("processed", m)})
    BY ONLY <1>7, <1>9, <1>10, <2>1, ExecuteFacts
  <2>. HIDE DEF d
  <2>3. /\ d.job = b.job /\ d.callbacks = b.callbacks /\ d.isOpen = b.isOpen /\ d.flight = b.flight
        /\ d.pendingIsBeingSent = b.pendingIsBeingSent /\ d.terminating = b.terminating
        /\ d.nested = b.nested /\ d.sender = b.sender /\ d.answered = b.answered
        /\ d.message = b.message /\ d.functional = b.functional /\ d.response = b.response
    BY <1>7, <2>2 DEF Connection
  <2>4. X \cup {Entry("processed", m)} = X \cup Reported(m, TRUE) /\ <<>> = Carried(m, TRUE)
    BY <1>3 DEF Reported, Carried
  <2>5. Linked(d, X, m, TRUE, n)
    BY <1>8, <1>10, <2>2, <2>3, <2>4 DEF Linked
  <2>. QED BY <1>2, <1>8, <2>3, <2>5
<1>. HIDE DEF d
<1>11. ASSUME NEW n, Linked(c, {}, m, arrived, n)
       PROVE  /\ Linked(d, {}, m, TRUE, n)
              /\ d.job = c.job /\ d.sender = c.sender /\ d.answered = c.answered
              /\ d.nested = c.nested /\ d.terminating = c.terminating /\ d.response = c.response
              /\ d.message = c.message /\ d.functional = c.functional
              /\ d.isOpen /\ d.flight = <<>>
  <2>. DEFINE X == {}
  <2>1. Linked(c, X, m, arrived, n) /\ \A x \in X : x.call # "processed"
    BY <1>11
  <2>. HIDE DEF X
  <2>2. /\ Linked(d, X, m, TRUE, n)
        /\ d.job = c.job /\ d.sender = c.sender /\ d.answered = c.answered
        /\ d.nested = c.nested /\ d.terminating = c.terminating /\ d.response = c.response
        /\ d.message = c.message /\ d.functional = c.functional
        /\ d.isOpen /\ d.flight = <<>>
    BY <1>10, <2>1
  <2>. QED BY <2>2 DEF X
<1>. DEFINE Goal == /\ Phase(d, m, TRUE) /\ d.isOpen /\ d.message = c.message
                    /\ d.functional = c.functional /\ d.flight = <<>>
<1>12. Goal
  <2>1. CASE Works(c, m, arrived)
    <3>1. Linked(c, {}, m, arrived, 0)
      BY <2>1 DEF Works
    <3>. QED BY <1>11, <2>1, <3>1 DEF Phase, Works, Unanswered, DoesNotWait
  <2>2. CASE HasAsked(c, m, arrived)
    <3>1. PICK r \in Responses : c.job = Asked(r) /\ Linked(c, {Answer(r)}, m, arrived, 1)
      BY <2>2 DEF HasAsked
    <3>. DEFINE X == {Answer(r)}
    <3>2. Linked(c, X, m, arrived, 1) /\ \A x \in X : x.call # "processed"
      BY <3>1 DEF Answer, Entry
    <3>. HIDE DEF X
    <3>3. /\ Linked(d, X, m, TRUE, 1)
          /\ d.job = c.job /\ d.sender = c.sender /\ d.answered = c.answered
          /\ d.nested = c.nested /\ d.message = c.message /\ d.functional = c.functional
          /\ d.isOpen /\ d.flight = <<>>
      BY <1>10, <3>2
    <3>4. HasAsked(d, m, TRUE)
      BY <2>2, <3>1, <3>3 DEF HasAsked, Unanswered, DoesNotWait, X
    <3>. QED BY <3>3, <3>4 DEF Phase
  <2>3. CASE Holds(c, m, arrived)
    <3>1. Linked(c, {}, m, arrived, 1)
      BY <2>3 DEF Holds
    <3>. QED BY <1>11, <2>3, <3>1 DEF Phase, Holds
  <2>4. CASE HasSent(c, m, arrived)
    <3>1. Linked(c, {}, m, arrived, 1)
      BY <2>4 DEF HasSent
    <3>. QED BY <1>11, <2>4, <3>1 DEF Phase, HasSent
  <2>5. CASE AsksForTime(c, m, arrived)
    <3>1. Linked(c, {}, m, arrived, 0)
      BY <2>5 DEF AsksForTime
    <3>. QED BY <1>11, <2>5, <3>1 DEF Phase, AsksForTime, Unanswered, Waits
  <2>6. CASE GoesOn(c, m, arrived)
    <3>1. Linked(c, {Entry("next", "ok")}, m, arrived, 0)
      BY <2>6 DEF GoesOn
    <3>. DEFINE X == {Entry("next", "ok")}
    <3>2. Linked(c, X, m, arrived, 0) /\ \A x \in X : x.call # "processed"
      BY <3>1 DEF Entry
    <3>. HIDE DEF X
    <3>3. /\ Linked(d, X, m, TRUE, 0)
          /\ d.job = c.job /\ d.sender = c.sender /\ d.answered = c.answered
          /\ d.nested = c.nested /\ d.message = c.message /\ d.functional = c.functional
          /\ d.isOpen /\ d.flight = <<>>
      BY <1>10, <3>2
    <3>4. GoesOn(d, m, TRUE)
      BY <2>6, <3>3 DEF GoesOn, Unanswered, DoesNotWait, X
    <3>. QED BY <3>3, <3>4 DEF Phase
  <2>7. CASE IsOver(c, m, arrived)
    <3>1. Linked(c, {}, m, arrived, 0)
      BY <2>7 DEF IsOver
    <3>. QED BY <1>11, <2>7, <3>1 DEF Phase, IsOver
  <2>. QED BY <1>1, <2>1, <2>2, <2>3, <2>4, <2>5, <2>6, <2>7 DEF Phase
<1>. QED BY <1>5, <1>12 DEF OpenInv

\* A connection of the pool.
LEMMA ClosedFacts ==
  /\ Closed \in Connection /\ Unused(Closed)
<1>1. /\ NoNested \in NestedRequest \cup {NoNested} /\ NoJob \in Jobs /\ NoMessage \in Nat
      /\ "none" \in Responses \cup {"none"} /\ <<>> \in Seq(Entries)
      /\ <<>> \in Seq({"pending", "response"})
  BY DEF Jobs, NoMessage
<1>2. Closed \in Connection
  BY <1>1 DEF Closed, Connection
<1>3. /\ Closed.isOpen = FALSE /\ Closed.queue = <<>> /\ Closed.flight = <<>>
      /\ Closed.pendingTimeout = FALSE /\ Closed.globalTimeout = FALSE
      /\ Closed.terminating = FALSE /\ Closed.job = NoJob /\ Closed.answered = FALSE
  BY DEF Closed
<1>. QED BY <1>2, <1>3 DEF Unused, Gone

\* A connection that has just been opened for a request.
LEMMA OpenedFacts ==
  ASSUME NEW msg \in Nat, NEW fn \in BOOLEAN
  PROVE  LET c == Opened(msg, fn)
         IN Rests(c, "none", FALSE) /\ c.message = msg /\ c.functional = fn /\ c.nested = NoNested
            /\ ~c.answered /\ ~c.terminating
<1>. DEFINE c == Opened(msg, fn)
<1>1. Closed \in Connection
  BY ClosedFacts
<1>2. c \in Connection
  BY <1>1 DEF Opened, Connection
<1>3. /\ c.isOpen = TRUE /\ c.message = msg /\ c.functional = fn
  BY <1>1 DEF Opened, Connection
<1>4. /\ c.queue = <<>> /\ c.flight = <<>> /\ c.callbacks = 0 /\ c.job = NoJob
      /\ c.pendingIsBeingSent = FALSE /\ c.terminating = FALSE
      /\ c.nested = NoNested /\ c.sender = FALSE /\ c.answered = FALSE
  BY DEF Opened, Closed
<1>. HIDE DEF c
<1>5. Once(<<>>, {})
  BY DEF Once
<1>6. Linked(c, {}, "none", FALSE, 0)
  BY <1>2, <1>3, <1>4, <1>5 DEF Linked, Carried, Reported
<1>7. Rests(c, "none", FALSE)
  BY <1>4, <1>6 DEF Rests, DoesNotWait
<1>. QED BY <1>3, <1>4, <1>7 DEF c

\* diagJobRoot.execute() with a connection that has been opened.
LEMMA RequestExecuted ==
  ASSUME NEW msg \in Nat, NEW fn \in BOOLEAN, NEW d \in Executed(Opened(msg, fn))
  PROVE  Makes(Opened(msg, fn), d)
<1>. DEFINE c == Opened(msg, fn)
<1>1. Rests(c, "none", FALSE) /\ c.nested = NoNested /\ ~c.answered
  BY OpenedFacts
<1>2. d \in Executed(c)
  OBVIOUS
<1>. HIDE DEF c
<1>3. /\ c \in Connection /\ Linked(c, {}, "none", FALSE, 0) /\ DoesNotWait(c)
      /\ c.isOpen /\ Unanswered(c, "none")
  BY <1>1 DEF Rests, Linked, Unanswered
<1>4. "none" \in Ways /\ FALSE \in BOOLEAN
  BY DEF Ways
<1>5. ASSUME NEW s \in BOOLEAN, d = [c EXCEPT !.job = Working, !.suppress = s] PROVE Makes(c, d)
  <2>1. Working \in Jobs
    BY DEF Jobs
  <2>2. /\ d \in Connection /\ d.queue = c.queue
        /\ d.job = Working /\ d.callbacks = c.callbacks /\ d.isOpen = c.isOpen /\ d.flight = c.flight
        /\ d.pendingIsBeingSent = c.pendingIsBeingSent /\ d.terminating = c.terminating
        /\ d.nested = c.nested /\ d.sender = c.sender /\ d.answered = c.answered
        /\ d.message = c.message /\ d.functional = c.functional
    BY <1>3, <1>5, <2>1 DEF Connection
  <2>3. Linked(d, {}, "none", FALSE, 0)
    BY <1>3, <2>2 DEF Linked
  <2>4. Works(d, "none", FALSE)
    BY <1>3, <2>2, <2>3 DEF Works, Unanswered, DoesNotWait
  <2>. QED BY <1>1, <1>4, <2>2, <2>4 DEF Makes, OpenInv, Phase
<1>6. ASSUME d \in StartNestedRequest(c) PROVE Makes(c, d)
  <2>. DEFINE n == [active |-> TRUE, left |-> NestedRequests, combined |-> "range",
                    code |-> "ok", pendingSender |-> FALSE, pendingSent |-> FALSE]
              b == [c EXCEPT !.nested = n]
  <2>1. d \in TriggerNextNestedRequest(b)
    BY <1>6 DEF StartNestedRequest
  <2>2. n \in NestedRequest /\ n.pendingSender = FALSE
    BY ConnectionAssumption DEF NestedRequest, Results, Codes
  <2>3. n # NoNested
    BY <2>2 DEF NestedRequest, NoNested
  <2>. HIDE DEF n
  <2>4. /\ b \in Connection /\ b.queue = c.queue
        /\ b.job = c.job /\ b.callbacks = c.callbacks /\ b.isOpen = c.isOpen /\ b.flight = c.flight
        /\ b.pendingIsBeingSent = c.pendingIsBeingSent /\ b.terminating = c.terminating
        /\ b.nested = n /\ b.sender = c.sender /\ b.answered = c.answered
        /\ b.message = c.message /\ b.functional = c.functional
    BY <1>3, <2>2 DEF Connection
  <2>. HIDE DEF b
  <2>5. ~c.terminating
    BY ONLY <1>1, OpenedFacts, msg \in Nat, fn \in BOOLEAN DEF c
  <2>6. Linked(b, {}, "none", FALSE, 0)
    BY <1>3, <2>4, <2>5 DEF Linked
  <2>7. Rests(b, "none", FALSE)
    BY <1>1, <2>2, <2>4, <2>6 DEF Rests, DoesNotWait
  <2>8. Makes(b, d)
    BY <1>4, <2>1, <2>3, <2>4, <2>7, Triggering
  <2>. QED BY <1>1, <2>4, <2>8 DEF Makes
<1>7. Makes(c, Terminate(c))
  BY <1>1, <1>4, Terminating
<1>8. ASSUME NEW code \in Codes PROVE Makes(c, Terminate(SendNegativeResponse(c, code)))
  <2>. DEFINE e == SendNegativeResponse(c, code)
  <2>1. Makes(c, e)
    BY <1>3, <1>4, Asking
  <2>2. e.nested = NoNested
    <3>1. Asked(code) \in Jobs /\ c.callbacks + 1 \in Nat
      BY <1>3 DEF Jobs, Responses, Connection
    <3>2. [c EXCEPT !.callbacks = @ + 1, !.job = Asked(code)] \in Connection
      BY ONLY <1>3, <3>1 DEF Connection
    <3>3. [c EXCEPT !.callbacks = @ + 1, !.job = Asked(code)].nested = c.nested
      BY ONLY <1>3 DEF Connection
    <3>. DEFINE b == [c EXCEPT !.callbacks = @ + 1, !.job = Asked(code)]
    <3>4. e = Execute(b, "negative", code)
      BY <1>3 DEF SendNegativeResponse
    <3>5. b \in Connection /\ b.nested = NoNested
      BY <1>1, <3>2, <3>3
    <3>. HIDE DEF b, e
    <3>6. Execute(b, "negative", code).nested = b.nested
      BY <3>5 DEF Execute, Connection
    <3>. QED BY <3>4, <3>5, <3>6
  <2>. HIDE DEF e
  <2>3. Gone(e) => Gone(Terminate(e))
    BY <2>2 DEF Gone, Terminate
  <2>4. OpenInv(e) => Makes(e, Terminate(e))
    BY <2>2, TerminatingEarly
  <2>. QED BY <2>1, <2>3, <2>4, MakesTransitive DEF e
<1>9. "range" \in Codes /\ "other" \in Codes
  BY DEF Codes
<1>. QED BY <1>2, <1>5, <1>6, <1>7, <1>8, <1>9 DEF Executed, c

-------------------------------------------------------------------------------
\* The dispatcher and its connections.

DispatcherTypeOK ==
  /\ conn \in [Connections -> Connection]
  /\ locked \in SUBSET Buffers /\ dropped \in SUBSET Buffers
  /\ queue \in Seq(Job) /\ sendJob \in Job \cup {NoSend}
  /\ pc \in {"idle", "loop", "popped", "checked", "busy"}
  /\ triggered \in BOOLEAN /\ running \in BOOLEAN

\* processQueue() has a job exactly while it works on one.
JobInv == pc \in {"popped", "checked", "busy"} <=> sendJob # NoSend

\* What a step may do to the connections.
Connected == conn \in [Connections -> Connection] /\ ConnInv

NoneFollows == \A c \in Connections : conn[c].answered /\ conn'[c].answered =>
                 Len(conn'[c].flight) <= Len(conn[c].flight)

\* An open connection has a request.
MessageInv == \A c \in Connections : conn[c].isOpen => conn[c].message \in Buffers

DiagInv == DispatcherTypeOK /\ JobInv /\ MessageInv /\ ConnInv

\* A connection is open in every phase.
LEMMA OpenFacts ==
  ASSUME NEW c, OpenInv(c) PROVE c \in Connection /\ c.isOpen
  BY ZenonT(60) DEF OpenInv, Phase, Works, HasAsked, Holds, HasSent, AsksForTime, GoesOn, IsOver, Linked

\* The memory of a connection that has ended is a connection of the pool again.
LEMMA DestroyedFacts ==
  ASSUME NEW c, Gone(c)
  PROVE  Destroyed(c) \in Connection /\ Unused(Destroyed(c)) /\ ~Destroyed(c).isOpen
<1>. DEFINE d == Destroyed(c)
<1>1. Closed \in Connection /\ Unused(Closed)
  BY ClosedFacts
<1>2. c.queue = <<>> /\ c.flight = <<>> /\ c.pendingTimeout = FALSE /\ c.globalTimeout = FALSE
      /\ c.queue \in Seq(Entries) /\ c.flight \in Seq({"pending", "response"})
  BY DEF Gone, Connection
<1>3. d \in Connection
  BY <1>1, <1>2 DEF Destroyed, Connection
<1>4. /\ d.isOpen = Closed.isOpen /\ d.queue = c.queue /\ d.flight = c.flight
      /\ d.pendingTimeout = c.pendingTimeout /\ d.globalTimeout = c.globalTimeout
      /\ d.terminating = Closed.terminating /\ d.job = Closed.job /\ d.answered = Closed.answered
  BY ONLY <1>1 DEF Destroyed, Connection
<1>. HIDE DEF d
<1>5. Unused(d)
  BY <1>1, <1>2, <1>3, <1>4 DEF Unused, Gone
<1>. QED BY <1>3, <1>5 DEF d, Unused, Gone

\* One connection changes.
LEMMA OneChanges ==
  ASSUME Connected, NEW c \in Connections, NEW d, conn' = [conn EXCEPT ![c] = d],
         d \in Connection, Unused(d) \/ OpenInv(d),
         conn[c].answered /\ d.answered => Len(d.flight) <= Len(conn[c].flight)
  PROVE  Connected' /\ NoneFollows
<1>1. conn'[c] = d /\ \A x \in Connections : x # c => conn'[x] = conn[x]
  BY DEF Connected
<1>2. conn' \in [Connections -> Connection]
  BY DEF Connected
<1>3. ConnInv'
  BY <1>1 DEF Connected, ConnInv
<1>4. \A x \in Connections : Len(conn[x].flight) <= Len(conn[x].flight)
  <2>1. \A x \in Connections : conn[x].flight \in Seq({"pending", "response"})
    BY DEF Connected, Connection
  <2>. QED BY <2>1
<1>5. NoneFollows
  BY <1>1, <1>4 DEF NoneFollows
<1>. QED BY <1>2, <1>3, <1>5 DEF Connected

\* No connection changes.
LEMMA NoneChanges ==
  ASSUME Connected, conn' = conn
  PROVE  Connected' /\ NoneFollows
<1>1. \A x \in Connections : Len(conn[x].flight) <= Len(conn[x].flight)
  <2>1. \A x \in Connections : conn[x].flight \in Seq({"pending", "response"})
    BY DEF Connected, Connection
  <2>. QED BY <2>1
<1>. QED BY <1>1 DEF Connected, ConnInv, NoneFollows

\* What is done to connection c, which is `before', leaves it open with its message, or
\* gives the message back.
LEMMA Becoming ==
  ASSUME Connected, NEW c \in Connections, NEW before, NEW after, before.isOpen,
         Makes(before, after), Become(c, before, after),
         conn[c].answered => conn[c] = before
  PROVE  /\ Connected' /\ NoneFollows
         /\ \A x \in Connections : x # c => conn'[x] = conn[x]
         /\ \/ /\ UNCHANGED <<locked, dropped>> /\ conn'[c].isOpen /\ conn'[c].message = before.message
            \/ /\ ~conn'[c].isOpen /\ GiveBack(before)
<1>. DEFINE d == IF after.isOpen THEN after ELSE Destroyed(after)
<1>1. conn' = [conn EXCEPT ![c] = d]
  BY DEF Become
<1>2. conn'[c] = d /\ \A x \in Connections : x # c => conn'[x] = conn[x]
  BY <1>1 DEF Connected
<1>3. CASE Gone(after)
  <2>1. ~after.isOpen
    BY <1>3 DEF Gone
  <2>2. d \in Connection /\ Unused(d) /\ ~d.isOpen
    BY <1>3, <2>1, DestroyedFacts
  <2>3. ~d.answered
    BY <2>2 DEF Unused
  <2>. HIDE DEF d
  <2>4. Connected' /\ NoneFollows
    BY <1>1, <2>2, <2>3, OneChanges
  <2>5. ~conn'[c].isOpen
    BY <1>2, <2>2
  <2>6. GiveBack(before)
    BY <2>1 DEF Become
  <2>. QED BY <1>2, <2>4, <2>5, <2>6
<1>4. CASE /\ OpenInv(after) /\ after.message = before.message
           /\ before.answered => after.answered /\ after.flight = before.flight
  <2>1. after \in Connection /\ after.isOpen
    BY <1>4, OpenFacts
  <2>2. d = after
    BY <2>1
  <2>3. after.flight \in Seq({"pending", "response"})
    BY <2>1 DEF Connection
  <2>4. conn[c].answered /\ after.answered => Len(after.flight) <= Len(conn[c].flight)
    BY <1>4, <2>3
  <2>. HIDE DEF d
  <2>5. Connected' /\ NoneFollows
    BY <1>1, <1>4, <2>1, <2>2, <2>4, OneChanges
  <2>6. conn'[c].isOpen /\ conn'[c].message = before.message
    BY <1>2, <1>4, <2>1, <2>2
  <2>7. UNCHANGED <<locked, dropped>>
    BY <2>1 DEF Become
  <2>. QED BY <1>2, <2>5, <2>6, <2>7
<1>. QED BY <1>3, <1>4 DEF Makes

-------------------------------------------------------------------------------
\* The steps of the dispatcher.

\* Only an open connection has a closure, a message, a timeout or a job that could act on it.
LEMMA ActsOnOpen ==
  ASSUME Connected, NEW c \in Connections,
         \/ conn[c].queue # <<>> \/ conn[c].flight # <<>> \/ conn[c].pendingTimeout
         \/ conn[c].globalTimeout \/ conn[c].job = Working \/ conn[c].isOpen
  PROVE  OpenInv(conn[c]) /\ conn[c] \in Connection /\ conn[c].isOpen
<1>1. Working # NoJob
  BY DEF Working, NoJob
<1>2. ~Unused(conn[c])
  BY <1>1 DEF Unused, Gone
<1>3. OpenInv(conn[c])
  BY <1>2 DEF Connected, ConnInv
<1>. QED BY <1>3, OpenFacts

\* The numbers of the buffers.
LEMMA BufferFacts ==
  /\ Buffers \subseteq Nat \ {NoMessage} /\ Buffers = 1 .. NumBuffers + NumShortBuffers
  /\ Messages \subseteq Buffers /\ ShortMessages \subseteq Buffers
  BY DispatcherAssumption DEF Buffers, Messages, ShortMessages, NoMessage

\* A request that processQueue() works on is one.
LEMMA JobFacts ==
  ASSUME DispatcherTypeOK, JobInv, pc \in {"popped", "checked", "busy"}
  PROVE  /\ sendJob \in Job /\ sendJob.message \in Buffers /\ sendJob.message \in Nat
         /\ sendJob.kind \in Kinds
<1>1. sendJob \in Job
  BY DEF DispatcherTypeOK, JobInv
<1>. QED BY <1>1, BufferFacts DEF Job

\* getTransportMessage() gives away a buffer that is free.
LEMMA FirstFreeFacts ==
  ASSUME NEW S \in SUBSET Nat, NEW b \in FirstFree(S)
  PROVE  b \in S /\ b \notin locked
<1>1. S \ locked # {} /\ b = Min(S \ locked)
  BY DEF FirstFree
<1>2. S \ locked \in SUBSET Nat
  OBVIOUS
<1>3. \E i \in S \ locked : \A j \in S \ locked : i <= j
  BY <1>1, <1>2, LeastNumber
<1>4. Min(S \ locked) \in S \ locked
  BY <1>3 DEF Min
<1>. QED BY <1>1, <1>4

\* The same for either kind of request.
LEMMA ProvidedFacts ==
  ASSUME NEW kind, NEW b \in Provided(kind)
  PROVE  b \in Buffers /\ b \notin locked
<1>1. Messages \in SUBSET Nat /\ ShortMessages \in SUBSET Nat
  BY BufferFacts
<1>2. b \in FirstFree(ShortMessages) \/ b \in FirstFree(Messages)
  BY DEF Provided
<1>. QED BY <1>1, <1>2, FirstFreeFacts, BufferFacts

\* Every action that works on connection c makes of it, as it is `before', what it may.
ActsOn(c, before) ==
  /\ \A x \in Connections : x # c => conn'[x] = conn[x]
  /\ \/ /\ UNCHANGED <<locked, dropped>> /\ conn'[c].isOpen /\ conn'[c].message = before.message
     \/ /\ ~conn'[c].isOpen /\ GiveBack(before)

\* A connection is opened for the request.
LEMMA DispatchActs ==
  ASSUME DispatcherTypeOK, JobInv, Connected, NEW c \in Connections, DispatchIncomingRequest(c)
  PROVE  /\ Connected' /\ NoneFollows
         /\ ActsOn(c, Opened(sendJob.message, sendJob.kind = "functional"))
<1>. DEFINE msg == sendJob.message  fn == (sendJob.kind = "functional")
<1>1. msg \in Nat /\ fn \in BOOLEAN
  BY JobFacts DEF DispatchIncomingRequest
<1>2. PICK after \in Executed(Opened(msg, fn)) : Become(c, Opened(msg, fn), after)
  BY DEF DispatchIncomingRequest
<1>3. ~conn[c].isOpen
  BY DEF DispatchIncomingRequest
<1>. HIDE DEF msg, fn
<1>4. Makes(Opened(msg, fn), after)
  BY <1>1, <1>2, RequestExecuted
<1>5. Opened(msg, fn).isOpen
  BY <1>1, OpenedFacts DEF Rests, Linked
<1>6. ~conn[c].answered
  BY <1>3, OpenFacts DEF Connected, ConnInv, Unused
<1>. QED BY <1>2, <1>4, <1>5, <1>6, Becoming DEF ActsOn, msg, fn

\* A closure or a timeout of a connection runs.
LEMMA RunnableActs ==
  ASSUME DispatcherTypeOK, Connected, NEW c \in Connections,
         Closure(c) \/ PendingTimeout(c) \/ GlobalTimeout(c)
  PROVE  Connected' /\ NoneFollows /\ conn[c].isOpen /\ ActsOn(c, conn[c])
<1>1. OpenInv(conn[c]) /\ conn[c] \in Connection /\ conn[c].isOpen
  BY ActsOnOpen DEF Closure, PendingTimeout, GlobalTimeout
<1>2. Answers \subseteq BOOLEAN
  BY DEF Answers
<1>3. \E after : Makes(conn[c], after) /\ Become(c, conn[c], after)
  <2>1. CASE Closure(c)
    <3>1. PICK ok \in Answers, ok2 \in Answers, overflow \in BOOLEAN :
            \E after \in RunClosure(conn[c], ok, ok2, overflow) : Become(c, conn[c], after)
      BY <2>1 DEF Closure
    <3>2. PICK after \in RunClosure(conn[c], ok, ok2, overflow) : Become(c, conn[c], after)
      BY <3>1
    <3>3. ok \in BOOLEAN /\ ok2 \in BOOLEAN /\ conn[c].queue # <<>>
      BY <1>2, <2>1 DEF Closure
    <3>4. Makes(conn[c], after)
      BY <1>1, <3>2, <3>3, ClosureRuns
    <3>. QED BY <3>2, <3>4
  <2>2. CASE PendingTimeout(c)
    <3>1. PICK ok \in Answers : Become(c, conn[c], PendingExpired(conn[c], ok))
      BY <2>2 DEF PendingTimeout
    <3>2. Makes(conn[c], PendingExpired(conn[c], ok))
      BY <1>1, PendingTimeoutExpires
    <3>. QED BY <3>1, <3>2
  <2>3. CASE GlobalTimeout(c)
    <3>1. Makes(conn[c], GlobalExpired(conn[c]))
      BY <1>1, <2>3, GlobalTimeoutExpires DEF GlobalTimeout
    <3>. QED BY <2>3, <3>1 DEF GlobalTimeout
  <2>. QED BY <2>1, <2>2, <2>3
<1>4. PICK after : Makes(conn[c], after) /\ Become(c, conn[c], after)
  BY <1>3
<1>. QED BY <1>1, <1>4, Becoming DEF ActsOn

\* A message is reported to a connection, or a job answers: the connection stays open.
LEMMA CallActs ==
  ASSUME DispatcherTypeOK, Connected, NEW c \in Connections,
         MessageSent(c) \/ JobAnswers(c) \/ JobAsksForTime(c)
  PROVE  Connected' /\ NoneFollows /\ conn[c].isOpen /\ ActsOn(c, conn[c])
<1>1. OpenInv(conn[c]) /\ conn[c] \in Connection /\ conn[c].isOpen
  <2>1. conn[c].flight # <<>> \/ conn[c].job = Working
    BY DEF MessageSent, JobAnswers, JobAsksForTime
  <2>. QED BY <2>1, ActsOnOpen
<1>2. PICK d : /\ conn' = [conn EXCEPT ![c] = d] /\ OpenInv(d) /\ d.message = conn[c].message
               /\ conn[c].answered /\ d.answered => Len(d.flight) <= Len(conn[c].flight)
  <2>1. conn[c].flight \in Seq({"pending", "response"}) /\ Len(conn[c].flight) \in Nat
    BY <1>1 DEF Connection
  <2>2. CASE MessageSent(c)
    <3>1. PICK k \in DOMAIN conn[c].flight :
            conn' = [conn EXCEPT ![c] = TransportMessageProcessed(conn[c], k)]
      BY <2>2 DEF MessageSent
    <3>. DEFINE d == TransportMessageProcessed(conn[c], k)
    <3>2. OpenInv(d) /\ d.message = conn[c].message /\ d.flight = <<>>
      BY <1>1, MessageIsReported
    <3>3. Len(<<>>) <= Len(conn[c].flight)
      BY <2>1
    <3>. HIDE DEF d
    <3>4. Len(d.flight) <= Len(conn[c].flight)
      BY <3>2, <3>3
    <3>. QED BY <3>1, <3>2, <3>4 DEF d
  <2>3. CASE JobAnswers(c) \/ JobAsksForTime(c)
    <3>1. conn[c].job = Working /\ "pending" \in Codes
      BY <2>3 DEF JobAnswers, JobAsksForTime, Codes
    <3>2. \E d : conn' = [conn EXCEPT ![c] = d] /\ Makes(conn[c], d) /\ d.isOpen
      <4>1. /\ Makes(conn[c], SendPositiveResponse(conn[c])) /\ SendPositiveResponse(conn[c]).isOpen
            /\ \A code \in Codes : /\ Makes(conn[c], SendNegativeResponse(conn[c], code))
                                   /\ SendNegativeResponse(conn[c], code).isOpen
        BY <1>1, <3>1, JobSpeaks
      <4>. QED BY <2>3, <3>1, <4>1 DEF JobAnswers, JobAsksForTime
    <3>3. PICK d : conn' = [conn EXCEPT ![c] = d] /\ Makes(conn[c], d) /\ d.isOpen
      BY <3>2
    <3>4. /\ OpenInv(d) /\ d.message = conn[c].message
          /\ conn[c].answered => d.flight = conn[c].flight
      BY <3>3 DEF Makes, Gone
    <3>5. conn[c].answered => Len(d.flight) <= Len(conn[c].flight)
      BY <2>1, <3>4
    <3>. QED BY <3>3, <3>4, <3>5
  <2>. QED BY <2>2, <2>3
<1>3. d \in Connection /\ d.isOpen
  BY <1>2, OpenFacts
<1>4. Connected' /\ NoneFollows
  BY <1>2, <1>3, OneChanges
<1>5. conn'[c] = d /\ \A x \in Connections : x # c => conn'[x] = conn[x]
  BY <1>2 DEF Connected
<1>6. UNCHANGED <<locked, dropped>>
  BY DEF MessageSent, JobAnswers, JobAsksForTime
<1>. QED BY <1>1, <1>2, <1>3, <1>4, <1>5, <1>6 DEF ActsOn

\* The steps that change a connection.
LEMMA WhoChanges ==
  ASSUME [Next]_vars
  PROVE  \/ conn' = conn \/ \E c \in Connections : DispatchIncomingRequest(c)
         \/ \E c \in Connections : Closure(c) \/ PendingTimeout(c) \/ GlobalTimeout(c)
         \/ \E c \in Connections : MessageSent(c) \/ JobAnswers(c) \/ JobAsksForTime(c)
<1>1. CASE vars' = vars
  BY <1>1 DEF vars
<1>2. CASE Next
  BY <1>2, Zenon DEF Next, ContextStep, PopJob, QueueEmpty, PrecheckRequest, NoConnection,
     SendBusyResponse, DropRequest, MessageReceived, Shutdown
<1>. QED BY <1>1, <1>2

\* What a step does to the connections.
LEMMA ConnectionsStep ==
  ASSUME DispatcherTypeOK, JobInv, Connected, [Next]_vars
  PROVE  Connected' /\ NoneFollows
<1>1. CASE conn' = conn
  BY <1>1, NoneChanges
<1>2. CASE \E c \in Connections : DispatchIncomingRequest(c)
  BY <1>2, DispatchActs
<1>3. CASE \E c \in Connections : Closure(c) \/ PendingTimeout(c) \/ GlobalTimeout(c)
  BY <1>3, RunnableActs
<1>4. CASE \E c \in Connections : MessageSent(c) \/ JobAnswers(c) \/ JobAsksForTime(c)
  BY <1>4, CallActs
<1>. QED BY <1>1, <1>2, <1>3, <1>4, WhoChanges

\* The rest of the state.
Framed ==
  /\ locked \in SUBSET Buffers /\ dropped \in SUBSET Buffers
  /\ queue \in Seq(Job) /\ sendJob \in Job \cup {NoSend}
  /\ pc \in {"idle", "loop", "popped", "checked", "busy"}
  /\ triggered \in BOOLEAN /\ running \in BOOLEAN

\* A job has a message.
LEMMA NoSendFacts == NoSend \notin Job
  BY BufferFacts DEF NoSend, Job

\* The dispatcher keeps the types of its state, and has a job exactly while it works on one.
LEMMA FrameStep ==
  ASSUME DispatcherTypeOK, JobInv, MessageInv, Connected, [Next]_vars
  PROVE  Framed' /\ JobInv'
<1>. USE NoSendFacts
<1>0. Framed /\ TRUE \in BOOLEAN /\ FALSE \in BOOLEAN
  BY DEF DispatcherTypeOK, Framed
<1>1. CASE vars' = vars
  BY <1>0, <1>1 DEF vars, queueVars, Framed, JobInv
<1>2. ASSUME NEW kind \in Kinds, MessageReceived(kind) PROVE Framed' /\ JobInv'
  <2>1. PICK b \in Provided(kind) :
       \/ /\ running /\ Len(queue) < QueueSize
          /\ locked' = locked \cup {b}
          /\ EnqueueMessage([message |-> b, kind |-> kind])
          /\ UNCHANGED dropped
       \/ /\ ~running
          /\ locked' = locked \cup {b} /\ dropped' = dropped \cup {b}
          /\ UNCHANGED <<queue, sendJob, triggered>>
    BY <1>2 DEF MessageReceived
  <2>. DEFINE job == [message |-> b, kind |-> kind]
  <2>2. b \in Buffers /\ job \in Job
    BY <2>1, ProvidedFacts DEF Job
  <2>3. UNCHANGED <<pc, running>>
    BY <1>2 DEF MessageReceived
  <2>. HIDE DEF job
  <2>4. CASE EnqueueMessage(job) /\ locked' = locked \cup {b} /\ UNCHANGED dropped
    <3>1. /\ queue' \in Seq(Job) /\ triggered' = TRUE
      BY <1>0, <2>2, <2>4 DEF EnqueueMessage, Framed
    <3>2. /\ sendJob' \in Job \cup {NoSend} /\ (sendJob' = NoSend <=> sendJob = NoSend)
      BY <1>0, <2>2, <2>4 DEF EnqueueMessage, Framed
    <3>. QED BY <1>0, <2>2, <2>3, <2>4, <3>1, <3>2 DEF Framed, JobInv
  <2>5. CASE locked' = locked \cup {b} /\ dropped' = dropped \cup {b} /\ UNCHANGED <<queue, sendJob, triggered>>
    BY <1>0, <2>2, <2>3, <2>5 DEF Framed, JobInv
  <2>. QED BY <2>1, <2>4, <2>5 DEF job
<1>3. CASE PopJob
  <2>1. Head(queue) \in Job /\ Tail(queue) \in Seq(Job)
    BY <1>0, <1>3 DEF PopJob, Framed
  <2>2. triggered' \in BOOLEAN
    BY <1>3, Zenon DEF PopJob
  <2>. QED BY <1>0, <1>3, <2>1, <2>2 DEF PopJob, Framed, JobInv
<1>4. CASE QueueEmpty
  <2>2. triggered' \in BOOLEAN
    BY <1>4, Zenon DEF QueueEmpty
  <2>3. sendJob = NoSend
    BY <1>4 DEF QueueEmpty, InLoop, JobInv
  <2>. QED BY <1>0, <1>4, <2>2, <2>3 DEF QueueEmpty, Framed, JobInv
<1>5. CASE PrecheckRequest
  <2>1. /\ sendJob \in Job /\ sendJob.message \in Buffers /\ sendJob # NoSend
    BY <1>5, JobFacts DEF PrecheckRequest
  <2>2. UNCHANGED <<conn, queue, triggered, running, dropped>>
    BY <1>5 DEF PrecheckRequest
  <2>3. CASE Discard
    BY <1>0, <2>2, <2>3 DEF Discard, JobDone, Framed, JobInv
  <2>4. CASE pc' = "checked" /\ UNCHANGED <<locked, sendJob>>
    BY <1>0, <2>1, <2>2, <2>4 DEF Framed, JobInv
  <2>5. CASE CopyRequest
    <3>1. CASE pc' = "busy" /\ UNCHANGED <<locked, sendJob>>
      BY <1>0, <2>1, <2>2, <3>1 DEF Framed, JobInv
    <3>2. CASE \E b \in FirstFree(Messages) :
         /\ locked' = (locked \ {sendJob.message}) \cup {b}
         /\ sendJob' = [sendJob EXCEPT !.message = b]
         /\ pc' = "checked"
      <4>1. PICK b \in FirstFree(Messages) :
         /\ locked' = (locked \ {sendJob.message}) \cup {b}
         /\ sendJob' = [sendJob EXCEPT !.message = b]
         /\ pc' = "checked"
        BY <3>2
      <4>2. b \in Buffers
        BY <4>1, FirstFreeFacts, BufferFacts
      <4>3. sendJob' \in Job
        BY <2>1, <4>1, <4>2 DEF Job
      <4>. QED BY <1>0, <2>2, <4>1, <4>2, <4>3 DEF Framed, JobInv
    <3>. QED BY <2>5, <3>1, <3>2 DEF CopyRequest
  <2>. QED BY <1>5, <2>3, <2>4, <2>5 DEF PrecheckRequest
<1>6. CASE NoConnection
  BY <1>0, <1>6 DEF NoConnection, Framed, JobInv
<1>7. CASE SendBusyResponse
  BY <1>0, <1>7 DEF SendBusyResponse, JobDone, Framed, JobInv
<1>8. CASE DropRequest
  BY <1>0, <1>8, JobFacts DEF DropRequest, JobDone, Framed, JobInv
<1>9. CASE Shutdown
  BY <1>0, <1>9 DEF Shutdown, queueVars, Framed, JobInv
<1>10. ASSUME NEW c \in Connections, NEW before, ActsOn(c, before), before.message \in Buffers
       PROVE  locked' \in SUBSET Buffers /\ dropped' \in SUBSET Buffers
  BY <1>0, <1>10 DEF ActsOn, GiveBack, Framed
<1>11. ASSUME NEW c \in Connections, DispatchIncomingRequest(c) PROVE Framed' /\ JobInv'
  <2>1. sendJob.message \in Buffers /\ sendJob.message \in Nat
    BY <1>11, JobFacts DEF DispatchIncomingRequest
  <2>2. Opened(sendJob.message, sendJob.kind = "functional").message = sendJob.message
    BY <2>1, OpenedFacts
  <2>3. locked' \in SUBSET Buffers /\ dropped' \in SUBSET Buffers
    BY <1>10, <1>11, <2>1, <2>2, DispatchActs
  <2>. QED BY <1>0, <1>11, <2>3 DEF DispatchIncomingRequest, JobDone, Framed, JobInv
<1>12. ASSUME NEW c \in Connections,
              \/ Closure(c) \/ PendingTimeout(c) \/ GlobalTimeout(c)
              \/ MessageSent(c) \/ JobAnswers(c) \/ JobAsksForTime(c)
       PROVE  Framed' /\ JobInv'
  <2>1. UNCHANGED <<queueVars, running>>
    BY <1>12 DEF Closure, PendingTimeout, GlobalTimeout, MessageSent, JobAnswers, JobAsksForTime
  <2>2. ActsOn(c, conn[c]) /\ conn[c].isOpen
    BY <1>12, RunnableActs, CallActs
  <2>3. conn[c].message \in Buffers
    BY <2>2 DEF MessageInv
  <2>4. locked' \in SUBSET Buffers /\ dropped' \in SUBSET Buffers
    BY <1>10, <2>2, <2>3
  <2>. QED BY <1>0, <2>1, <2>4 DEF queueVars, Framed, JobInv
<1>. QED BY <1>1, <1>2, <1>3, <1>4, <1>5, <1>6, <1>7, <1>8, <1>9, <1>11, <1>12, Zenon DEF Next, ContextStep

\* The connections' requests.
LEMMA MessageStep ==
  ASSUME DispatcherTypeOK, JobInv, MessageInv, Connected, [Next]_vars
  PROVE  MessageInv'
<1>1. CASE conn' = conn
  BY <1>1 DEF MessageInv
<1>2. ASSUME NEW c \in Connections, NEW before, ActsOn(c, before), before.message \in Buffers
      PROVE  MessageInv'
  BY <1>2 DEF MessageInv, ActsOn
<1>3. ASSUME NEW c \in Connections, DispatchIncomingRequest(c) PROVE MessageInv'
  <2>1. sendJob.message \in Buffers /\ sendJob.message \in Nat
    BY <1>3, JobFacts DEF DispatchIncomingRequest
  <2>2. Opened(sendJob.message, sendJob.kind = "functional").message = sendJob.message
    BY <2>1, OpenedFacts
  <2>. QED BY <1>2, <1>3, <2>1, <2>2, DispatchActs
<1>4. ASSUME NEW c \in Connections,
             \/ Closure(c) \/ PendingTimeout(c) \/ GlobalTimeout(c)
             \/ MessageSent(c) \/ JobAnswers(c) \/ JobAsksForTime(c)
      PROVE  MessageInv'
  <2>1. ActsOn(c, conn[c]) /\ conn[c].isOpen
    BY <1>4, RunnableActs, CallActs
  <2>2. conn[c].message \in Buffers
    BY <2>1 DEF MessageInv
  <2>. QED BY <1>2, <2>1, <2>2
<1>. QED BY <1>1, <1>3, <1>4, WhoChanges

\* The invariant holds at first ...
LEMMA DiagInitially == Init => DiagInv
<1>. SUFFICES ASSUME Init PROVE DiagInv
  OBVIOUS
<1>1. \A c \in Connections : conn[c] = Closed
  BY DEF Init
<1>2. Closed \in Connection /\ Unused(Closed) /\ ~Closed.isOpen
  BY ClosedFacts DEF Unused, Gone
<1>3. conn \in [Connections -> Connection] /\ ConnInv /\ MessageInv
  BY <1>1, <1>2 DEF Init, ConnInv, MessageInv
<1>4. /\ locked \in SUBSET Buffers /\ dropped \in SUBSET Buffers /\ queue \in Seq(Job)
      /\ sendJob = NoSend /\ pc = "idle" /\ triggered = FALSE /\ running = TRUE
  BY DEF Init
<1>. QED BY <1>3, <1>4 DEF DiagInv, DispatcherTypeOK, JobInv

\* ... every step keeps it, and none gives the transport layer a message after the response.
LEMMA DiagStep == DiagInv /\ [Next]_vars => DiagInv' /\ NoneFollows
<1>. SUFFICES ASSUME DiagInv, [Next]_vars PROVE DiagInv' /\ NoneFollows
  OBVIOUS
<1>1. DispatcherTypeOK /\ JobInv /\ MessageInv /\ Connected
  BY DEF DiagInv, DispatcherTypeOK, Connected
<1>2. Connected' /\ NoneFollows
  BY <1>1, ConnectionsStep
<1>3. Framed' /\ JobInv'
  BY <1>1, FrameStep
<1>4. MessageInv'
  BY <1>1, MessageStep
<1>. QED BY <1>2, <1>3, <1>4 DEF DiagInv, DispatcherTypeOK, Framed, Connected

\* Type correctness, and the phase that every connection is in.
THEOREM DiagInvariant == Spec => []DiagInv
<1>. QED BY DiagInitially, DiagStep, PTL DEF Spec

\* After IncomingDiagConnection::terminate() has given the message back, no closure of the
\* connection is queued, no message of it is being sent and no timeout is running.
THEOREM ConnectionsEndCleanly == Spec => []NothingOutlivesConnection
<1>1. DiagInv => NothingOutlivesConnection
  <2>. SUFFICES ASSUME DiagInv, NEW c \in Connections, ~conn[c].isOpen
                PROVE  /\ conn[c].queue = <<>> /\ conn[c].flight = <<>>
                       /\ ~conn[c].pendingTimeout /\ ~conn[c].globalTimeout
    BY DEF NothingOutlivesConnection
  <2>1. Unused(conn[c])
    BY OpenFacts DEF DiagInv, ConnInv
  <2>. QED BY <2>1 DEF Unused, Gone
<1>. QED BY <1>1, DiagInvariant, PTL

\* The transport layer has at most one message of a connection, counting one that it has
\* reported and whose closure asyncTransportMessageProcessed() is still queued.
THEOREM OneMessageAtATime == Spec => []OneMessageInFlight
<1>1. DiagInv => OneMessageInFlight
  <2>. SUFFICES ASSUME DiagInv, NEW c \in Connections
                PROVE  Len(conn[c].flight) + (IF IsQueued(conn[c], "processed") THEN 1 ELSE 0) <= 1
    BY DEF OneMessageInFlight
  <2>. DEFINE d == conn[c]
  <2>1. CASE Unused(d)
    <3>1. Len(d.flight) = 0 /\ ~IsQueued(d, "processed")
      BY <2>1 DEF Unused, Gone, IsQueued
    <3>. HIDE DEF d
    <3>. QED BY <3>1 DEF d
  <2>2. CASE OpenInv(d)
    <3>1. PICK m \in Ways, arrived \in BOOLEAN : Phase(d, m, arrived)
      BY <2>2 DEF OpenInv
    <3>2. PICK X, n : Linked(d, X, m, arrived, n) /\ \A x \in X : x.call # "processed"
      <4>1. \A r \in Responses : Answer(r).call # "processed"
        BY DEF Answer, Entry
      <4>2. Entry("next", "ok").call # "processed"
        BY DEF Entry
      <4>3. \A x \in {} : x.call # "processed"
        OBVIOUS
      <4>4. \/ \E n : Linked(d, {}, m, arrived, n)
            \/ \E r \in Responses : Linked(d, {Answer(r)}, m, arrived, 1)
            \/ Linked(d, {Entry("next", "ok")}, m, arrived, 0)
        BY <3>1, Zenon DEF Phase, Works, HasAsked, Holds, HasSent, AsksForTime, GoesOn, IsOver
      <4>5. CASE \E n : Linked(d, {}, m, arrived, n)
        BY <4>3, <4>5
      <4>6. CASE \E r \in Responses : Linked(d, {Answer(r)}, m, arrived, 1)
        <5>1. PICK r \in Responses : Linked(d, {Answer(r)}, m, arrived, 1)
          BY <4>6
        <5>2. \A x \in {Answer(r)} : x.call # "processed"
          BY <4>1
        <5>. QED BY <5>1, <5>2
      <4>7. CASE Linked(d, {Entry("next", "ok")}, m, arrived, 0)
        <5>1. \A x \in {Entry("next", "ok")} : x.call # "processed"
          BY <4>2
        <5>. QED BY <4>7, <5>1
      <4>. QED BY <4>4, <4>5, <4>6, <4>7, Zenon
    <3>3. d.flight = Carried(m, arrived) /\ Once(d.queue, X \cup Reported(m, arrived))
      BY <3>2 DEF Linked
    <3>. HIDE DEF d
    <3>4. CASE arrived \/ m = "none"
      <4>1. Len(d.flight) = 0
        BY <3>3, <3>4 DEF Carried
      <4>. QED BY <4>1 DEF d
    <3>5. CASE ~arrived /\ m # "none"
      <4>1. Len(d.flight) = 1
        BY <3>3, <3>5 DEF Carried
      <4>2. ~IsQueued(d, "processed")
        BY <3>2, <3>3, <3>5 DEF Once, Reported, IsQueued
      <4>. QED BY <4>1, <4>2 DEF d
    <3>. QED BY <3>4, <3>5
  <2>. QED BY <2>1, <2>2 DEF DiagInv, ConnInv
<1>. QED BY <1>1, DiagInvariant, PTL

\* Once the transport layer has accepted a final response no further message is given to it.
THEOREM FinalResponseIsLast == Spec => NothingAfterFinalResponse
<1>1. DiagInv /\ [Next]_vars =>
        [\A c \in Connections : conn[c].answered /\ conn'[c].answered =>
           Len(conn'[c].flight) <= Len(conn[c].flight)]_vars
  BY DiagStep DEF NoneFollows
<1>. QED BY <1>1, DiagInvariant, PTL DEF Spec, NothingAfterFinalResponse

-------------------------------------------------------------------------------
\* The buffers.

\* The buffer that a connection holds.
MessageOf(c) == IF c.isOpen THEN c.message ELSE NoMessage
Held == [c \in Connections |-> MessageOf(conn[c])]

\* Buffers L are in use; each is one that was dropped (D), that of the job j of processQueue(),
\* that of one job of the queue q, or that of one connection (M), and of no other.
Shares(q, j, M, D, L) ==
  /\ L \subseteq Buffers /\ D \subseteq L
  /\ \A k \in DOMAIN q : /\ q[k].message \in L \ D /\ q[k].message # j
                         /\ \A i \in DOMAIN q : q[i].message = q[k].message => i = k
                         /\ \A c \in Connections : M[c] # q[k].message
  /\ j # NoMessage => j \in L \ D /\ \A c \in Connections : M[c] # j
  /\ \A c \in Connections : M[c] # NoMessage =>
       /\ M[c] \in L \ D /\ \A x \in Connections : M[x] = M[c] => x = c
  /\ \A b \in L : \/ b \in D \/ b = j
                  \/ \E k \in DOMAIN q : q[k].message = b
                  \/ \E c \in Connections : M[c] = b

BufferInv == Shares(queue, sendJob.message, Held, dropped, locked)

\* The functions from connections to buffers.
Shared(q, j, M, D, L) ==
  /\ q \in Seq(Job) /\ j \in Buffers \cup {NoMessage}
  /\ M \in [Connections -> Nat] /\ Shares(q, j, M, D, L)

\* A buffer that was free goes to a job of the queue ...
LEMMA Queued ==
  ASSUME NEW q, NEW j, NEW M, NEW D, NEW L, Shared(q, j, M, D, L),
         NEW job \in Job, job.message \notin L
  PROVE  Shared(Append(q, job), j, M, D, L \cup {job.message})
<1>. DEFINE p == Append(q, job)  b == job.message  K == L \cup {b}
<1>1. /\ q \in Seq(Job) /\ j \in Buffers \cup {NoMessage} /\ M \in [Connections -> Nat]
      /\ Shares(q, j, M, D, L)
  BY DEF Shared
<1>2. /\ p \in Seq(Job) /\ DOMAIN p = 1 .. Len(q) + 1 /\ DOMAIN q = 1 .. Len(q) /\ Len(q) \in Nat
      /\ p[Len(q) + 1] = job /\ \A k \in DOMAIN q : p[k] = q[k]
  BY <1>1
<1>3. b \in Buffers /\ b # NoMessage
  BY BufferFacts DEF Job
<1>. DEFINE n == Len(q) + 1
<1>4. /\ \A k \in DOMAIN p : k \in DOMAIN q \/ k = n
      /\ n \in DOMAIN p /\ n \notin DOMAIN q /\ DOMAIN q \subseteq DOMAIN p
  BY <1>2
<1>5. p[n].message = b /\ \A k \in DOMAIN q : p[k].message = q[k].message
  BY <1>2
<1>. HIDE DEF p, b, n
<1>6. b \notin L /\ b \notin D
  BY <1>1 DEF b, Shares
<1>7. /\ b # j /\ \A c \in Connections : M[c] # b
  BY <1>1, <1>3, <1>6 DEF Shares
<1>8. \A k \in DOMAIN q : q[k].message # b
  BY <1>1, <1>6 DEF Shares
<1>9. \A k \in DOMAIN p : /\ p[k].message \in K \ D /\ p[k].message # j
                          /\ \A i \in DOMAIN p : p[i].message = p[k].message => i = k
                          /\ \A c \in Connections : M[c] # p[k].message
  BY <1>1, <1>4, <1>5, <1>6, <1>7, <1>8 DEF Shares
<1>10. \A x \in K : \/ x \in D \/ x = j
                    \/ \E k \in DOMAIN p : p[k].message = x
                    \/ \E c \in Connections : M[c] = x
  <2>1. ASSUME NEW k \in DOMAIN q PROVE k \in DOMAIN p /\ p[k].message = q[k].message
    BY <1>4, <1>5
  <2>. QED BY <1>1, <1>4, <1>5, <2>1 DEF Shares
<1>11. Shares(p, j, M, D, K)
  BY <1>1, <1>3, <1>9, <1>10 DEF Shares
<1>. QED BY <1>1, <1>2, <1>11 DEF Shared, p, b

\* ... or is dropped at once.
LEMMA Forgotten ==
  ASSUME NEW q, NEW j, NEW M, NEW D, NEW L, Shared(q, j, M, D, L),
         NEW b \in Buffers, b \notin L
  PROVE  Shared(q, j, M, D \cup {b}, L \cup {b})
<1>1. b # NoMessage
  BY BufferFacts
<1>. QED BY <1>1 DEF Shared, Shares

\* A job leaves the queue for processQueue().
LEMMA PoppedJob ==
  ASSUME NEW q, NEW M, NEW D, NEW L, Shared(q, NoMessage, M, D, L), q # <<>>
  PROVE  Shared(Tail(q), Head(q).message, M, D, L)
<1>. DEFINE p == Tail(q)  j == Head(q).message
<1>1. /\ q \in Seq(Job) /\ M \in [Connections -> Nat] /\ Shares(q, NoMessage, M, D, L)
  BY DEF Shared
<1>2. /\ p \in Seq(Job) /\ DOMAIN p = 1 .. Len(q) - 1 /\ DOMAIN q = 1 .. Len(q) /\ Len(q) \in Nat
      /\ Len(q) >= 1 /\ Head(q) = q[1] /\ Head(q) \in Job /\ \A k \in DOMAIN p : p[k] = q[k + 1]
  BY <1>1
<1>3. /\ \A k \in DOMAIN p : k + 1 \in DOMAIN q /\ k + 1 # 1 /\ k \in Int
      /\ \A k \in DOMAIN q : k # 1 => k - 1 \in DOMAIN p /\ (k - 1) + 1 = k
      /\ 1 \in DOMAIN q
  BY <1>2
<1>4. j = q[1].message /\ \A k \in DOMAIN p : p[k].message = q[k + 1].message
  BY <1>2
<1>5. j \in Buffers /\ j # NoMessage
  BY <1>2, BufferFacts DEF Job
<1>. HIDE DEF p, j
<1>6. j \in L \ D /\ \A c \in Connections : M[c] # j
  BY <1>1, <1>3, <1>4 DEF Shares
<1>7. \A k \in DOMAIN p : /\ p[k].message \in L \ D /\ p[k].message # j
                          /\ \A i \in DOMAIN p : p[i].message = p[k].message => i = k
                          /\ \A c \in Connections : M[c] # p[k].message
  <2>1. ASSUME NEW k \in DOMAIN p
        PROVE  /\ p[k].message \in L \ D /\ p[k].message # j
               /\ \A c \in Connections : M[c] # p[k].message
    BY <1>1, <1>3, <1>4 DEF Shares
  <2>2. ASSUME NEW k \in DOMAIN p, NEW i \in DOMAIN p, p[i].message = p[k].message
        PROVE  i = k
    <3>1. i + 1 = k + 1
      BY <1>1, <1>3, <1>4, <2>2 DEF Shares
    <3>. QED BY <1>3, <3>1
  <2>. QED BY <2>1, <2>2
<1>8. \A k \in DOMAIN q : q[k].message = j \/ \E i \in DOMAIN p : p[i].message = q[k].message
  <2>1. ASSUME NEW k \in DOMAIN q, k # 1 PROVE k - 1 \in DOMAIN p /\ p[k - 1].message = q[k].message
    <3>1. k - 1 \in DOMAIN p /\ (k - 1) + 1 = k
      BY <1>3, <2>1
    <3>2. p[k - 1].message = q[(k - 1) + 1].message
      BY <1>4, <3>1
    <3>. QED BY <3>1, <3>2
  <2>. QED BY <1>4, <2>1
<1>9. Shares(p, j, M, D, L)
  <2>1. \A b \in L : b # NoMessage
    BY <1>1, BufferFacts DEF Shares
  <2>. QED BY <1>1, <1>6, <1>7, <1>8, <2>1 DEF Shares
<1>. QED BY <1>1, <1>2, <1>5, <1>9 DEF Shared, p, j

\* processQueue() gives its request back, drops it, or takes a buffer for a copy.
LEMMA JobGivenBack ==
  ASSUME NEW q, NEW j, NEW M, NEW D, NEW L, Shared(q, j, M, D, L), j # NoMessage
  PROVE  /\ Shared(q, NoMessage, M, D, L \ {j}) /\ Shared(q, NoMessage, M, D \cup {j}, L)
         /\ \A b \in Buffers : b \notin L => Shared(q, b, M, D, (L \ {j}) \cup {b})
<1>1. NoMessage \notin Buffers
  BY BufferFacts
<1>2. NoMessage \notin L
  BY <1>1 DEF Shared, Shares
<1>3. \A k \in DOMAIN q : q[k].message # NoMessage
  BY <1>2 DEF Shared, Shares
<1>4. Shared(q, NoMessage, M, D, L \ {j})
  BY <1>2, <1>3 DEF Shared, Shares
<1>5. Shared(q, NoMessage, M, D \cup {j}, L)
  BY <1>2, <1>3 DEF Shared, Shares
<1>6. ASSUME NEW b \in Buffers, b \notin L PROVE Shared(q, b, M, D, (L \ {j}) \cup {b})
  <2>1. b # NoMessage
    BY <1>1
  <2>. QED BY <1>3, <1>6, <2>1 DEF Shared, Shares
<1>. QED BY <1>4, <1>5, <1>6

\* The request goes to a connection.
LEMMA JobToConnection ==
  ASSUME NEW q, NEW j, NEW M, NEW D, NEW L, Shared(q, j, M, D, L), j # NoMessage,
         NEW c \in Connections, M[c] = NoMessage
  PROVE  Shared(q, NoMessage, [M EXCEPT ![c] = j], D, L)
<1>. DEFINE N == [M EXCEPT ![c] = j]
<1>1. /\ N[c] = j /\ \A x \in Connections : x # c => N[x] = M[x]
  BY DEF Shared
<1>2. N \in [Connections -> Nat]
  BY BufferFacts DEF Shared
<1>. HIDE DEF N
<1>3. NoMessage \notin L
  BY BufferFacts DEF Shared, Shares
<1>4. \A k \in DOMAIN q : q[k].message # NoMessage
  BY <1>3 DEF Shared, Shares
<1>5. /\ \A k \in DOMAIN q : \A x \in Connections : N[x] # q[k].message
      /\ \A x \in Connections : N[x] # NoMessage =>
           /\ N[x] \in L \ D /\ \A y \in Connections : N[y] = N[x] => y = x
      /\ \A b \in L : \/ b \in D
                      \/ \E k \in DOMAIN q : q[k].message = b
                      \/ \E x \in Connections : N[x] = b
  <2>1. \A k \in DOMAIN q : \A x \in Connections : N[x] # q[k].message
    BY <1>1 DEF Shared, Shares
  <2>2. \A x \in Connections : N[x] # NoMessage =>
           /\ N[x] \in L \ D /\ \A y \in Connections : N[y] = N[x] => y = x
    <3>1. /\ j \in L \ D /\ \A x \in Connections : M[x] # j
          /\ \A x \in Connections : M[x] # NoMessage =>
               /\ M[x] \in L \ D /\ \A y \in Connections : M[y] = M[x] => y = x
      BY DEF Shared, Shares
    <3>2. ASSUME NEW x \in Connections, N[x] # NoMessage, NEW y \in Connections, N[y] = N[x]
          PROVE  y = x
      BY ONLY <1>1, <3>1, <3>2, x \in Connections, y \in Connections, c \in Connections
    <3>3. ASSUME NEW x \in Connections, N[x] # NoMessage PROVE N[x] \in L \ D
      BY <1>1, <3>1, <3>3
    <3>. QED BY <3>2, <3>3
  <2>3. \A x \in Connections : M[x] # NoMessage => N[x] = M[x]
    BY <1>1
  <2>4. \A b \in L : \/ b \in D
                     \/ \E k \in DOMAIN q : q[k].message = b
                     \/ \E x \in Connections : N[x] = b
    <3>1. ASSUME NEW b \in L
          PROVE  \/ b \in D \/ b = j \/ (\E k \in DOMAIN q : q[k].message = b)
                 \/ \E x \in Connections : M[x] = b
      BY DEF Shared, Shares
    <3>2. ASSUME NEW b \in L, NEW x \in Connections, M[x] = b PROVE N[x] = b
      BY <1>3, <2>3, <3>2
    <3>3. ASSUME NEW b \in L, \E x \in Connections : M[x] = b
          PROVE  \E x \in Connections : N[x] = b
      BY <3>2, <3>3
    <3>4. \E x \in Connections : N[x] = j
      BY <1>1
    <3>. QED BY ONLY <3>1, <3>3, <3>4, Zenon
  <2>. QED BY <2>1, <2>2, <2>4
<1>6. Shares(q, NoMessage, N, D, L)
  BY <1>4, <1>5 DEF Shared, Shares
<1>. QED BY <1>2, <1>6 DEF Shared, N

\* A connection ends: its request is given back, or dropped.
LEMMA ConnectionGone ==
  ASSUME NEW q, NEW j, NEW M, NEW D, NEW L, Shared(q, j, M, D, L),
         NEW c \in Connections, M[c] # NoMessage
  PROVE  /\ Shared(q, j, [M EXCEPT ![c] = NoMessage], D, L \ {M[c]})
         /\ Shared(q, j, [M EXCEPT ![c] = NoMessage], D \cup {M[c]}, L)
<1>. DEFINE N == [M EXCEPT ![c] = NoMessage]  b == M[c]
<1>1. /\ N[c] = NoMessage /\ \A x \in Connections : x # c => N[x] = M[x]
  BY DEF Shared
<1>2. N \in [Connections -> Nat]
  BY DEF Shared, NoMessage
<1>3. NoMessage \notin L
  BY BufferFacts DEF Shared, Shares
<1>4. \A k \in DOMAIN q : q[k].message # NoMessage /\ q[k].message # b
  BY <1>3 DEF Shared, Shares
<1>5. j # b /\ b \in L \ D /\ b # NoMessage
  BY DEF Shared, Shares
<1>6. \A x \in Connections : x # c => M[x] # b
  BY DEF Shared, Shares
<1>. HIDE DEF N, b
<1>7. /\ \A k \in DOMAIN q : \A x \in Connections : N[x] # q[k].message
      /\ j # NoMessage => \A x \in Connections : N[x] # j
      /\ \A x \in Connections : N[x] # NoMessage =>
           /\ N[x] \in L \ D /\ N[x] # b /\ \A y \in Connections : N[y] = N[x] => y = x
      /\ \A a \in L : \/ a \in D \/ a = j \/ a = b
                      \/ \E k \in DOMAIN q : q[k].message = a
                      \/ \E x \in Connections : N[x] = a
  <2>1. \A k \in DOMAIN q : \A x \in Connections : N[x] # q[k].message
    BY <1>1, <1>4 DEF Shared, Shares
  <2>2. j # NoMessage => \A x \in Connections : N[x] # j
    BY <1>1 DEF Shared, Shares
  <2>3. \A x \in Connections : N[x] # NoMessage =>
           /\ N[x] \in L \ D /\ N[x] # b /\ \A y \in Connections : N[y] = N[x] => y = x
    <3>1. \A x \in Connections : M[x] # NoMessage =>
               /\ M[x] \in L \ D /\ \A y \in Connections : M[y] = M[x] => y = x
      BY DEF Shared, Shares
    <3>2. ASSUME NEW x \in Connections, N[x] # NoMessage, NEW y \in Connections, N[y] = N[x]
          PROVE  y = x
      BY ONLY <1>1, <3>1, <3>2, x \in Connections, y \in Connections, c \in Connections
    <3>3. ASSUME NEW x \in Connections, N[x] # NoMessage PROVE N[x] \in L \ D /\ N[x] # b
      BY <1>1, <1>6, <3>1, <3>3
    <3>. QED BY <3>2, <3>3
  <2>4. \A x \in Connections : M[x] # b => N[x] = M[x]
    BY <1>1 DEF b
  <2>5. \A a \in L : \/ a \in D \/ a = j \/ a = b
                     \/ \E k \in DOMAIN q : q[k].message = a
                     \/ \E x \in Connections : N[x] = a
    <3>1. ASSUME NEW a \in L
          PROVE  \/ a \in D \/ a = j \/ (\E k \in DOMAIN q : q[k].message = a)
                 \/ \E x \in Connections : M[x] = a
      BY DEF Shared, Shares
    <3>2. ASSUME NEW a \in L, a # b, \E x \in Connections : M[x] = a
          PROVE  \E x \in Connections : N[x] = a
      BY <2>4, <3>2
    <3>. QED BY ONLY <3>1, <3>2, Zenon
  <2>. QED BY <2>1, <2>2, <2>3, <2>5
<1>8. Shares(q, j, N, D, L \ {b})
  BY <1>4, <1>5, <1>7 DEF Shared, Shares
<1>9. Shares(q, j, N, D \cup {b}, L)
  BY <1>4, <1>5, <1>7 DEF Shared, Shares
<1>. QED BY <1>2, <1>8, <1>9 DEF Shared, N, b

\* The queue has room for the messages of all buffers.
RoomForAll == NumBuffers + NumShortBuffers <= QueueSize

\* So the job that fills the queue does not overwrite one that is being processed: with it
\* there would be more jobs than buffers.
LEMMA JobIsNotOverwritten ==
  ASSUME NEW q, NEW j, NEW M, NEW D, NEW L, Shared(q, j, M, D, L), j # NoMessage,
         NEW b \in Buffers, b \notin L, RoomForAll
  PROVE  Len(q) + 1 # QueueSize
<1>. DEFINE n == Len(q)
            S == 1 .. n + 2
            f == [k \in S |-> IF k <= n THEN q[k].message ELSE IF k = n + 1 THEN j ELSE b]
<1>1. n \in Nat /\ DOMAIN q = 1 .. n
  BY DEF Shared
<1>2. j \in Buffers /\ j # b /\ j \in L
  BY DEF Shared, Shares
<1>3. \A k \in 1 .. n : q[k].message \in L /\ q[k].message \in Buffers /\ q[k].message # j
                        /\ \A i \in 1 .. n : q[i].message = q[k].message => i = k
  BY <1>1 DEF Shared, Shares
<1>. HIDE DEF n
<1>4. \A k \in S : k \in 1 .. n \/ k = n + 1 \/ k = n + 2
  BY <1>1
<1>5. /\ \A k \in 1 .. n : f[k] = q[k].message
      /\ f[n + 1] = j /\ f[n + 2] = b
  BY <1>1
<1>6. f \in [S -> Buffers]
  BY <1>1, <1>2, <1>3
<1>. HIDE DEF f
<1>7. \A k, i \in S : f[k] = f[i] => k = i
  BY <1>2, <1>3, <1>4, <1>5
<1>8. f \in Injection(S, Buffers)
  BY <1>6, <1>7 DEF Injection, IsInjective
<1>9. IsFiniteSet(Buffers) /\ Cardinality(Buffers) = NumBuffers + NumShortBuffers
  <2>1. 1 \in Int /\ NumBuffers + NumShortBuffers \in Nat /\ NumBuffers + NumShortBuffers >= 1
    BY DispatcherAssumption
  <2>. QED BY <2>1, FS_Interval, BufferFacts
<1>10. Cardinality(S) = n + 2
  BY <1>1, FS_Interval
<1>11. Cardinality(S) <= Cardinality(Buffers)
  BY <1>8, <1>9, FS_Injection
<1>. QED BY <1>1, <1>9, <1>10, <1>11, DispatcherAssumption DEF RoomForAll, n

\* The invariants in the form in which the lemmas above use them.
LEMMA SharedFacts ==
  ASSUME DiagInv
  PROVE  BufferInv <=> Shared(queue, sendJob.message, Held, dropped, locked)
<1>1. sendJob.message \in Buffers \cup {NoMessage}
  BY DEF DiagInv, DispatcherTypeOK, Job, NoSend
<1>2. Held \in [Connections -> Nat]
  <2>1. \A c \in Connections : MessageOf(conn[c]) \in Nat
    BY BufferFacts DEF DiagInv, MessageInv, MessageOf, NoMessage
  <2>. QED BY <2>1 DEF Held
<1>. QED BY <1>1, <1>2 DEF DiagInv, DispatcherTypeOK, BufferInv, Shared

\* What a step on a connection does to the buffers that the connections hold.
LEMMA HeldChanges ==
  ASSUME NEW c \in Connections, NEW before, ActsOn(c, before)
  PROVE  \/ /\ Held' = [Held EXCEPT ![c] = before.message] /\ UNCHANGED <<locked, dropped>>
         \/ /\ Held' = [Held EXCEPT ![c] = NoMessage]
            /\ \/ dropped' = dropped \cup {before.message} /\ UNCHANGED locked
               \/ locked' = locked \ {before.message} /\ UNCHANGED dropped
<1>1. \A x \in Connections : x # c => MessageOf(conn'[x]) = MessageOf(conn[x])
  BY DEF ActsOn
<1>2. CASE UNCHANGED <<locked, dropped>> /\ conn'[c].isOpen /\ conn'[c].message = before.message
  <2>1. MessageOf(conn'[c]) = before.message
    BY <1>2 DEF MessageOf
  <2>2. Held' = [Held EXCEPT ![c] = before.message]
    BY <1>1, <2>1 DEF Held
  <2>. QED BY <1>2, <2>2
<1>3. CASE ~conn'[c].isOpen /\ GiveBack(before)
  <2>1. MessageOf(conn'[c]) = NoMessage
    BY <1>3 DEF MessageOf
  <2>2. Held' = [Held EXCEPT ![c] = NoMessage]
    BY <1>1, <2>1 DEF Held
  <2>. QED BY <1>3, <2>2 DEF GiveBack
<1>. QED BY <1>2, <1>3 DEF ActsOn

\* Every step keeps the buffers apart, when the queue has room for all of them.
LEMMA BufferStep ==
  ASSUME RoomForAll, DiagInv, BufferInv, [Next]_vars
  PROVE  BufferInv'
<1>. DEFINE Now == Shared(queue, sendJob.message, Held, dropped, locked)
<1>0. Now
  BY SharedFacts
<1>i. DispatcherTypeOK /\ JobInv /\ MessageInv /\ Connected
  BY DEF DiagInv, DispatcherTypeOK, Connected
<1>a. NoSend.message = NoMessage
  BY DEF NoSend
<1>. SUFFICES Now'
  BY DEF Shared, BufferInv
<1>. HIDE DEF Now
<1>b. conn' = conn => Held' = Held
  BY DEF Held
<1>1. CASE vars' = vars
  BY <1>0, <1>1, <1>b DEF vars, queueVars, Now
<1>2. ASSUME NEW kind \in Kinds, MessageReceived(kind) PROVE Now'
  <2>1. PICK b \in Provided(kind) :
       \/ /\ running /\ Len(queue) < QueueSize
          /\ locked' = locked \cup {b}
          /\ EnqueueMessage([message |-> b, kind |-> kind])
          /\ UNCHANGED dropped
       \/ /\ ~running
          /\ locked' = locked \cup {b} /\ dropped' = dropped \cup {b}
          /\ UNCHANGED <<queue, sendJob, triggered>>
    BY <1>2 DEF MessageReceived
  <2>. DEFINE job == [message |-> b, kind |-> kind]
  <2>2. b \in Buffers /\ b \notin locked /\ job \in Job /\ job.message = b
    BY <2>1, ProvidedFacts DEF Job
  <2>3. Held' = Held
    BY <1>2, <1>b DEF MessageReceived
  <2>. HIDE DEF job
  <2>4. CASE EnqueueMessage(job) /\ locked' = locked \cup {b} /\ UNCHANGED dropped
    <3>1. Shared(Append(queue, job), sendJob.message, Held, dropped, locked \cup {b})
      BY <1>0, <2>2, Queued DEF Now
    <3>2. sendJob # NoSend => sendJob.message # NoMessage
      BY <1>i, BufferFacts DEF DispatcherTypeOK, Job
    <3>3. sendJob # NoSend => Len(queue) + 1 # QueueSize
      BY <1>0, <2>2, <3>2, JobIsNotOverwritten DEF Now
    <3>4. queue' = Append(queue, job) /\ sendJob' = sendJob
      BY <2>4, <3>3 DEF EnqueueMessage
    <3>. QED BY <2>3, <2>4, <3>1, <3>4 DEF Now
  <2>5. CASE locked' = locked \cup {b} /\ dropped' = dropped \cup {b} /\ UNCHANGED <<queue, sendJob, triggered>>
    <3>1. Shared(queue, sendJob.message, Held, dropped \cup {b}, locked \cup {b})
      BY <1>0, <2>2, Forgotten DEF Now
    <3>. QED BY <2>3, <2>5, <3>1 DEF Now
  <2>. QED BY <2>1, <2>4, <2>5 DEF job
<1>3. CASE PopJob
  <2>1. sendJob.message = NoMessage
    BY <1>i, <1>3, <1>a DEF PopJob, InLoop, JobInv
  <2>2. Shared(Tail(queue), Head(queue).message, Held, dropped, locked)
    BY <1>0, <1>3, <2>1, PoppedJob DEF Now, PopJob
  <2>. QED BY <1>3, <1>b, <2>2 DEF PopJob, Now
<1>c. pc \in {"popped", "checked", "busy"} => sendJob.message # NoMessage /\ sendJob.message \in Buffers
  BY <1>i, JobFacts, BufferFacts
<1>d. pc \in {"popped", "checked", "busy"} =>
        /\ Shared(queue, NoMessage, Held, dropped, locked \ {sendJob.message})
        /\ Shared(queue, NoMessage, Held, dropped \cup {sendJob.message}, locked)
        /\ \A b \in Buffers : b \notin locked =>
             Shared(queue, b, Held, dropped, (locked \ {sendJob.message}) \cup {b})
  <2>1. HAVE pc \in {"popped", "checked", "busy"}
  <2>. QED BY ONLY <1>0, <1>c, <2>1, JobGivenBack DEF Now
<1>4. CASE QueueEmpty
  BY <1>0, <1>4, <1>b DEF QueueEmpty, Now
<1>5. CASE PrecheckRequest
  <2>1. UNCHANGED <<conn, queue, triggered, running, dropped>> /\ pc = "popped" /\ Held' = Held
    BY <1>5, <1>b DEF PrecheckRequest
  <2>3. CASE Discard
    BY <1>a, <1>d, <2>1, <2>3 DEF Discard, JobDone, Now
  <2>4. CASE UNCHANGED <<locked, sendJob>>
    BY <1>0, <2>1, <2>4 DEF Now
  <2>5. CASE CopyRequest
    <3>2. CASE \E b \in FirstFree(Messages) :
         /\ locked' = (locked \ {sendJob.message}) \cup {b}
         /\ sendJob' = [sendJob EXCEPT !.message = b]
         /\ pc' = "checked"
      <4>1. PICK b \in FirstFree(Messages) :
         /\ locked' = (locked \ {sendJob.message}) \cup {b}
         /\ sendJob' = [sendJob EXCEPT !.message = b]
         /\ pc' = "checked"
        BY <3>2
      <4>2. b \in Buffers /\ b \notin locked
        BY <4>1, FirstFreeFacts, BufferFacts
      <4>3. sendJob'.message = b
        BY <1>i, <2>1, <4>1, JobFacts DEF Job
      <4>4. Shared(queue, b, Held, dropped, (locked \ {sendJob.message}) \cup {b})
        BY <1>d, <2>1, <4>2
      <4>. QED BY <2>1, <4>1, <4>3, <4>4 DEF Now
    <3>. QED BY <2>4, <2>5, <3>2 DEF CopyRequest
  <2>. QED BY <1>5, <2>3, <2>4, <2>5 DEF PrecheckRequest
<1>6. CASE NoConnection
  BY <1>0, <1>6, <1>b DEF NoConnection, Now
<1>7. CASE SendBusyResponse
  BY <1>7, <1>a, <1>b, <1>d DEF SendBusyResponse, JobDone, Now
<1>8. CASE DropRequest
  BY <1>8, <1>a, <1>b, <1>d DEF DropRequest, JobDone, Now
<1>9. CASE Shutdown
  BY <1>0, <1>9, <1>b DEF Shutdown, queueVars, Now
<1>e. /\ \A c \in Connections : Held[c] = MessageOf(conn[c])
      /\ DOMAIN Held = Connections
  BY DEF Held
<1>11. ASSUME NEW c \in Connections, DispatchIncomingRequest(c) PROVE Now'
  <2>. DEFINE j == sendJob.message  before == Opened(j, sendJob.kind = "functional")
              M == [Held EXCEPT ![c] = j]
  <2>1. j \in Buffers /\ j # NoMessage /\ j \in Nat
    BY <1>11, <1>c, BufferFacts DEF DispatchIncomingRequest
  <2>2. before.message = j
    BY <2>1, OpenedFacts
  <2>3. ActsOn(c, before) /\ sendJob'.message = NoMessage /\ queue' = queue
    BY <1>i, <1>11, <1>a, DispatchActs DEF DispatchIncomingRequest, JobDone
  <2>4. Held[c] = NoMessage
    BY <1>11, <1>e DEF DispatchIncomingRequest, MessageOf
  <2>. HIDE DEF j, before
  <2>5. Shared(queue, NoMessage, M, dropped, locked)
    BY <1>0, <2>1, <2>4, JobToConnection DEF Now, j
  <2>6. M[c] = j /\ [M EXCEPT ![c] = NoMessage] = [Held EXCEPT ![c] = NoMessage]
    BY <1>e
  <2>. HIDE DEF M
  <2>7. /\ Shared(queue, NoMessage, [M EXCEPT ![c] = NoMessage], dropped, locked \ {j})
        /\ Shared(queue, NoMessage, [M EXCEPT ![c] = NoMessage], dropped \cup {j}, locked)
    <3>1. M[c] # NoMessage
      BY <2>1, <2>6
    <3>. QED BY <2>5, <2>6, <3>1, ConnectionGone
  <2>8. \/ Held' = M /\ UNCHANGED <<locked, dropped>>
        \/ /\ Held' = [M EXCEPT ![c] = NoMessage]
           /\ \/ dropped' = dropped \cup {j} /\ UNCHANGED locked
              \/ locked' = locked \ {j} /\ UNCHANGED dropped
    BY <2>2, <2>3, <2>6, HeldChanges DEF M
  <2>. QED BY <2>3, <2>5, <2>7, <2>8 DEF Now
<1>12. ASSUME NEW c \in Connections,
              \/ Closure(c) \/ PendingTimeout(c) \/ GlobalTimeout(c)
              \/ MessageSent(c) \/ JobAnswers(c) \/ JobAsksForTime(c)
       PROVE  Now'
  <2>1. UNCHANGED <<queue, sendJob>>
    BY <1>12 DEF queueVars, Closure, PendingTimeout, GlobalTimeout, MessageSent, JobAnswers, JobAsksForTime
  <2>2. ActsOn(c, conn[c]) /\ conn[c].isOpen
    BY <1>i, <1>12, RunnableActs, CallActs
  <2>3. Held[c] = conn[c].message /\ Held[c] # NoMessage
    BY <1>i, <1>e, <2>2, BufferFacts DEF MessageInv, MessageOf
  <2>4. [Held EXCEPT ![c] = conn[c].message] = Held
    BY <1>e, <2>3 DEF Held
  <2>. DEFINE N == [Held EXCEPT ![c] = NoMessage]
  <2>5. /\ Shared(queue, sendJob.message, N, dropped, locked \ {Held[c]})
        /\ Shared(queue, sendJob.message, N, dropped \cup {Held[c]}, locked)
    BY <1>0, <2>3, ConnectionGone DEF Now
  <2>6. \/ Held' = Held /\ UNCHANGED <<locked, dropped>>
        \/ /\ Held' = N
           /\ \/ dropped' = dropped \cup {Held[c]} /\ UNCHANGED locked
              \/ locked' = locked \ {Held[c]} /\ UNCHANGED dropped
    BY <2>2, <2>3, <2>4, HeldChanges
  <2>. HIDE DEF N
  <2>. QED BY <1>0, <2>1, <2>5, <2>6 DEF Now
<1>. QED BY <1>1, <1>2, <1>3, <1>4, <1>5, <1>6, <1>7, <1>8, <1>9, <1>11, <1>12, Zenon DEF Next, ContextStep

\* A buffer has one holder when it is in use, and none when it is not.
LEMMA OneHolder ==
  ASSUME DiagInv, BufferInv, NEW b \in Buffers
  PROVE  Cardinality(Holders(b)) = IF b \in locked THEN 1 ELSE 0
<1>. DEFINE Q == {k \in DOMAIN queue : queue[k].message = b}
            C == {c \in Connections : conn[c].isOpen /\ conn[c].message = b}
            J == IF sendJob.message = b THEN {<<"sendJob", 0>>} ELSE {}
            F == IF b \in dropped THEN {<<"dropped", 0>>} ELSE {}
<1>1. Holders(b) = {<<"queue", k>> : k \in Q} \cup J \cup {<<"conn", c>> : c \in C} \cup F
  BY DEF Holders
<1>2. b # NoMessage
  BY BufferFacts
<1>3. \A c \in Connections : Held[c] = b <=> c \in C
  BY <1>2 DEF Held, MessageOf
<1>4. /\ \A k \in DOMAIN queue : queue[k].message = b <=> k \in Q
      /\ Q \subseteq DOMAIN queue /\ C \subseteq Connections
  OBVIOUS
<1>. HIDE DEF Q, C
<1>5. /\ \A k \in Q : b \in locked /\ b \notin dropped /\ sendJob.message # b
                      /\ Q = {k} /\ C = {}
  BY <1>3, <1>4 DEF BufferInv, Shares
<1>6. sendJob.message = b => b \in locked /\ b \notin dropped /\ Q = {} /\ C = {}
  BY <1>2, <1>3, <1>4 DEF BufferInv, Shares
<1>7. \A c \in C : b \in locked /\ b \notin dropped /\ sendJob.message # b /\ Q = {} /\ C = {c}
  BY <1>2, <1>3, <1>4, <1>5, <1>6 DEF BufferInv, Shares
<1>8. b \in dropped => b \in locked /\ Q = {} /\ C = {} /\ sendJob.message # b
  BY <1>2, <1>5, <1>6, <1>7 DEF BufferInv, Shares
<1>9. b \in locked => b \in dropped \/ sendJob.message = b \/ Q # {} \/ C # {}
  BY <1>3, <1>4 DEF BufferInv, Shares
<1>10. CASE b \notin locked
  <2>1. Q = {} /\ C = {} /\ sendJob.message # b /\ b \notin dropped
    BY <1>5, <1>6, <1>7, <1>8, <1>10
  <2>2. Holders(b) = {}
    BY <1>1, <2>1
  <2>. QED BY <1>10, <2>2, FS_EmptySet
<1>11. CASE b \in locked
  <2>1. \E x : Holders(b) = {x}
    <3>1. CASE b \in dropped
      BY <1>1, <1>8, <3>1
    <3>2. CASE sendJob.message = b
      BY <1>1, <1>6, <3>2
    <3>3. CASE Q # {}
      <4>1. PICK k \in Q : TRUE
        BY <3>3
      <4>2. Q = {k} /\ C = {} /\ sendJob.message # b /\ b \notin dropped
        BY <1>5, <4>1
      <4>3. Holders(b) = {<<"queue", k>>}
        BY <1>1, <4>2
      <4>. QED BY <4>3
    <3>4. CASE C # {}
      <4>1. PICK c \in C : TRUE
        BY <3>4
      <4>2. C = {c} /\ Q = {} /\ sendJob.message # b /\ b \notin dropped
        BY <1>7, <4>1
      <4>3. Holders(b) = {<<"conn", c>>}
        BY <1>1, <4>2
      <4>. QED BY <4>3
    <3>. QED BY <1>9, <1>11, <3>1, <3>2, <3>3, <3>4
  <2>2. Cardinality(Holders(b)) = 1
    BY <2>1, FS_Singleton
  <2>. QED BY <1>11, <2>2
<1>. QED BY <1>10, <1>11

\* Whenever the queue of the dispatcher has a place for every buffer of the router (16 places
\* and 11 buffers in the reference application), every buffer in use is held by exactly one
\* job or connection, or was dropped at a shutdown, and no buffer is held that is not in use.
THEOREM BuffersAreHeldOnce == RoomForAll => (Spec => []BuffersHeldOnce)
<1>. SUFFICES ASSUME RoomForAll PROVE Spec => []BuffersHeldOnce
  OBVIOUS
<1>1. Init => BufferInv
  <2>. SUFFICES ASSUME Init PROVE BufferInv
    OBVIOUS
  <2>1. sendJob.message = NoMessage /\ queue = <<>> /\ dropped = {} /\ locked = {}
    BY DEF Init, NoSend
  <2>2. \A c \in Connections : conn[c] = Closed
    BY DEF Init
  <2>3. ~Closed.isOpen
    BY ClosedFacts DEF Unused, Gone
  <2>4. \A c \in Connections : Held[c] = NoMessage
    BY <2>2, <2>3 DEF Held, MessageOf
  <2>. QED BY <2>1, <2>4 DEF BufferInv, Shares
<1>2. DiagInv /\ BufferInv /\ [Next]_vars => BufferInv'
  BY BufferStep
<1>3. DiagInv /\ BufferInv => BuffersHeldOnce
  BY OneHolder DEF BuffersHeldOnce
<1>. QED BY <1>1, <1>2, <1>3, DiagInvariant, PTL DEF Spec
===============================================================================
