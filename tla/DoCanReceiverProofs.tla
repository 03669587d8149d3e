------------------------- MODULE DoCanReceiverProofs --------------------------
(***************************************************************************)
(* Proofs about the DoCAN receiver, for any number of messages, frames,    *)
(* addresses, buffers and places of the pool, and any timeouts.            *)
(*                                                                         *)
(* A handler is a function of a state, so the invariant is one of these    *)
(* states (HandlerInv) and holds between any two receivers a handler       *)
(* serves, not only between the handlers.  What a handler does with one    *)
(* receiver either ends its reception or lets it go on (Result); each      *)
(* function of DoCanMessageReceiver is shown once to have such a result,   *)
(* and one lemma shows that a result keeps the invariant.  The loops are   *)
(* inductions over the list.                                               *)
(***************************************************************************)
EXTENDS DoCanReceiver, SequenceFacts, FiniteSetTheorems, FunctionTheorems

-------------------------------------------------------------------------------
\* The states a handler is in.

Sender  == [id : 0 .. MaxMessages, frames : {0} \cup FrameCounts, next : 0 .. MaxFrames, credit : Nat]
Message == [id : Ids, address : Addresses, content : Seq(Frame)]

HandlerState ==
  [list : Seq(Ids), rx : [Ids -> Receiver], updated : BOOLEAN, free : Nat, processing : SUBSET Ids,
   delivered : Seq(Message), sender : [Addresses -> Sender], untold : SUBSET Addresses,
   released : Nat, stop : BOOLEAN]

\* The inductive invariant: s is the state of a handler, R the addresses that a full pool has
\* refused a first frame of, N the number of messages sent.

Listed(s)     == ToSet(s.list)
Finished(s)   == {k \in Listed(s) : s.rx[k].state = "DONE"}
Holding(s)    == {k \in Listed(s) : s.rx[k].message}
Pending(s, k) == k \in Listed(s) /\ s.rx[k].state # "DONE"

\* A pending receiver waits for a message, for a frame, or is stuck.
Sound(r) ==
  /\ r.message <=> ~r.allocating
  /\ r.allocating => r.frameIndex = 1
  /\ r.message => Segmented(r) /\ r.frameIndex < r.frameCount /\ r.retry = 0
  /\ r.state \in {"ALLOCATE", "WAIT", "SEND"}
  /\ r.state = "ALLOCATE" => r.allocating
  /\ r.state = "WAIT" => r.timerSet
  /\ r.state = "WAIT" /\ r.allocating =>
       r.timeout = "ALLOCATE" /\ r.retry > 0 /\ r.timer <= AllocateTimeout
  /\ r.state = "WAIT" /\ r.message => r.timeout = "RX"
  /\ r.state = "SEND" => Segmented(r) /\ r.timeout = "NONE"

ReceiversInv(s) ==
  \A k \in Listed(s) :
    IF s.rx[k].state = "DONE" THEN ~s.rx[k].message
    ELSE /\ Sound(s.rx[k])
         /\ s.rx[k].state = "SEND" /\ s.rx[k].allocating => s.rx[k].address \in s.untold

CountsInv(s) ==
  /\ s.free + Cardinality(Holding(s)) + Cardinality(s.processing) = Buffers
  /\ s.released = Cardinality(Finished(s))

\* Until a timer is set, the receivers that wait are in the order of their timers.
TimersInv(s) ==
  s.updated \/ \A m, n \in DOMAIN s.list :
                 m < n /\ s.rx[s.list[m]].state = "WAIT" /\ s.rx[s.list[n]].state = "WAIT"
                   => s.rx[s.list[m]].timer <= s.rx[s.list[n]].timer

SendersInv(s) ==
  \A a \in Addresses : \/ s.sender[a].frames = 0
                       \/ s.sender[a].id \in Ids /\ s.sender[a].next \in 1 .. s.sender[a].frames

\* The frames of message i from the first one on.
Exact(content, i) == \A n \in DOMAIN content : content[n] = [of |-> i, index |-> n - 1]

\* Receiver r of message i has all frames up to its index, or it is 16 frames behind its sender
\* q, where the sequence number is the same again.
UpToDate(r, i, q) == \/ r.frameIndex + 16 <= q.next
                     \/ Exact(r.content, i) /\ Len(r.content) = r.frameIndex

\* It follows the sender.
Follows(r, i, q) == /\ q.id = i /\ q.frames = r.frameCount /\ r.frameIndex <= q.next
                    /\ r.state = "WAIT" /\ r.message => UpToDate(r, i, q)

ContentInv(s, R) ==
  \A k \in Listed(s) : Pending(s, k) /\ Segmented(s.rx[k]) =>
    /\ s.rx[k].address \notin Functional
    /\ s.rx[k].address \notin R => Follows(s.rx[k], k, s.sender[s.rx[k].address])

DeliveredInv(s, R) ==
  \A n \in DOMAIN s.delivered :
    s.delivered[n].address \in R \/ Exact(s.delivered[n].content, s.delivered[n].id)

\* Whom a number belongs to.
NumbersInv(s, N) ==
  /\ Listed(s) \subseteq 1 .. N /\ s.processing \subseteq 1 .. N
  /\ \A n \in DOMAIN s.delivered : s.delivered[n].id \in 1 .. N
  /\ \A k \in Listed(s) : Pending(s, k) =>
       k \notin s.processing /\ \A n \in DOMAIN s.delivered : s.delivered[n].id # k

\* j stands before k in the list l.
Before(l, j, k) == \E m, n \in DOMAIN l : m < n /\ l[m] = j /\ l[n] = k

\* Of two pending receivers of an address the earlier one is a single frame that waits for a
\* message, and so does the later one, behind it.
TurnsInv(s) ==
  \A j, k \in Listed(s) :
    Pending(s, j) /\ Pending(s, k) /\ j < k /\ s.rx[j].address = s.rx[k].address
      /\ s.rx[k].address \notin s.untold =>
        /\ ~Segmented(s.rx[j]) /\ s.rx[j].state = "WAIT" /\ s.rx[k].allocating
        /\ Before(s.list, j, k)
        /\ s.rx[k].state = "WAIT" => s.rx[j].timer <= s.rx[k].timer

OrderInv(s) ==
  /\ \A n \in DOMAIN s.delivered, k \in Listed(s) :
       Pending(s, k) /\ s.delivered[n].address = s.rx[k].address /\ s.rx[k].address \notin s.untold
         => s.delivered[n].id < k
  /\ \A m, n \in DOMAIN s.delivered : m < n /\ s.delivered[m].address = s.delivered[n].address =>
       /\ s.delivered[m].id # s.delivered[n].id
       /\ s.delivered[n].address \notin s.untold => s.delivered[m].id < s.delivered[n].id

HandlerInv(s, R, N) ==
  /\ s \in HandlerState /\ IsInjective(s.list)
  /\ ReceiversInv(s) /\ CountsInv(s) /\ TimersInv(s) /\ SendersInv(s) /\ ContentInv(s, R)
  /\ DeliveredInv(s, R) /\ NumbersInv(s, N) /\ TurnsInv(s) /\ OrderInv(s)

\* Between the handlers.
ReceiverInv ==
  /\ TypeOK /\ ~overrun
  /\ HandlerInv(Found, refused, count)
  /\ \A k \in Live : rx[k].state \notin {"ALLOCATE", "DONE"}

-------------------------------------------------------------------------------
\* What a handler does with a receiver.

\* r is q, but it may have been unblocked.
Alike(r, q) == r = [q EXCEPT !.blocked = r.blocked]

\* From s to t only the receiver i has been served.
Serves(s, t, i) ==
  /\ t \in HandlerState /\ t.list = s.list /\ t.stop = s.stop /\ s.untold \subseteq t.untold
  /\ s.updated => t.updated
  /\ \A a \in Addresses : /\ t.sender[a].id = s.sender[a].id /\ t.sender[a].next = s.sender[a].next
                          /\ t.sender[a].frames = s.sender[a].frames
  /\ \A k \in Ids \ {i} : Alike(t.rx[k], s.rx[k])
  /\ t.rx[i].address = s.rx[i].address /\ t.rx[i].frameCount = s.rx[i].frameCount

\* The fields a change of receiver i leaves alone.
Alone(s, t, i) ==
  /\ t \in HandlerState /\ t.list = s.list /\ t.stop = s.stop /\ t.processing = s.processing
  /\ t.delivered = s.delivered /\ t.released = s.released
  /\ \A k \in Ids \ {i} : t.rx[k] = s.rx[k]

\* The transport messages a receiver has.
Held(r) == IF r.message THEN 1 ELSE 0

\* The constants.
LEMMA ConstantFacts ==
  /\ Functional \subseteq Addresses /\ FrameCounts \subseteq Nat \ {0} /\ FrameCounts # {} /\ IsFiniteSet(FrameCounts)
  /\ Addresses # {} /\ PoolSize \in Nat \ {0} /\ Buffers \in Nat
  /\ MaxBlockSize \in Nat /\ MaxRetry \in Nat /\ MaxLate \in Nat \ {0}
  /\ RxTimeout \in Nat \ {0} /\ AllocateTimeout \in Nat \ {0} /\ MaxMessages \in Nat
BY ReceiverAssumption

\* The frames of the longest message bound those of the others.
LEMMA MaxFramesFacts ==
  MaxFrames \in FrameCounts /\ MaxFrames \in Nat \ {0} /\ \A n \in FrameCounts : n <= MaxFrames
<1>. DEFINE K == {n \in Nat : \A S \in SUBSET Nat : IsFiniteSet(S) /\ Cardinality(S) = n /\ S # {}
                                 => \E x \in S : \A y \in S : y <= x}
<1>1. 0 \in K
  BY FS_EmptySet
<1>2. ASSUME NEW n \in Nat, n \in K PROVE n + 1 \in K
  <2>. SUFFICES ASSUME NEW S \in SUBSET Nat, IsFiniteSet(S), Cardinality(S) = n + 1, S # {}
                PROVE  \E x \in S : \A y \in S : y <= x
    OBVIOUS
  <2>1. PICK z \in S : TRUE
    OBVIOUS
  <2>. DEFINE T == S \ {z}
  <2>2. IsFiniteSet(T) /\ Cardinality(T) = n /\ T \in SUBSET Nat
    BY FS_RemoveElement
  <2>3. CASE T = {}
    BY <2>1, <2>3
  <2>4. CASE T # {}
    <3>. HIDE DEF T
    <3>1. PICK x \in T : \A y \in T : y <= x
      BY <1>2, <2>2, <2>4
    <3>2. x \in S /\ x \in Nat /\ z \in Nat
      BY <2>2 DEF T
    <3>3. CASE z <= x
      BY <3>1, <3>2, <3>3 DEF T
    <3>4. CASE x <= z
      <4>1. \A y \in T : y <= z
        BY <2>2, <3>1, <3>2, <3>4
      <4>. QED BY <2>1, <4>1, <3>2 DEF T
    <3>. QED BY <3>2, <3>3, <3>4
  <2>. QED BY <2>3, <2>4
<1>. HIDE DEF K
<1>3. Nat \subseteq K
  BY <1>1, <1>2, InductionOverSet
<1>4. /\ FrameCounts \in SUBSET Nat /\ IsFiniteSet(FrameCounts) /\ FrameCounts # {}
      /\ Cardinality(FrameCounts) \in Nat
  BY ConstantFacts, FS_CardinalityType
<1>5. \E x \in FrameCounts : \A y \in FrameCounts : y <= x
  BY <1>3, <1>4 DEF K
<1>6. MaxFrames \in FrameCounts /\ \A n \in FrameCounts : n <= MaxFrames
  <2>1. MaxFrames = CHOOSE x \in FrameCounts : \A y \in FrameCounts : x >= y
    BY DEF MaxFrames, Max
  <2>2. \E x \in FrameCounts : \A y \in FrameCounts : x >= y
    BY <1>4, <1>5
  <2>3. MaxFrames \in FrameCounts /\ \A y \in FrameCounts : MaxFrames >= y
    BY <2>1, <2>2
  <2>. QED BY <1>4, <2>3
<1>. QED BY <1>6, ConstantFacts

\* Receivers q and r are in the same phase of the same message.
Same(q, r) ==
  /\ q.address = r.address /\ q.frameCount = r.frameCount /\ q.frameIndex = r.frameIndex
  /\ q.state = r.state /\ q.timeout = r.timeout /\ q.retry = r.retry
  /\ q.allocating = r.allocating /\ q.message = r.message /\ q.content = r.content
  /\ q.timer = r.timer /\ q.timerSet = r.timerSet

\* Being unblocked leaves a receiver in its phase.
LEMMA AlikeFacts ==
  ASSUME NEW r \in Receiver, NEW q \in Receiver, Alike(r, q)
  PROVE  Same(r, q)
BY DEF Alike, Receiver, Same

\* Being alike is reflexive and transitive.
LEMMA AlikeTransitive ==
  ASSUME NEW r \in Receiver, NEW q \in Receiver, NEW p \in Receiver
  PROVE  /\ Alike(r, r)
         /\ Alike(r, q) /\ Alike(q, p) => Alike(r, p)
BY DEF Alike, Receiver

\* A change of receiver i, of the timer flag and of the free messages.
Put(s, i, r, u, f) == [s EXCEPT !.rx = [s.rx EXCEPT ![i] = r], !.updated = u, !.free = f]

\* What such a change is.
LEMMA PutFacts ==
  ASSUME NEW s \in HandlerState, NEW i \in Ids, NEW r \in Receiver, NEW u \in BOOLEAN, NEW f \in Nat
  PROVE  /\ Alone(s, Put(s, i, r, u, f), i) /\ Put(s, i, r, u, f).free = f
         /\ Put(s, i, r, u, f).sender = s.sender /\ Put(s, i, r, u, f).untold = s.untold
         /\ Put(s, i, r, u, f).updated = u /\ Put(s, i, r, u, f).rx[i] = r
<1>. DEFINE x == [s.rx EXCEPT ![i] = r]
            t == Put(s, i, r, u, f)
<1>1. s.rx \in [Ids -> Receiver]
  BY DEF HandlerState
<1>2. x \in [Ids -> Receiver] /\ x[i] = r /\ \A k \in Ids \ {i} : x[k] = s.rx[k]
  BY <1>1
<1>. HIDE DEF x
<1>3. t = [s EXCEPT !.rx = x, !.updated = u, !.free = f]
  BY DEF x, Put
<1>. HIDE DEF t
<1>4. t \in HandlerState
  BY <1>2, <1>3 DEF HandlerState
<1>5. t.rx = x /\ t.updated = u /\ t.free = f
  BY <1>3 DEF HandlerState
<1>6. /\ t.list = s.list /\ t.stop = s.stop /\ t.processing = s.processing
      /\ t.delivered = s.delivered /\ t.released = s.released
      /\ t.sender = s.sender /\ t.untold = s.untold
  BY <1>3 DEF HandlerState
<1>7. Alone(s, t, i) /\ t.rx[i] = r
  BY <1>2, <1>4, <1>5, <1>6 DEF Alone
<1>. QED BY <1>5, <1>6, <1>7 DEF t

\* A change that leaves the number of free messages alone.
LEMMA KeepsFree ==
  ASSUME NEW s \in HandlerState, NEW i, NEW r, NEW u,
         NEW t, t = [s EXCEPT !.rx = [s.rx EXCEPT ![i] = r], !.updated = u]
  PROVE  t = Put(s, i, r, u, s.free)
BY DEF HandlerState, Put

\* setState() with its transition, from s to t.
Moves(s, t, i, state, timeout) ==
  /\ Alone(s, t, i) /\ t.free = s.free /\ t.sender = s.sender /\ t.untold = s.untold
  /\ t.updated = (s.updated \/ state # "DONE")
  /\ t.rx[i] \in Receiver
  /\ t.rx[i] = [s.rx[i] EXCEPT !.state = state, !.timeout = timeout,
                               !.timer = Duration(timeout), !.timerSet = TRUE]

\* That is what Transition does.
LEMMA TransitionFacts ==
  ASSUME NEW s \in HandlerState, NEW i \in Ids, NEW state \in States, NEW timeout \in Timeouts
  PROVE  Moves(s, Transition(s, i, state, timeout), i, state, timeout)
<1>. DEFINE t == Transition(s, i, state, timeout)
<1>1. Duration(timeout) \in Int
  BY ConstantFacts DEF Duration, Timeouts
<1>2. s.rx[i] \in Receiver /\ s.updated \in BOOLEAN /\ s.free \in Nat
  BY DEF HandlerState
<1>. DEFINE d == Duration(timeout)
            r == [s.rx[i] EXCEPT !.state = state, !.timeout = timeout, !.timer = d, !.timerSet = TRUE]
            u == (s.updated \/ state # "DONE")
<1>. HIDE DEF d
<1>3. r \in Receiver
  BY <1>1, <1>2 DEF Receiver, d
<1>4. t = Put(s, i, r, u, s.free)
  <2>1. t = [s EXCEPT !.rx = [s.rx EXCEPT ![i] = r], !.updated = u]
    BY DEF Transition, d
  <2>. HIDE DEF r, u, t
  <2>. QED BY <2>1, KeepsFree
<1>. HIDE DEF r, u, t
<1>5. u \in BOOLEAN
  BY DEF u
<1>6. /\ Alone(s, t, i) /\ t.free = s.free /\ t.sender = s.sender /\ t.untold = s.untold
      /\ t.updated = u /\ t.rx[i] = r
  BY <1>2, <1>3, <1>4, <1>5, PutFacts
<1>7. Moves(s, t, i, state, timeout)
  BY <1>3, <1>6 DEF Moves, r, u, d
<1>. QED BY <1>7 DEF t

\* release() of receiver i: its message is free again; a receiver may be unblocked.
Releases(s, t, i) ==
  /\ t \in HandlerState /\ t.list = s.list /\ t.stop = s.stop /\ t.processing = s.processing
  /\ t.delivered = s.delivered /\ t.sender = s.sender /\ t.untold = s.untold
  /\ t.updated = s.updated
  /\ t.released = s.released + 1 /\ t.free = s.free + Held(s.rx[i])
  /\ \A k \in Ids \ {i} : Alike(t.rx[k], s.rx[k])

\* What release() does.
LEMMA ReleaseFacts ==
  ASSUME NEW s \in HandlerState, NEW i \in Ids, NEW t, t = Release(s, i)
  PROVE  Releases(s, t, i) /\ Alike(t.rx[i], [s.rx[i] EXCEPT !.message = FALSE])
<1>. DEFINE waiting == First(s.list, {k \in OfAddress(s, s.rx[i].address) : s.rx[k].blocked})
            r == [s.rx[i] EXCEPT !.message = FALSE]
            x == [s.rx EXCEPT ![i] = r]
            f == s.free + Held(s.rx[i])
            n == s.released + 1
            gone == [s EXCEPT !.rx = x, !.free = f, !.released = n]
            w == CHOOSE k \in waiting : TRUE
            y == [x EXCEPT ![w] = [x[w] EXCEPT !.blocked = FALSE]]
<1>1. s.rx \in [Ids -> Receiver] /\ s.free \in Nat /\ s.released \in Nat /\ s.list \in Seq(Ids)
  BY DEF HandlerState
<1>2. r \in Receiver
  BY ZenonT(60), <1>1 DEF Receiver
<1>3. f \in Nat /\ n \in Nat
  BY <1>1 DEF Held
<1>4. t = IF waiting = {} THEN gone ELSE [gone EXCEPT !.rx[w].blocked = FALSE]
  <2>. DEFINE g == [s EXCEPT !.free = IF s.rx[i].message THEN @ + 1 ELSE @, !.rx[i].message = FALSE,
                             !.released = @ + 1]
  <2>1. t = IF waiting = {} THEN g ELSE [g EXCEPT !.rx[w].blocked = FALSE]
    BY DEF Release
  <2>2. g = gone
    <3>1. f = IF s.rx[i].message THEN s.free + 1 ELSE s.free
      BY <1>1 DEF Held
    <3>. QED BY <3>1 DEF HandlerState
  <2>. HIDE DEF g, gone, waiting, w
  <2>. QED BY <2>1, <2>2
<1>5. \A k \in waiting : k \in Ids
  <2>1. \A j \in DOMAIN s.list : s.list[j] \in Ids
    BY <1>1
  <2>. QED BY <2>1 DEF First
<1>6. x \in [Ids -> Receiver] /\ x[i] = r /\ \A k \in Ids \ {i} : x[k] = s.rx[k]
  BY <1>1, <1>2
<1>. HIDE DEF waiting, x, f, n, r
<1>7. /\ gone \in HandlerState /\ gone.list = s.list /\ gone.stop = s.stop
      /\ gone.processing = s.processing /\ gone.delivered = s.delivered /\ gone.sender = s.sender
      /\ gone.untold = s.untold /\ gone.updated = s.updated
      /\ gone.released = n /\ gone.free = f /\ gone.rx = x
  BY <1>3, <1>6 DEF HandlerState
<1>. HIDE DEF gone
<1>8. CASE waiting = {}
  <2>1. \A k \in Ids \ {i} : Alike(x[k], s.rx[k])
    BY <1>1, <1>6, AlikeTransitive
  <2>2. Alike(x[i], r)
    BY <1>2, <1>6, AlikeTransitive
  <2>. QED BY <1>4, <1>7, <1>8, <2>1, <2>2 DEF Releases, n, f, r
<1>9. CASE waiting # {}
  <2>1. w \in Ids
    BY <1>5, <1>9
  <2>. HIDE DEF w
  <2>2. [x[w] EXCEPT !.blocked = FALSE] \in Receiver
    BY ZenonT(60), <1>6, <2>1 DEF Receiver
  <2>3. y \in [Ids -> Receiver]
    BY <1>6, <2>1, <2>2
  <2>4. \A k \in Ids : Alike(y[k], x[k])
    <3>1. Alike(y[w], x[w])
      BY <1>6, <2>1 DEF Alike, Receiver
    <3>2. \A k \in Ids \ {w} : y[k] = x[k] /\ Alike(x[k], x[k])
      BY <1>6, AlikeTransitive
    <3>. QED BY <3>1, <3>2
  <2>5. t = [gone EXCEPT !.rx = y]
    BY <1>4, <1>7, <1>9 DEF HandlerState
  <2>. HIDE DEF y
  <2>6. /\ t \in HandlerState /\ t.list = s.list /\ t.stop = s.stop
        /\ t.processing = s.processing /\ t.delivered = s.delivered /\ t.sender = s.sender
        /\ t.untold = s.untold /\ t.updated = s.updated
        /\ t.released = n /\ t.free = f /\ t.rx = y
    BY <1>7, <2>3, <2>5 DEF HandlerState
  <2>7. \A k \in Ids \ {i} : Alike(t.rx[k], s.rx[k])
    BY <1>6, <2>4, <2>6
  <2>8. Alike(t.rx[i], r)
    BY <1>6, <2>4, <2>6
  <2>. QED BY <2>6, <2>7, <2>8 DEF Releases, n, f, r
<1>. QED BY <1>8, <1>9

\* setDone() and release(): the reception ends.
LEMMA DoneFacts ==
  ASSUME NEW s \in HandlerState, NEW i \in Ids, NEW t, t = Done(s, i)
  PROVE  /\ Releases(s, t, i) /\ t.rx[i] \in Receiver
         /\ t.rx[i].state = "DONE" /\ ~t.rx[i].message /\ t.rx[i].address = s.rx[i].address
         /\ t.rx[i].frameCount = s.rx[i].frameCount /\ t.rx[i].content = s.rx[i].content
<1>. DEFINE r == [s.rx[i] EXCEPT !.allocating = FALSE]
            s1 == [s EXCEPT !.rx[i].allocating = FALSE]
            s2 == Transition(s1, i, "DONE", "NONE")
<1>1. s.rx[i] \in Receiver /\ s.updated \in BOOLEAN /\ s.free \in Nat
  BY DEF HandlerState
<1>2. r \in Receiver
  BY <1>1 DEF Receiver
<1>3. s1 = Put(s, i, r, s.updated, s.free)
  BY DEF HandlerState, Put
<1>. HIDE DEF r, s1
<1>4. Alone(s, s1, i) /\ s1.free = s.free /\ s1.sender = s.sender /\ s1.untold = s.untold
      /\ s1.updated = s.updated /\ s1.rx[i] = r
  BY <1>1, <1>2, <1>3, PutFacts
<1>5. "DONE" \in States /\ "NONE" \in Timeouts /\ s1 \in HandlerState
  BY <1>4 DEF States, Timeouts, Alone
<1>5a. s2 = Transition(s1, i, "DONE", "NONE")
  OBVIOUS
<1>. HIDE DEF s2
<1>6. Moves(s1, s2, i, "DONE", "NONE")
  BY <1>5, <1>5a, TransitionFacts
<1>6a. Alone(s1, s2, i)
  BY <1>6 DEF Moves
<1>7. s2 \in HandlerState /\ t = Release(s2, i)
  BY <1>6a DEF Alone, Done, s1, s2
<1>8. Releases(s2, t, i) /\ Alike(t.rx[i], [s2.rx[i] EXCEPT !.message = FALSE])
  BY <1>7, ReleaseFacts
<1>9. s2.updated = s.updated
  <2>1. s1.updated \in BOOLEAN
    BY <1>5 DEF HandlerState
  <2>. QED BY <1>4, <1>6, <2>1 DEF Moves
<1>10. t \in HandlerState /\ t.rx[i] \in Receiver
  BY <1>8 DEF Releases, HandlerState
<1>11. /\ s2.rx[i].state = "DONE" /\ s2.rx[i].address = s.rx[i].address
       /\ s2.rx[i].frameCount = s.rx[i].frameCount /\ s2.rx[i].content = s.rx[i].content
       /\ s2.rx[i].message = s.rx[i].message
  BY <1>1, <1>2, <1>4, <1>6 DEF Receiver, r, Moves
<1>12. /\ t.rx[i].state = "DONE" /\ ~t.rx[i].message /\ t.rx[i].address = s.rx[i].address
       /\ t.rx[i].frameCount = s.rx[i].frameCount /\ t.rx[i].content = s.rx[i].content
  <2>. DEFINE q == [s2.rx[i] EXCEPT !.message = FALSE]
  <2>1. /\ q \in Receiver /\ q.state = s2.rx[i].state /\ q.message = FALSE
        /\ q.address = s2.rx[i].address /\ q.frameCount = s2.rx[i].frameCount
        /\ q.content = s2.rx[i].content
    BY <1>6 DEF Receiver, Moves
  <2>. HIDE DEF q
  <2>2. Alike(t.rx[i], q)
    BY <1>8 DEF q
  <2>. QED BY <1>10, <1>11, <2>1, <2>2, AlikeFacts DEF Same
<1>13. \A k \in Ids \ {i} : Alike(t.rx[k], s.rx[k])
  BY <1>4, <1>6a, <1>8 DEF Alone, Releases
<1>14. t.free = s.free + Held(s.rx[i])
  BY <1>4, <1>6, <1>8, <1>11 DEF Releases, Held, Moves
<1>15. /\ t.list = s.list /\ t.stop = s.stop /\ t.processing = s.processing
       /\ t.delivered = s.delivered /\ t.sender = s.sender /\ t.untold = s.untold
       /\ t.released = s.released + 1 /\ t.updated = s.updated
  BY <1>4, <1>6, <1>8, <1>9 DEF Alone, Releases, Moves
<1>. QED BY <1>10, <1>12, <1>13, <1>14, <1>15 DEF Releases

\* From s to t receiver i has changed, but it has neither ended nor been handed over.
Prepares(s, t, i) ==
  /\ Serves(s, t, i) /\ t.rx[i] \in Receiver
  /\ t.processing = s.processing /\ t.delivered = s.delivered /\ t.released = s.released
  /\ t.free + Held(t.rx[i]) = s.free + Held(s.rx[i])

\* The reception has ended, and the message is free or has been handed over.
Ends(s, t, i, R) ==
  /\ Serves(s, t, i) /\ t.rx[i] \in Receiver
  /\ t.rx[i].state = "DONE" /\ ~t.rx[i].message /\ t.released = s.released + 1
  /\ \/ /\ t.processing = s.processing /\ t.delivered = s.delivered
        /\ t.free = s.free + Held(s.rx[i])
     \/ /\ t.processing = s.processing \cup {i}
        /\ t.delivered = Append(s.delivered, [id |-> i, address |-> s.rx[i].address,
                                              content |-> t.rx[i].content])
        /\ t.free + 1 = s.free + Held(s.rx[i])
        /\ s.rx[i].address \in R \/ Exact(t.rx[i].content, i)

\* It goes on.
Goes(s, t, i, R) ==
  /\ Prepares(s, t, i) /\ Sound(t.rx[i]) /\ t.rx[i].state # "ALLOCATE"
  /\ t.rx[i].state = "WAIT" => t.updated
  /\ t.rx[i].allocating => \/ t.rx[i].state = "WAIT" /\ t.rx[i].timer = AllocateTimeout
                           \/ t.rx[i].state = "SEND" /\ t.rx[i].address \in t.untold
  /\ Segmented(t.rx[i]) /\ t.rx[i].address \notin R =>
       Follows(t.rx[i], i, t.sender[t.rx[i].address])

Result(s, t, i, R) == Ends(s, t, i, R) \/ Goes(s, t, i, R)

\* Receiver r of message i with sender q may go on: it has been asked for a retry, or it has its
\* message and misses a frame.
Ready(r, i, q, R) ==
  /\ r.message <=> ~r.allocating
  /\ r.allocating => r.frameIndex = 1 /\ r.retry > 0
  /\ r.message => Segmented(r) /\ r.frameIndex < r.frameCount /\ r.retry = 0
  /\ Segmented(r) /\ r.address \notin R =>
       /\ q.id = i /\ q.frames = r.frameCount /\ r.frameIndex <= q.next
       /\ r.message => UpToDate(r, i, q)

\* Serving a receiver twice is serving it.
LEMMA ServesTransitive ==
  ASSUME NEW s \in HandlerState, NEW t, NEW u, NEW i \in Ids, Serves(s, t, i), Serves(t, u, i)
  PROVE  Serves(s, u, i)
<1>1. t \in HandlerState /\ u \in HandlerState
  BY DEF Serves
<1>2. \A k \in Ids \ {i} : Alike(u.rx[k], s.rx[k])
  <2>. SUFFICES ASSUME NEW k \in Ids \ {i} PROVE Alike(u.rx[k], s.rx[k])
    OBVIOUS
  <2>1. s.rx[k] \in Receiver /\ t.rx[k] \in Receiver /\ u.rx[k] \in Receiver
    BY <1>1 DEF HandlerState
  <2>2. Alike(u.rx[k], t.rx[k]) /\ Alike(t.rx[k], s.rx[k])
    BY DEF Serves
  <2>. QED BY <2>1, <2>2, AlikeTransitive
<1>. QED BY <1>1, <1>2 DEF Serves

\* A change of receiver i serves it, and prepares it if the messages are still there.
LEMMA AloneServes ==
  ASSUME NEW s \in HandlerState, NEW t, NEW i \in Ids, Alone(s, t, i),
         t.sender = s.sender, t.untold = s.untold, s.updated => t.updated,
         t.rx[i].address = s.rx[i].address, t.rx[i].frameCount = s.rx[i].frameCount
  PROVE  /\ Serves(s, t, i)
         /\ t.free + Held(t.rx[i]) = s.free + Held(s.rx[i]) => Prepares(s, t, i)
<1>1. t \in HandlerState /\ t.rx[i] \in Receiver
  BY DEF Alone, HandlerState
<1>2. \A k \in Ids \ {i} : Alike(t.rx[k], s.rx[k])
  <2>. SUFFICES ASSUME NEW k \in Ids \ {i} PROVE Alike(t.rx[k], s.rx[k])
    OBVIOUS
  <2>1. s.rx[k] \in Receiver /\ t.rx[k] = s.rx[k]
    BY DEF Alone, HandlerState
  <2>. QED BY <2>1, AlikeTransitive
<1>3. Serves(s, t, i)
  BY <1>1, <1>2 DEF Serves, Alone
<1>. QED BY <1>1, <1>3 DEF Prepares, Alone

\* Receiver q is r after a transition.
Moved(q, r, state, timeout) ==
  /\ q.state = state /\ q.timeout = timeout /\ q.timerSet = TRUE /\ q.timer = Duration(timeout)
  /\ q.frameIndex = r.frameIndex /\ q.frameCount = r.frameCount /\ q.address = r.address
  /\ q.retry = r.retry /\ q.allocating = r.allocating /\ q.message = r.message
  /\ q.content = r.content /\ q.blocked = r.blocked

\* A transition prepares it.
LEMMA MovesPrepares ==
  ASSUME NEW s \in HandlerState, NEW t, NEW i \in Ids, NEW state, NEW timeout,
         Moves(s, t, i, state, timeout)
  PROVE  Prepares(s, t, i) /\ t \in HandlerState /\ Moved(t.rx[i], s.rx[i], state, timeout)
<1>1. s.rx[i] \in Receiver /\ s.updated \in BOOLEAN
  BY DEF HandlerState
<1>2. Moved(t.rx[i], s.rx[i], state, timeout)
  BY <1>1 DEF Moves, Moved, Receiver
<1>3. /\ Alone(s, t, i) /\ t.free = s.free /\ t.sender = s.sender /\ t.untold = s.untold
      /\ t.updated = (s.updated \/ state # "DONE")
  BY DEF Moves
<1>4. t.free + Held(t.rx[i]) = s.free + Held(s.rx[i])
  BY <1>2, <1>3 DEF Held, Moved
<1>5. s.updated => t.updated
  BY <1>3
<1>6. Prepares(s, t, i)
  BY <1>2, <1>3, <1>4, <1>5, AloneServes DEF Moved
<1>. QED BY <1>2, <1>3, <1>6 DEF Alone

\* What has been prepared once more.
LEMMA PreparesTransitive ==
  ASSUME NEW s \in HandlerState, NEW t, NEW u, NEW i \in Ids, Prepares(s, t, i), Prepares(t, u, i)
  PROVE  Prepares(s, u, i)
<1>1. Serves(s, u, i)
  BY ServesTransitive DEF Prepares
<1>. QED BY <1>1 DEF Prepares

\* A result after a preparation.
LEMMA ResultAfter ==
  ASSUME NEW s \in HandlerState, NEW t, NEW u, NEW i \in Ids, NEW R, Prepares(s, t, i)
  PROVE  /\ Ends(t, u, i, R) => Ends(s, u, i, R)
         /\ Goes(t, u, i, R) => Goes(s, u, i, R)
<1>1. Goes(t, u, i, R) => Goes(s, u, i, R)
  BY PreparesTransitive DEF Goes
<1>2. ASSUME Ends(t, u, i, R) PROVE Ends(s, u, i, R)
  <2>1. Serves(s, u, i)
    BY <1>2, ServesTransitive DEF Prepares, Ends
  <2>2. /\ t.processing = s.processing /\ t.delivered = s.delivered /\ t.released = s.released
        /\ t.rx[i].address = s.rx[i].address
    BY DEF Prepares, Serves
  <2>3. /\ t.free + Held(t.rx[i]) = s.free + Held(s.rx[i])
        /\ u.free \in Nat /\ t.free \in Nat /\ s.free \in Nat
        /\ Held(t.rx[i]) \in Nat /\ Held(s.rx[i]) \in Nat
    BY <2>1 DEF Prepares, Serves, HandlerState, Held
  <2>4. CASE u.processing = t.processing /\ u.delivered = t.delivered /\ u.free = t.free + Held(t.rx[i])
    BY <1>2, <2>1, <2>2, <2>3, <2>4 DEF Ends
  <2>5. CASE /\ u.processing = t.processing \cup {i}
             /\ u.delivered = Append(t.delivered, [id |-> i, address |-> t.rx[i].address,
                                                   content |-> u.rx[i].content])
             /\ u.free + 1 = t.free + Held(t.rx[i])
             /\ t.rx[i].address \in R \/ Exact(u.rx[i].content, i)
    <3>1. u.free + 1 = s.free + Held(s.rx[i])
      BY <2>3, <2>5
    <3>. QED BY <1>2, <2>1, <2>2, <2>5, <3>1 DEF Ends
  <2>. QED BY <1>2, <2>4, <2>5 DEF Ends
<1>. QED BY <1>1, <1>2

\* A receiver that is ready waits.
LEMMA Waiting ==
  ASSUME NEW s \in HandlerState, NEW t, NEW i \in Ids, NEW R,
         Ready(s.rx[i], i, s.sender[s.rx[i].address], R),
         Moves(s, t, i, "WAIT", IF s.rx[i].allocating THEN "ALLOCATE" ELSE "RX")
  PROVE  Goes(s, t, i, R) /\ (s.rx[i].allocating => t.rx[i].allocating)
<1>. DEFINE timeout == IF s.rx[i].allocating THEN "ALLOCATE" ELSE "RX"
            r == s.rx[i]
            q == t.rx[i]
            x == s.sender[r.address]
<1>1. r \in Receiver /\ s.updated \in BOOLEAN
  BY DEF HandlerState
<1>. HIDE DEF timeout
<1>2. Moves(s, t, i, "WAIT", timeout)
  BY DEF timeout
<1>2a. Prepares(s, t, i) /\ t \in HandlerState /\ Moved(q, r, "WAIT", timeout)
  BY <1>2, MovesPrepares
<1>3. /\ Prepares(s, t, i) /\ t \in HandlerState
      /\ q.state = "WAIT" /\ q.timeout = timeout /\ q.timerSet = TRUE /\ q.timer = Duration(timeout)
      /\ q.frameIndex = r.frameIndex /\ q.frameCount = r.frameCount
      /\ q.address = r.address /\ q.retry = r.retry
      /\ q.allocating = r.allocating /\ q.message = r.message /\ q.content = r.content
  BY <1>2a DEF Moved
<1>4. t.updated
  BY <1>1, <1>2 DEF Moves
<1>5. r.allocating => timeout = "ALLOCATE" /\ q.timer = AllocateTimeout
  <2>1. r.allocating => timeout = "ALLOCATE"
    BY DEF timeout
  <2>2. Duration("ALLOCATE") = AllocateTimeout
    BY DEF Duration
  <2>. QED BY <1>3, <2>1, <2>2
<1>6. ~r.allocating => timeout = "RX"
  BY DEF timeout
<1>7. AllocateTimeout \in Nat
  BY ConstantFacts
<1>. DEFINE y == t.sender[q.address]
<1>8. y.id = x.id /\ y.next = x.next /\ y.frames = x.frames
  <2>1. r.address \in Addresses
    BY <1>1 DEF Receiver
  <2>. QED BY <1>3, <2>1 DEF Prepares, Serves
<1>9. Ready(r, i, x, R)
  OBVIOUS
<1>. HIDE DEF r, q, x, y
<1>10. Sound(q)
  BY <1>3, <1>5, <1>6, <1>7, <1>9 DEF Sound, Ready, Segmented
<1>11. Segmented(q) /\ q.address \notin R => Follows(q, i, y)
  BY <1>3, <1>8, <1>9 DEF Follows, Ready, Segmented, UpToDate
<1>12. q.allocating => q.state = "WAIT" /\ q.timer = AllocateTimeout
  BY <1>3, <1>5
<1>13. q.state # "ALLOCATE"
  BY <1>3
<1>. QED BY <1>3, <1>4, <1>10, <1>11, <1>12, <1>13 DEF Goes, q, y, r

\* sendFlowControlFrame(): the receiver goes on, or is stuck.
LEMMA SendFlowControlResult ==
  ASSUME NEW s \in HandlerState, NEW i \in Ids, NEW R, NEW e, NEW t, t = SendFlowControl(s, i, e),
         Ready(s.rx[i], i, s.sender[s.rx[i].address], R), Segmented(s.rx[i])
  PROVE  Goes(s, t, i, R) /\ (s.rx[i].allocating => t.rx[i].allocating)
<1>. DEFINE r == s.rx[i]
            x == s.sender[r.address]
            s1 == Transition(s, i, "SEND", "NONE")
            q == s1.rx[i]
<1>1. /\ r \in Receiver /\ s.updated \in BOOLEAN /\ s.untold \in SUBSET Addresses
      /\ s.sender \in [Addresses -> Sender]
  BY DEF HandlerState
<1>2. r.address \in Addresses /\ x \in Sender /\ r.retry \in Nat
  BY <1>1 DEF Receiver
<1>3. "SEND" \in States /\ "NONE" \in Timeouts /\ "WAIT" \in States /\ "RX" \in Timeouts /\ "ALLOCATE" \in Timeouts
  BY DEF States, Timeouts
<1>4. Moves(s, s1, i, "SEND", "NONE")
  BY <1>3, TransitionFacts
<1>. HIDE DEF s1
<1>4a. Prepares(s, s1, i) /\ s1 \in HandlerState /\ Moved(q, r, "SEND", "NONE")
  BY <1>4, MovesPrepares
<1>5. /\ Prepares(s, s1, i) /\ s1 \in HandlerState
      /\ q.state = "SEND" /\ q.timeout = "NONE"
      /\ q.frameIndex = r.frameIndex /\ q.frameCount = r.frameCount
      /\ q.address = r.address /\ q.retry = r.retry
      /\ q.allocating = r.allocating /\ q.message = r.message /\ q.content = r.content
  BY <1>4a DEF Moved
<1>6. s1.sender = s.sender /\ s1.untold = s.untold
  BY <1>4 DEF Moves
<1>7. Ready(q, i, x, R) /\ Segmented(q)
  BY <1>5 DEF Ready, Segmented, UpToDate
<1>8. t = IF i \in e.unsent
          THEN [s1 EXCEPT !.untold = IF IsFlowControlWait(r) THEN @ \cup {r.address} ELSE @]
          ELSE IF IsFlowControlWait(r) THEN Transition(s1, i, "WAIT", "ALLOCATE")
          ELSE Transition([s1 EXCEPT !.sender[r.address].credit = Credit], i, "WAIT", "RX")
  BY Zenon DEF SendFlowControl, s1
<1>. HIDE DEF x, r, q
<1>9. IsFlowControlWait(r) <=> q.allocating
  BY <1>2, <1>5, <1>7 DEF IsFlowControlWait, Ready, Segmented
<1>10. CASE i \in e.unsent
  <2>. DEFINE w == IF IsFlowControlWait(r) THEN s1.untold \cup {r.address} ELSE s1.untold
  <2>1. w \in SUBSET Addresses /\ s1.untold \subseteq w /\ (q.allocating => r.address \in w)
    BY <1>1, <1>2, <1>6, <1>9
  <2>2. t = [s1 EXCEPT !.untold = w]
    BY <1>8, <1>10
  <2>. HIDE DEF w
  <2>3. /\ t \in HandlerState /\ t.untold = w /\ t.rx = s1.rx /\ t.list = s1.list /\ t.stop = s1.stop
        /\ t.processing = s1.processing /\ t.delivered = s1.delivered /\ t.released = s1.released
        /\ t.free = s1.free /\ t.sender = s1.sender /\ t.updated = s1.updated
    BY <1>5, <2>1, <2>2 DEF HandlerState
  <2>4. Prepares(s, t, i)
    BY <1>5, <2>1, <2>3 DEF Prepares, Serves
  <2>5. Sound(q)
    BY <1>5, <1>7 DEF Sound, Ready
  <2>6. Segmented(q) /\ q.address \notin R => Follows(q, i, x)
    BY <1>5, <1>7 DEF Follows, Ready
  <2>7. t.rx[i] = q /\ t.sender[q.address] = x
    BY <1>5, <1>6, <2>3 DEF q, x
  <2>. QED BY <1>5, <2>1, <2>3, <2>4, <2>5, <2>6, <2>7 DEF Goes, r
<1>11. CASE i \notin e.unsent /\ IsFlowControlWait(r)
  <2>1. t = Transition(s1, i, "WAIT", "ALLOCATE")
    BY <1>8, <1>11
  <2>2. Moves(s1, t, i, "WAIT", "ALLOCATE")
    BY <1>3, <1>5, <2>1, TransitionFacts
  <2>3. Moves(s1, t, i, "WAIT", IF s1.rx[i].allocating THEN "ALLOCATE" ELSE "RX")
    BY <1>9, <1>11, <2>2 DEF q
  <2>4. Ready(s1.rx[i], i, s1.sender[s1.rx[i].address], R)
    BY <1>5, <1>6, <1>7 DEF q, x
  <2>5. Goes(s1, t, i, R) /\ (s1.rx[i].allocating => t.rx[i].allocating)
    BY <1>5, <2>3, <2>4, Waiting
  <2>. QED BY <1>5, <2>5, ResultAfter DEF q, r
<1>12. CASE i \notin e.unsent /\ ~IsFlowControlWait(r)
  <2>. DEFINE c == [s.sender EXCEPT ![r.address] = [x EXCEPT !.credit = Credit]]
              s2 == [s1 EXCEPT !.sender = c]
  <2>1. Credit \in Nat
    BY ConstantFacts, MaxFramesFacts DEF Credit
  <2>2. [x EXCEPT !.credit = Credit] \in Sender
    BY <1>2, <2>1 DEF Sender
  <2>3. c \in [Addresses -> Sender]
    BY <1>1, <2>2
  <2>4. \A a \in Addresses : /\ c[a].id = s.sender[a].id /\ c[a].next = s.sender[a].next
                             /\ c[a].frames = s.sender[a].frames
    <3>1. [x EXCEPT !.credit = Credit].id = x.id /\ [x EXCEPT !.credit = Credit].next = x.next
          /\ [x EXCEPT !.credit = Credit].frames = x.frames
      BY <1>2 DEF Sender
    <3>2. c[r.address] = [x EXCEPT !.credit = Credit] /\ \A a \in Addresses \ {r.address} : c[a] = s.sender[a]
      BY <1>1, <1>2
    <3>. HIDE DEF c
    <3>. QED BY <3>1, <3>2 DEF x
  <2>5. [s1 EXCEPT !.sender[r.address].credit = Credit] = s2
    BY <1>5, <1>6 DEF HandlerState, x
  <2>6. t = Transition(s2, i, "WAIT", "RX")
    BY <1>8, <1>12, <2>5
  <2>. HIDE DEF c
  <2>7. /\ s2 \in HandlerState /\ s2.sender = c /\ s2.rx = s1.rx /\ s2.list = s1.list
        /\ s2.stop = s1.stop /\ s2.untold = s1.untold
        /\ s2.processing = s1.processing /\ s2.delivered = s1.delivered
        /\ s2.released = s1.released /\ s2.free = s1.free /\ s2.updated = s1.updated
    BY <1>5, <2>3 DEF HandlerState
  <2>. HIDE DEF s2
  <2>8. Prepares(s, s2, i)
    BY <1>5, <2>4, <2>7 DEF Prepares, Serves
  <2>9. ~s2.rx[i].allocating
    BY <1>9, <1>12, <2>7 DEF q
  <2>10. Moves(s2, t, i, "WAIT", "RX")
    BY <1>3, <2>6, <2>7, TransitionFacts
  <2>11. Moves(s2, t, i, "WAIT", IF s2.rx[i].allocating THEN "ALLOCATE" ELSE "RX")
    BY <2>9, <2>10
  <2>12. Ready(s2.rx[i], i, s2.sender[s2.rx[i].address], R)
    <3>. DEFINE y == s2.sender[s2.rx[i].address]
    <3>1. y.id = x.id /\ y.next = x.next /\ y.frames = x.frames /\ s2.rx[i] = q
      BY <1>2, <1>5, <2>4, <2>7 DEF q, x
    <3>. HIDE DEF y
    <3>2. Ready(q, i, y, R)
      BY <1>7, <3>1 DEF Ready, UpToDate
    <3>. QED BY <3>1, <3>2 DEF y
  <2>13. Goes(s2, t, i, R) /\ (s2.rx[i].allocating => t.rx[i].allocating)
    BY <2>7, <2>11, <2>12, Waiting
  <2>. QED BY <1>5, <2>7, <2>8, <2>13, ResultAfter DEF q, r
<1>. QED BY <1>10, <1>11, <1>12

\* setDone() and release() end a reception, and nothing is handed over.
LEMMA DoneEnds ==
  ASSUME NEW s \in HandlerState, NEW i \in Ids, NEW R, NEW t, t = Done(s, i)
  PROVE  /\ Ends(s, t, i, R) /\ t.sender = s.sender /\ t.untold = s.untold
         /\ t.processing = s.processing /\ t.delivered = s.delivered
<1>1. /\ Releases(s, t, i) /\ t.rx[i] \in Receiver
      /\ t.rx[i].state = "DONE" /\ ~t.rx[i].message /\ t.rx[i].address = s.rx[i].address
      /\ t.rx[i].frameCount = s.rx[i].frameCount /\ t.rx[i].content = s.rx[i].content
  BY DoneFacts
<1>2. Serves(s, t, i)
  BY <1>1 DEF Serves, Releases
<1>. QED BY <1>1, <1>2 DEF Ends, Releases

\* startProcessingTransportMessage(): the message is handed over or free again.
LEMMA StartProcessingEnds ==
  ASSUME NEW s \in HandlerState, NEW i \in Ids, NEW R, NEW e, NEW t, t = StartProcessing(s, i, e),
         s.rx[i].message, s.rx[i].address \in R \/ Exact(s.rx[i].content, i)
  PROVE  Ends(s, t, i, R)
<1>. DEFINE r == s.rx[i]
            s1 == Transition(s, i, "PROCESSING", "NONE")
            q == [s1.rx[i] EXCEPT !.message = FALSE]
            s2 == [s1 EXCEPT !.rx[i].message = FALSE]
            d == [id |-> i, address |-> r.address, content |-> r.content]
            s3 == IF i \in e.rejects THEN [s2 EXCEPT !.free = @ + 1]
                  ELSE [s2 EXCEPT !.processing = @ \cup {i}, !.delivered = Append(@, d)]
<1>1. r \in Receiver /\ s.free \in Nat /\ s.updated \in BOOLEAN /\ s.delivered \in Seq(Message)
  BY DEF HandlerState
<1>2. "PROCESSING" \in States /\ "NONE" \in Timeouts
  BY DEF States, Timeouts
<1>3. Moves(s, s1, i, "PROCESSING", "NONE")
  BY <1>2, TransitionFacts
<1>4. t = Done(s3, i)
  BY Zenon DEF StartProcessing
<1>. HIDE DEF s1
<1>5. Prepares(s, s1, i) /\ s1 \in HandlerState /\ Moved(s1.rx[i], r, "PROCESSING", "NONE")
  BY <1>3, MovesPrepares
<1>6. s1.rx[i] \in Receiver /\ s1.updated \in BOOLEAN /\ s1.free \in Nat /\ s1.free = s.free
  BY <1>3, <1>5 DEF HandlerState, Moves
<1>7. q \in Receiver /\ q.message = FALSE /\ q.address = r.address /\ q.frameCount = r.frameCount
      /\ q.content = r.content
  BY <1>5, <1>6 DEF Receiver, Moved
<1>8. s2 = Put(s1, i, q, s1.updated, s1.free)
  BY <1>5 DEF HandlerState, Put
<1>. HIDE DEF q, s2
<1>9. Alone(s1, s2, i) /\ s2.free = s1.free /\ s2.sender = s1.sender /\ s2.untold = s1.untold
      /\ s2.updated = s1.updated /\ s2.rx[i] = q
  BY <1>5, <1>6, <1>7, <1>8, PutFacts
<1>10. Serves(s1, s2, i) /\ s2 \in HandlerState
  <2>1. q.address = s1.rx[i].address /\ q.frameCount = s1.rx[i].frameCount
    BY <1>5, <1>7 DEF Moved
  <2>2. s1.updated => s2.updated
    BY <1>9
  <2>3. Serves(s1, s2, i)
    BY <1>5, <1>9, <2>1, <2>2, AloneServes
  <2>. QED BY <2>3 DEF Serves
<1>11. Serves(s, s2, i)
  BY <1>5, <1>10, ServesTransitive DEF Prepares
<1>12. /\ s2.processing = s.processing /\ s2.delivered = s.delivered /\ s2.released = s.released
       /\ s2.free = s.free /\ s2.free \in Nat
  BY <1>5, <1>6, <1>9 DEF Alone, Prepares
<1>13. d \in Message
  BY <1>1 DEF Message, Receiver
<1>14. Append(s.delivered, d) \in Seq(Message) /\ s.processing \cup {i} \in SUBSET Ids
  BY <1>1, <1>13 DEF HandlerState
<1>15. Held(r) = 1 /\ Held(q) = 0
  BY <1>7 DEF Held
<1>16. CASE i \in e.rejects
  <2>. DEFINE f == s2.free + 1
  <2>1. s3 = [s2 EXCEPT !.free = f] /\ f \in Nat
    BY <1>12, <1>16
  <2>. HIDE DEF s3, f
  <2>2. /\ s3 \in HandlerState /\ s3.free = f /\ s3.rx = s2.rx /\ s3.list = s2.list
        /\ s3.stop = s2.stop /\ s3.processing = s2.processing /\ s3.delivered = s2.delivered
        /\ s3.released = s2.released /\ s3.sender = s2.sender /\ s3.untold = s2.untold
        /\ s3.updated = s2.updated
    BY <1>10, <2>1 DEF HandlerState
  <2>3. Serves(s, s3, i)
    BY <1>11, <2>2 DEF Serves
  <2>4. Ends(s3, t, i, R) /\ t.processing = s3.processing /\ t.delivered = s3.delivered
    BY <1>4, <2>2, DoneEnds
  <2>5. Serves(s, t, i)
    BY <2>3, <2>4, ServesTransitive DEF Ends
  <2>6. t.free = s3.free + Held(s3.rx[i])
    BY <1>4, <2>2, DoneFacts DEF Releases
  <2>7. t.free = s.free + Held(r)
    BY <1>9, <1>12, <1>15, <2>2, <2>6 DEF f
  <2>. QED BY <1>12, <2>2, <2>4, <2>5, <2>7 DEF Ends
<1>17. CASE i \notin e.rejects
  <2>. DEFINE p == s.processing \cup {i}
              v == Append(s.delivered, d)
  <2>1. s3 = [s2 EXCEPT !.processing = p, !.delivered = v]
    BY <1>12, <1>17
  <2>. HIDE DEF s3, p, v, d
  <2>2. /\ s3 \in HandlerState /\ s3.free = s2.free /\ s3.rx = s2.rx /\ s3.list = s2.list
        /\ s3.stop = s2.stop /\ s3.processing = p /\ s3.delivered = v
        /\ s3.released = s2.released /\ s3.sender = s2.sender /\ s3.untold = s2.untold
        /\ s3.updated = s2.updated
    BY <1>10, <1>14, <2>1 DEF HandlerState, p, v
  <2>3. Serves(s, s3, i)
    BY <1>11, <2>2 DEF Serves
  <2>4. Ends(s3, t, i, R) /\ t.processing = s3.processing /\ t.delivered = s3.delivered
    BY <1>4, <2>2, DoneEnds
  <2>5. Serves(s, t, i)
    BY <2>3, <2>4, ServesTransitive DEF Ends
  <2>6. t.free = s3.free + Held(s3.rx[i]) /\ t.rx[i].content = s3.rx[i].content
    BY <1>4, <2>2, DoneFacts DEF Releases
  <2>7. t.free + 1 = s.free + Held(r) /\ t.rx[i].content = r.content
    BY <1>7, <1>9, <1>12, <1>15, <2>2, <2>6
  <2>8. t.processing = s.processing \cup {i}
    BY <2>2, <2>4 DEF p
  <2>9. t.delivered = Append(s.delivered, [id |-> i, address |-> s.rx[i].address,
                                           content |-> t.rx[i].content])
    BY <2>2, <2>4, <2>7 DEF v, d
  <2>10. t.released = s.released + 1
    BY <1>12, <2>2, <2>4 DEF Ends
  <2>. QED BY <2>4, <2>5, <2>7, <2>8, <2>9, <2>10 DEF Ends
<1>. QED BY <1>16, <1>17

\* Receiver r of message i with sender q has no transport message yet.
Asks(r, i, q, R) ==
  /\ r.allocating /\ ~r.message /\ r.frameIndex = 1
  /\ Segmented(r) /\ r.address \notin R => q.id = i /\ q.frames = r.frameCount /\ 1 <= q.next

\* allocated() with a message.
LEMMA AllocatedMessage ==
  ASSUME NEW s \in HandlerState, NEW i \in Ids, NEW R, NEW e, NEW t,
         t = Allocated(s, i, TRUE, e), Asks(s.rx[i], i, s.sender[s.rx[i].address], R), s.free > 0
  PROVE  /\ Result(s, t, i, R)
         /\ ~Segmented(s.rx[i]) => Ends(s, t, i, R)
<1>. DEFINE r == s.rx[i]
            x == s.sender[r.address]
            c == <<[of |-> i, index |-> 0]>>
            q == [r EXCEPT !.allocating = FALSE, !.retry = 0, !.message = TRUE, !.content = c]
            s2 == [s EXCEPT !.rx[i] = [@ EXCEPT !.allocating = FALSE, !.retry = 0, !.message = TRUE,
                                                !.content = <<[of |-> i, index |-> 0]>>],
                            !.free = @ - 1]
            f == s.free - 1
<1>1. r \in Receiver /\ s.free \in Nat /\ s.updated \in BOOLEAN /\ f \in Nat
  BY DEF HandlerState
<1>2. c \in Seq(Frame) /\ Len(c) = 1 /\ Exact(c, i)
  <2>1. [of |-> i, index |-> 0] \in Frame
    BY MaxFramesFacts DEF Frame
  <2>2. DOMAIN c = {1} /\ c[1] = [of |-> i, index |-> 0]
    OBVIOUS
  <2>3. \A n \in DOMAIN c : c[n] = [of |-> i, index |-> n - 1]
    BY <2>2
  <2>. QED BY <2>1, <2>3 DEF Exact
<1>3. t = IF Segmented(r) THEN SendFlowControl(s2, i, e) ELSE StartProcessing(s2, i, e)
  BY Zenon DEF Allocated
<1>4. s2 = Put(s, i, q, s.updated, f)
  BY DEF HandlerState, Put
<1>. HIDE DEF c, s2
<1>5. /\ q \in Receiver /\ q.address = r.address /\ q.frameCount = r.frameCount
      /\ q.frameIndex = r.frameIndex /\ q.allocating = FALSE /\ q.message = TRUE /\ q.retry = 0
      /\ q.content = c
  BY <1>1, <1>2 DEF Receiver
<1>. HIDE DEF q, f
<1>6. Alone(s, s2, i) /\ s2.free = f /\ s2.sender = s.sender /\ s2.untold = s.untold
      /\ s2.updated = s.updated /\ s2.rx[i] = q
  BY <1>1, <1>4, <1>5, PutFacts
<1>7. Asks(r, i, x, R)
  OBVIOUS
<1>8. s2.free + Held(q) = s.free + Held(r)
  BY <1>1, <1>5, <1>6, <1>7 DEF Held, f, Asks
<1>9. s2 \in HandlerState /\ Prepares(s, s2, i)
  <2>1. s.updated => s2.updated
    BY <1>6
  <2>2. s2 \in HandlerState
    BY <1>6 DEF Alone
  <2>. QED BY <1>5, <1>6, <1>8, <2>1, <2>2, AloneServes
<1>10. CASE Segmented(r)
  <2>1. Ready(q, i, x, R) /\ Segmented(q)
    BY <1>1, <1>2, <1>5, <1>7, <1>10 DEF Ready, Asks, Segmented, UpToDate, Receiver
  <2>2. Ready(s2.rx[i], i, s2.sender[s2.rx[i].address], R) /\ Segmented(s2.rx[i])
    BY <1>5, <1>6, <2>1
  <2>3. t = SendFlowControl(s2, i, e)
    BY <1>3, <1>10
  <2>4. Goes(s2, t, i, R)
    BY <1>9, <2>2, <2>3, SendFlowControlResult
  <2>. QED BY <1>9, <1>10, <2>4, ResultAfter DEF Result
<1>11. CASE ~Segmented(r)
  <2>1. t = StartProcessing(s2, i, e)
    BY <1>3, <1>11
  <2>2. s2.rx[i].message /\ Exact(s2.rx[i].content, i)
    BY <1>2, <1>5, <1>6
  <2>3. Ends(s2, t, i, R)
    BY <1>9, <2>1, <2>2, StartProcessingEnds
  <2>. QED BY <1>9, <2>3, ResultAfter DEF Result
<1>. QED BY <1>10, <1>11

\* allocated() without a message: it is tried again, but for a single frame only once.
LEMMA AllocatedNothing ==
  ASSUME NEW s \in HandlerState, NEW i \in Ids, NEW R, NEW e, NEW t,
         t = Allocated(s, i, FALSE, e), Asks(s.rx[i], i, s.sender[s.rx[i].address], R)
  PROVE  /\ Result(s, t, i, R) /\ t.delivered = s.delivered
         /\ t.rx[i].state = "DONE" \/ t.rx[i].allocating
         /\ ~Segmented(s.rx[i]) /\ s.rx[i].retry > 0 => Ends(s, t, i, R)
<1>. DEFINE r == s.rx[i]
            x == s.sender[r.address]
            s1 == [s EXCEPT !.rx[i].retry = @ + 1]
            n == r.retry + 1
            q == [r EXCEPT !.retry = n]
            limit == IF Segmented(r) THEN MaxRetry ELSE 1
<1>1. r \in Receiver /\ s.free \in Nat /\ s.updated \in BOOLEAN
  BY DEF HandlerState
<1>2. n \in Nat /\ n > 0 /\ r.retry \in Nat
  BY <1>1 DEF Receiver
<1>3. t = IF n > limit THEN Done(s1, i)
          ELSE IF Segmented(r) THEN SendFlowControl(s1, i, e)
          ELSE Transition(s1, i, "WAIT", "ALLOCATE")
  BY Zenon DEF Allocated
<1>4. s1 = Put(s, i, q, s.updated, s.free)
  BY DEF HandlerState, Put
<1>. HIDE DEF n, s1
<1>5. /\ q \in Receiver /\ q.address = r.address /\ q.frameCount = r.frameCount
      /\ q.frameIndex = r.frameIndex /\ q.allocating = r.allocating /\ q.message = r.message /\ q.retry = n
  BY <1>1, <1>2 DEF Receiver
<1>. HIDE DEF q
<1>6. Alone(s, s1, i) /\ s1.free = s.free /\ s1.sender = s.sender /\ s1.untold = s.untold
      /\ s1.updated = s.updated /\ s1.rx[i] = q
  BY <1>1, <1>4, <1>5, PutFacts
<1>7. Asks(r, i, x, R)
  OBVIOUS
<1>8. s1 \in HandlerState /\ Prepares(s, s1, i)
  <2>1. s.updated => s1.updated
    BY <1>6
  <2>2. s1 \in HandlerState /\ s1.free + Held(q) = s.free + Held(r)
    BY <1>5, <1>6 DEF Alone, Held
  <2>. QED BY <1>5, <1>6, <2>1, <2>2, AloneServes
<1>9. s1.delivered = s.delivered
  BY <1>8 DEF Prepares
<1>10. Ready(q, i, x, R)
  BY <1>2, <1>5, <1>7 DEF Ready, Asks, Segmented
<1>11. Ready(s1.rx[i], i, s1.sender[s1.rx[i].address], R)
  BY <1>5, <1>6, <1>10
<1>12. CASE n > limit
  <2>1. Ends(s1, t, i, R) /\ t.delivered = s1.delivered
    <3>1. t = Done(s1, i)
      BY ONLY <1>3, <1>12
    <3>2. s1 \in HandlerState
      BY <1>8
    <3>. QED BY ONLY i \in Ids, <3>1, <3>2, DoneEnds
  <2>2. Ends(s, t, i, R)
    BY <1>8, <2>1, ResultAfter
  <2>. QED BY <1>9, <2>1, <2>2 DEF Result, Ends
<1>13. CASE ~(n > limit) /\ Segmented(r)
  <2>1. t = SendFlowControl(s1, i, e) /\ Segmented(s1.rx[i])
    BY <1>3, <1>5, <1>6, <1>13 DEF Segmented
  <2>2. Goes(s1, t, i, R) /\ (s1.rx[i].allocating => t.rx[i].allocating)
    BY <1>8, <1>11, <2>1, SendFlowControlResult
  <2>3. Goes(s, t, i, R)
    BY <1>8, <2>2, ResultAfter
  <2>4. t.delivered = s.delivered
    BY <2>3 DEF Goes, Prepares
  <2>5. t.rx[i].allocating
    BY <1>5, <1>6, <1>7, <2>2 DEF Asks
  <2>. QED BY <1>13, <2>3, <2>4, <2>5 DEF Result
<1>14. CASE ~(n > limit) /\ ~Segmented(r)
  <2>1. t = Transition(s1, i, "WAIT", "ALLOCATE")
    BY <1>3, <1>14
  <2>2. "WAIT" \in States /\ "ALLOCATE" \in Timeouts
    BY DEF States, Timeouts
  <2>3. Moves(s1, t, i, "WAIT", "ALLOCATE")
    BY <1>8, <2>1, <2>2, TransitionFacts
  <2>4. s1.rx[i].allocating
    BY <1>5, <1>6, <1>7 DEF Asks
  <2>5. Goes(s1, t, i, R) /\ (s1.rx[i].allocating => t.rx[i].allocating)
    BY <1>8, <1>11, <2>3, <2>4, Waiting
  <2>6. Goes(s, t, i, R)
    BY <1>8, <2>5, ResultAfter
  <2>7. t.delivered = s.delivered
    BY <2>6 DEF Goes, Prepares
  <2>8. ~(r.retry > 0)
    BY <1>2, <1>14 DEF n
  <2>. QED BY <2>4, <2>5, <2>6, <2>7, <2>8 DEF Result
<1>. QED BY <1>12, <1>13, <1>14

\* What asking for a message leads to: nothing, or a result.
AllocateOutcome(s, t, i, R, peek) ==
  \/ peek /\ t = s
  \/ /\ Result(s, t, i, R)
     /\ ~Segmented(s.rx[i]) /\ (peek \/ s.rx[i].retry > 0) => Ends(s, t, i, R)
     /\ s.rx[i].blocked => t.delivered = s.delivered /\ (t.rx[i].state = "DONE" \/ t.rx[i].allocating)

\* allocateTransportMessage(), asked for by a receiver that has none.
LEMMA AllocateResult ==
  ASSUME NEW s \in HandlerState, NEW i \in Ids, NEW R, NEW e, NEW peek \in BOOLEAN, NEW t,
         t = Allocate(s, i, peek, e), Asks(s.rx[i], i, s.sender[s.rx[i].address], R)
  PROVE  AllocateOutcome(s, t, i, R, peek)
<1>. DEFINE r == s.rx[i]
            found == ~r.blocked /\ s.free > 0
<1>1. r \in Receiver /\ r.blocked \in BOOLEAN /\ s.free \in Nat
  BY DEF HandlerState, Receiver
<1>2. t = IF ~r.blocked /\ <<r.address, r.frameCount>> \in Rejected THEN Done(s, i)
          ELSE IF ~found /\ peek THEN s ELSE Allocated(s, i, found, e)
  BY Zenon DEF Allocate
<1>3. CASE ~r.blocked /\ <<r.address, r.frameCount>> \in Rejected
  <2>1. t = Done(s, i)
    BY <1>2, <1>3
  <2>2. Ends(s, t, i, R) /\ t.delivered = s.delivered
    BY <2>1, DoneEnds
  <2>. QED BY <1>3, <2>2 DEF Result, AllocateOutcome
<1>4. CASE ~(~r.blocked /\ <<r.address, r.frameCount>> \in Rejected) /\ ~found /\ peek
  BY <1>2, <1>4 DEF AllocateOutcome
<1>5. CASE ~(~r.blocked /\ <<r.address, r.frameCount>> \in Rejected) /\ ~found /\ ~peek
  <2>1. t = Allocated(s, i, found, e) /\ found = FALSE
    BY <1>2, <1>5
  <2>2. t = Allocated(s, i, FALSE, e)
    BY <2>1
  <2>3. /\ Result(s, t, i, R) /\ t.delivered = s.delivered
        /\ t.rx[i].state = "DONE" \/ t.rx[i].allocating
        /\ ~Segmented(s.rx[i]) /\ s.rx[i].retry > 0 => Ends(s, t, i, R)
    BY <2>2, AllocatedNothing
  <2>. QED BY <1>5, <2>3 DEF AllocateOutcome
<1>6. CASE ~(~r.blocked /\ <<r.address, r.frameCount>> \in Rejected) /\ found
  <2>1. t = Allocated(s, i, found, e) /\ found = TRUE
    BY <1>2, <1>6
  <2>2. t = Allocated(s, i, TRUE, e) /\ s.free > 0 /\ ~s.rx[i].blocked
    BY <2>1
  <2>3. Result(s, t, i, R) /\ (~Segmented(s.rx[i]) => Ends(s, t, i, R))
    BY <2>2, AllocatedMessage
  <2>. QED BY <2>2, <2>3 DEF AllocateOutcome
<1>. QED BY <1>1, <1>3, <1>4, <1>5, <1>6

\* The sequence number is compared modulo 16: a frame that fits is the next one, or the receiver
\* is 16 frames behind and stays so.
LEMMA SequenceNumber ==
  ASSUME NEW x \in Nat, NEW y \in Nat \ {0}, x <= y, x % 16 = (y - 1) % 16
  PROVE  x = y - 1 \/ x + 17 <= y
<1>. DEFINE d == (y - 1) - x
<1>1. d \in Int /\ d >= -1
  OBVIOUS
<1>2. d % 16 = 0
  <2>1. (((y - 1) % 16) - (x % 16)) % 16 = ((y - 1) - x) % 16
    BY ModSum
  <2>2. ((y - 1) % 16) - (x % 16) = 0
    <3>1. x % 16 \in Int
      BY DivMod
    <3>. QED BY <3>1
  <2>3. 0 % 16 = 0
    OBVIOUS
  <2>. QED BY <2>1, <2>2, <2>3
<1>. HIDE DEF d
<1>3. d # -1
  <2>1. d = 16 * (d \div 16) + (d % 16) /\ d \div 16 \in Int
    BY <1>1, DivMod
  <2>. QED BY <1>2, <2>1
<1>4. ~(d \in 1 .. 15)
  <2>1. d \in 1 .. 15 => d % 16 = d
    BY <1>1, ModSmall
  <2>. QED BY <1>2, <2>1
<1>5. d = 0 \/ d >= 16
  BY <1>1, <1>3, <1>4
<1>. QED BY <1>5 DEF d

\* The message of receiver r grows by a frame, as far as it has room.
Grown(r, frame) == IF Len(r.content) < r.frameCount THEN Append(r.content, frame) ELSE r.content

\* An accepted frame is the next one of the message.
LEMMA NextFrameAccepted ==
  ASSUME NEW r \in Receiver, NEW i \in Ids, NEW q \in Sender, NEW frame \in Frame,
         UpToDate(r, i, q), r.frameIndex <= q.next, q.next >= 1, q.id = i,
         frame = [of |-> q.id, index |-> q.next - 1], r.frameIndex < r.frameCount,
         r.frameIndex % 16 = frame.index % 16
  PROVE  \/ r.frameIndex + 17 <= q.next
         \/ /\ r.frameIndex + 1 = q.next /\ Exact(Grown(r, frame), i)
            /\ Len(Grown(r, frame)) = r.frameIndex + 1
<1>1. /\ r.frameIndex \in Nat /\ r.content \in Seq(Frame) /\ r.frameCount \in Nat /\ q.next \in Nat
  <2>1. MaxFrames \in Nat /\ FrameCounts \subseteq Nat
    BY ConstantFacts, MaxFramesFacts
  <2>2. r.frameIndex \in 1 .. MaxFrames /\ r.content \in Seq(Frame) /\ r.frameCount \in FrameCounts
    BY DEF Receiver
  <2>3. q.next \in 0 .. MaxFrames
    BY DEF Sender
  <2>4. r.frameIndex \in Nat
    BY ONLY <2>1, <2>2
  <2>5. r.frameCount \in Nat
    BY ONLY <2>1, <2>2
  <2>6. q.next \in Nat
    BY ONLY <2>1, <2>3
  <2>. QED BY <2>2, <2>4, <2>5, <2>6
<1>2. frame.index = q.next - 1
  OBVIOUS
<1>3. r.frameIndex = q.next - 1 \/ r.frameIndex + 17 <= q.next
  <2>. DEFINE x == r.frameIndex  y == q.next
  <2>1. x \in Nat /\ y \in Nat \ {0} /\ x <= y /\ x % 16 = (y - 1) % 16
    BY <1>1, <1>2
  <2>. HIDE DEF x, y
  <2>2. x = y - 1 \/ x + 17 <= y
    BY <2>1, SequenceNumber
  <2>. QED BY <2>2 DEF x, y
<1>4. CASE r.frameIndex = q.next - 1
  <2>. DEFINE c == r.content  n == Len(c)
  <2>1. Exact(c, i) /\ n = r.frameIndex
    BY <1>1, <1>4 DEF UpToDate
  <2>2. n \in Nat /\ DOMAIN c = 1 .. n /\ c \in Seq(Frame)
    BY <1>1
  <2>. HIDE DEF n, c
  <2>3. /\ DOMAIN Append(c, frame) = 1 .. n + 1 /\ Len(Append(c, frame)) = n + 1
        /\ Append(c, frame)[n + 1] = frame /\ \A k \in 1 .. n : Append(c, frame)[k] = c[k]
    BY <2>2 DEF n
  <2>. DEFINE g == Append(c, frame)
  <2>4. frame = [of |-> i, index |-> (n + 1) - 1]
    BY <1>1, <1>4, <2>1, <2>2
  <2>. HIDE DEF g
  <2>5. \A k \in 1 .. n + 1 : k \in 1 .. n \/ k = n + 1
    BY <2>2
  <2>6. Exact(g, i)
    BY <2>1, <2>2, <2>3, <2>4, <2>5 DEF Exact, g
  <2>7. Grown(r, frame) = g
    BY <1>1, <2>1 DEF Grown, g, c, n
  <2>8. Len(Grown(r, frame)) = n + 1
    BY <2>3, <2>7 DEF g
  <2>. QED BY <1>1, <1>4, <2>1, <2>6, <2>7, <2>8
<1>. QED BY <1>3, <1>4

\* The frame a receiver r of message i gets: the last one its sender q has sent.
Sent(r, i, q, frame, R) ==
  r.address \notin R => /\ Follows(r, i, q) /\ q.next \in 1 .. q.frames
                        /\ frame = [of |-> q.id, index |-> q.next - 1]

\* Receiver q is of the same message as r.
Adjusts(q, r) == q.address = r.address /\ q.frameCount = r.frameCount /\ Held(q) = Held(r)

\* From s to t nothing but receiver i has changed, to q.
Adjusted(s, t, i, q) ==
  /\ Prepares(s, t, i) /\ t \in HandlerState /\ t.rx[i] = q
  /\ t.sender = s.sender /\ t.untold = s.untold /\ t.updated = s.updated /\ t.free = s.free

\* A change of nothing but receiver i.
LEMMA PutAdjusts ==
  ASSUME NEW s \in HandlerState, NEW i \in Ids, NEW q \in Receiver, Adjusts(q, s.rx[i])
  PROVE  Adjusted(s, Put(s, i, q, s.updated, s.free), i, q)
<1>. DEFINE t == Put(s, i, q, s.updated, s.free)
<1>1. s.updated \in BOOLEAN /\ s.free \in Nat
  BY DEF HandlerState
<1>2. Alone(s, t, i) /\ t.free = s.free /\ t.sender = s.sender /\ t.untold = s.untold
      /\ t.updated = s.updated /\ t.rx[i] = q
  BY <1>1, PutFacts
<1>. HIDE DEF t
<1>3. t.free + Held(t.rx[i]) = s.free + Held(s.rx[i])
  BY <1>2 DEF Adjusts
<1>4. s.updated => t.updated
  BY <1>2
<1>5. Prepares(s, t, i)
  BY <1>2, <1>3, <1>4, AloneServes DEF Adjusts
<1>6. Adjusted(s, t, i, q)
  BY <1>2, <1>5 DEF Alone, Adjusted
<1>. QED BY <1>6 DEF t

\* consecutiveFrameReceived() of a receiver that has a message.
LEMMA ConsecutiveFrameResult ==
  ASSUME NEW s \in HandlerState, NEW i \in Ids, NEW R, NEW e, NEW frame \in Frame, NEW t,
         t = ConsecutiveFrame(s, i, frame, e), Sound(s.rx[i]), s.rx[i].message,
         Sent(s.rx[i], i, s.sender[s.rx[i].address], frame, R)
  PROVE  Result(s, t, i, R)
<1>. DEFINE r == s.rx[i]
            x == s.sender[r.address]
            c == Grown(r, frame)
            endOfBlock == MaxBlockSize > 0 /\ r.blockIndex + 1 = MaxBlockSize
            s1 == [s EXCEPT !.rx[i].content = IF Len(@) < r.frameCount THEN Append(@, frame) ELSE @]
            s2 == [s1 EXCEPT !.rx[i].frameIndex = @ + 1]
            s3 == [s2 EXCEPT !.rx[i].blockIndex =
                               IF MaxBlockSize > 0 /\ ~endOfBlock THEN @ + 1 ELSE 0]
<1>1. r \in Receiver
  BY DEF HandlerState
<1>2. t = IF r.state # "WAIT" \/ r.timeout # "RX" THEN s1
          ELSE IF r.frameIndex % 16 # frame.index % 16 THEN Done(s, i)
          ELSE IF r.frameIndex + 1 = r.frameCount THEN StartProcessing(s2, i, e)
          ELSE IF endOfBlock THEN SendFlowControl(s3, i, e)
          ELSE Transition(s3, i, "WAIT", "RX")
  BY Zenon DEF ConsecutiveFrame
<1>3. /\ r.frameIndex \in Nat \ {0} /\ r.frameIndex < r.frameCount /\ r.frameCount \in FrameCounts
      /\ r.frameCount \in Nat /\ r.frameIndex + 1 \in 1 .. MaxFrames /\ r.blockIndex \in Nat
      /\ r.address \in Addresses /\ r.content \in Seq(Frame)
  <2>1. MaxFrames \in Nat /\ FrameCounts \subseteq Nat /\ \A n \in FrameCounts : n <= MaxFrames
    BY ConstantFacts, MaxFramesFacts
  <2>2. /\ r.frameIndex \in 1 .. MaxFrames /\ r.frameCount \in FrameCounts /\ r.blockIndex \in Nat
        /\ r.address \in Addresses /\ r.content \in Seq(Frame)
    BY <1>1 DEF Receiver
  <2>3. r.frameIndex < r.frameCount
    BY DEF Sound
  <2>4. r.frameCount \in Nat /\ r.frameCount <= MaxFrames
    BY <2>1, <2>2
  <2>. QED BY SMTT(60), <2>1, <2>2, <2>3, <2>4
<1>4. x \in Sender
  BY <1>3 DEF HandlerState
<1>5. c \in Seq(Frame)
  BY <1>3 DEF Grown
<1>. DEFINE r1 == [r EXCEPT !.content = c]
            f == r.frameIndex + 1
            r2 == [r1 EXCEPT !.frameIndex = f]
            b == IF MaxBlockSize > 0 /\ ~endOfBlock THEN r.blockIndex + 1 ELSE 0
            r3 == [r2 EXCEPT !.blockIndex = b]
\* What the receiver is after each of the assignments.
<1>6. /\ r1 \in Receiver /\ r1.content = c /\ r1.frameIndex = r.frameIndex
      /\ r1.state = r.state /\ r1.timeout = r.timeout /\ r1.retry = r.retry
      /\ r1.address = r.address /\ r1.frameCount = r.frameCount /\ r1.blockIndex = r.blockIndex
      /\ r1.allocating = r.allocating /\ r1.message = r.message
  BY <1>1, <1>5 DEF Receiver
<1>7. s1 = Put(s, i, r1, s.updated, s.free)
  <2>1. s1 = [s EXCEPT !.rx[i].content = c]
    BY Zenon DEF Grown
  <2>. HIDE DEF c
  <2>. QED BY <2>1 DEF HandlerState, Put
<1>. HIDE DEF r1, s1
<1>8. /\ Prepares(s, s1, i) /\ s1 \in HandlerState /\ s1.rx[i] = r1
      /\ s1.sender = s.sender /\ s1.untold = s.untold /\ s1.updated = s.updated /\ s1.free = s.free
  <2>1. Adjusts(r1, s.rx[i])
    BY <1>6 DEF Adjusts, Held
  <2>2. Adjusted(s, s1, i, r1)
    BY <1>6, <1>7, <2>1, PutAdjusts
  <2>. QED BY <2>2 DEF Adjusted
<1>. HIDE DEF f
<1>9. f \in 1 .. MaxFrames
  BY <1>3 DEF f
<1>10. /\ r2 \in Receiver /\ r2.content = c /\ r2.frameIndex = f
       /\ r2.retry = r.retry
       /\ r2.address = r.address /\ r2.frameCount = r.frameCount /\ r2.blockIndex = r.blockIndex
       /\ r2.allocating = r.allocating /\ r2.message = r.message
  BY <1>6, <1>9 DEF Receiver
<1>11. s2 = Put(s1, i, r2, s1.updated, s1.free)
  <2>1. s1.rx[i].frameIndex + 1 = f
    BY <1>6, <1>8 DEF f
  <2>2. s2 = [s1 EXCEPT !.rx[i].frameIndex = f]
    BY <1>8, <2>1 DEF HandlerState
  <2>. QED BY <1>8, <2>2 DEF HandlerState, Put
<1>. HIDE DEF r2, s2
<1>12. /\ Prepares(s1, s2, i) /\ s2 \in HandlerState /\ s2.rx[i] = r2
       /\ s2.sender = s1.sender /\ s2.untold = s1.untold /\ s2.updated = s1.updated /\ s2.free = s1.free
  <2>1. Adjusts(r2, s1.rx[i])
    BY <1>6, <1>8, <1>10 DEF Adjusts, Held
  <2>2. Adjusted(s1, s2, i, r2)
    BY <1>6, <1>8, <1>10, <1>11, <2>1, PutAdjusts
  <2>. QED BY <2>2 DEF Adjusted
<1>13. b \in Nat
  BY <1>3
<1>. HIDE DEF b
<1>14. /\ r3 \in Receiver /\ r3.content = c /\ r3.frameIndex = f /\ r3.retry = r.retry
       /\ r3.address = r.address /\ r3.frameCount = r.frameCount
       /\ r3.allocating = r.allocating /\ r3.message = r.message
  BY <1>10, <1>13 DEF Receiver
<1>15. s3 = Put(s2, i, r3, s2.updated, s2.free)
  <2>1. s3 = [s2 EXCEPT !.rx[i].blockIndex = b]
    <3>1. (IF MaxBlockSize > 0 /\ ~endOfBlock THEN s2.rx[i].blockIndex + 1 ELSE 0) = b
      BY <1>10, <1>12 DEF b
    <3>. HIDE DEF endOfBlock
    <3>. QED BY <1>12, <3>1 DEF HandlerState
  <2>. QED BY <1>12, <2>1 DEF HandlerState, Put
<1>. HIDE DEF r3, s3
<1>16. /\ Prepares(s2, s3, i) /\ s3 \in HandlerState /\ s3.rx[i] = r3
       /\ s3.sender = s2.sender /\ s3.untold = s2.untold /\ s3.updated = s2.updated /\ s3.free = s2.free
  <2>1. Adjusts(r3, s2.rx[i])
    BY <1>10, <1>12, <1>14 DEF Adjusts, Held
  <2>2. Adjusted(s2, s3, i, r3)
    BY <1>10, <1>12, <1>14, <1>15, <2>1, PutAdjusts
  <2>. QED BY <2>2 DEF Adjusted
<1>17. Prepares(s, s2, i) /\ Prepares(s, s3, i)
  BY <1>8, <1>12, <1>16, PreparesTransitive
<1>18. Sound(r) /\ r.message /\ ~r.allocating /\ Segmented(r) /\ r.retry = 0
  BY DEF Sound
<1>19. Sent(r, i, x, frame, R)
  OBVIOUS
<1>. HIDE DEF r, x, c
\* Nobody waits for the frame.
<1>20. CASE r.state # "WAIT" \/ r.timeout # "RX"
  <2>1. t = s1
    BY <1>2, <1>20
  <2>2. r.state = "SEND"
    BY <1>18, <1>20 DEF Sound
  <2>3. Sound(r1)
    BY <1>6, <1>18, <2>2 DEF Sound, Segmented
  <2>4. r1.address \notin R => Follows(r1, i, x)
    BY <1>6, <1>19, <2>2 DEF Sent, Follows
  <2>5. t.sender[t.rx[i].address] = x /\ t.rx[i] = r1
    BY <1>6, <1>8, <2>1 DEF x, r
  <2>. QED BY <1>6, <1>8, <1>18, <2>1, <2>2, <2>3, <2>4, <2>5 DEF Result, Goes
\* It is out of sequence.
<1>21. CASE /\ r.state = "WAIT" /\ r.timeout = "RX"
            /\ r.frameIndex % 16 # frame.index % 16
  <2>1. t = Done(s, i)
    BY <1>2, <1>21
  <2>. QED BY <2>1, DoneEnds DEF Result
\* It is the next one.
<1>22. CASE /\ r.state = "WAIT" /\ r.timeout = "RX"
            /\ r.frameIndex % 16 = frame.index % 16
  <2>1. r.address \notin R =>
          \/ r.frameIndex + 17 <= x.next
          \/ r.frameIndex + 1 = x.next /\ Exact(c, i) /\ Len(c) = r.frameIndex + 1
    <3>. SUFFICES ASSUME r.address \notin R
                  PROVE  \/ r.frameIndex + 17 <= x.next
                         \/ r.frameIndex + 1 = x.next /\ Exact(c, i) /\ Len(c) = r.frameIndex + 1
      OBVIOUS
    <3>1. /\ UpToDate(r, i, x) /\ r.frameIndex <= x.next /\ x.id = i /\ x.next >= 1
          /\ frame = [of |-> x.id, index |-> x.next - 1]
      BY <1>18, <1>19, <1>22 DEF Sent, Follows
    <3>2. r \in Receiver
      BY <1>1
    <3>. QED BY SMTT(60), <1>3, <1>4, <1>22, <3>1, <3>2, NextFrameAccepted DEF c
  <2>2. x.next \in Nat /\ f = r.frameIndex + 1
    <3>1. MaxFrames \in Nat
      BY MaxFramesFacts
    <3>. QED BY <1>4, <3>1 DEF Sender, f
  <2>3. r.address \notin R =>
          /\ x.id = i /\ x.frames = r.frameCount /\ x.next <= r.frameCount /\ f <= x.next
          /\ f + 16 <= x.next \/ (Exact(c, i) /\ Len(c) = f)
    <3>1. r.address \notin R => x.id = i /\ x.frames = r.frameCount /\ x.next \in 1 .. x.frames
      BY <1>19 DEF Sent, Follows
    <3>. QED BY <1>3, <2>1, <2>2, <3>1
  <2>4. CASE f = r.frameCount
    <3>1. t = StartProcessing(s2, i, e)
      BY <1>2, <1>22, <2>2, <2>4
    <3>2. r.address \notin R => Exact(c, i)
      BY <1>3, <2>2, <2>3, <2>4
    <3>3. s2.rx[i].message /\ (s2.rx[i].address \in R \/ Exact(s2.rx[i].content, i))
      BY <1>10, <1>12, <1>18, <3>2
    <3>4. Ends(s2, t, i, R)
      BY <1>12, <3>1, <3>3, StartProcessingEnds
    <3>. QED BY <1>17, <3>4, ResultAfter DEF Result
  <2>5. CASE f # r.frameCount
    <3>1. f < r.frameCount
      BY <1>3, <2>2, <2>5
    <3>2. Ready(r3, i, x, R) /\ Segmented(r3)
      BY <1>14, <1>18, <2>3, <3>1 DEF Ready, Segmented, UpToDate
    <3>3. s3.sender[s3.rx[i].address] = x
      BY <1>8, <1>12, <1>14, <1>16 DEF x, r
    <3>4. Ready(s3.rx[i], i, s3.sender[s3.rx[i].address], R) /\ Segmented(s3.rx[i])
      BY <1>16, <3>2, <3>3
    <3>5. CASE endOfBlock
      <4>1. t = SendFlowControl(s3, i, e)
        BY <1>2, <1>22, <2>2, <2>5, <3>5
      <4>2. Goes(s3, t, i, R)
        BY <1>16, <3>4, <4>1, SendFlowControlResult
      <4>. QED BY <1>17, <4>2, ResultAfter DEF Result
    <3>6. CASE ~endOfBlock
      <4>1. t = Transition(s3, i, "WAIT", "RX")
        BY <1>2, <1>22, <2>2, <2>5, <3>6
      <4>2. "WAIT" \in States /\ "RX" \in Timeouts
        BY DEF States, Timeouts
      <4>3. Moves(s3, t, i, "WAIT", "RX") /\ ~s3.rx[i].allocating
        BY <1>14, <1>16, <1>18, <4>1, <4>2, TransitionFacts
      <4>4. Goes(s3, t, i, R)
        BY <1>16, <3>4, <4>3, Waiting
      <4>. QED BY <1>17, <4>4, ResultAfter DEF Result
    <3>. QED BY <3>5, <3>6
  <2>. QED BY <2>4, <2>5
<1>. QED BY <1>20, <1>21, <1>22

\* The receivers that are not served stay in their phase.
LEMMA OthersKept ==
  ASSUME NEW s \in HandlerState, NEW t, NEW i \in Ids, Serves(s, t, i), NEW k \in Ids, k # i
  PROVE  Same(t.rx[k], s.rx[k])
<1>1. t.rx[k] \in Receiver /\ s.rx[k] \in Receiver /\ Alike(t.rx[k], s.rx[k])
  BY DEF Serves, HandlerState
<1>. QED BY <1>1, AlikeFacts

\* The members of a list.
LEMMA ListedFacts ==
  ASSUME NEW s \in HandlerState
  PROVE  /\ Listed(s) \in SUBSET Ids /\ IsFiniteSet(Listed(s))
         /\ \A n \in DOMAIN s.list : s.list[n] \in Listed(s)
         /\ \A k \in Listed(s) : \E n \in DOMAIN s.list : s.list[n] = k
         /\ DOMAIN s.list = 1 .. Len(s.list) /\ Len(s.list) \in Nat
<1>1. s.list \in Seq(Ids)
  BY DEF HandlerState
<1>2. Listed(s) \in SUBSET Ids
  BY <1>1 DEF Listed, ToSet
<1>3. IsFiniteSet(Ids)
  BY FS_Interval, ConstantFacts DEF Ids
<1>4. IsFiniteSet(Listed(s))
  BY <1>2, <1>3, FS_Subset
<1>5. /\ \A n \in DOMAIN s.list : s.list[n] \in Listed(s)
      /\ \A k \in Listed(s) : \E n \in DOMAIN s.list : s.list[n] = k
  BY DEF Listed, ToSet
<1>. QED BY <1>1, <1>2, <1>4, <1>5

\* The receivers of the list after a result.
LEMMA ResultReceivers ==
  ASSUME NEW s \in HandlerState, NEW t, NEW i \in Listed(s), NEW R, ReceiversInv(s), Result(s, t, i, R)
  PROVE  ReceiversInv(t)
<1>1. i \in Ids /\ Listed(s) \in SUBSET Ids
  BY ListedFacts
<1>2. Serves(s, t, i)
  BY DEF Result, Ends, Goes, Prepares
<1>3. Listed(t) = Listed(s) /\ s.untold \subseteq t.untold
  BY <1>2 DEF Listed, Serves
<1>4. ASSUME NEW k \in Listed(t), k # i
      PROVE  IF t.rx[k].state = "DONE" THEN ~t.rx[k].message
             ELSE /\ Sound(t.rx[k])
                  /\ t.rx[k].state = "SEND" /\ t.rx[k].allocating => t.rx[k].address \in t.untold
  <2>1. Same(t.rx[k], s.rx[k])
    BY <1>1, <1>2, <1>3, <1>4, OthersKept
  <2>2. CASE s.rx[k].state = "DONE"
    <3>1. ~s.rx[k].message
      BY <1>3, <2>2 DEF ReceiversInv
    <3>. QED BY <2>1, <2>2, <3>1 DEF Same
  <2>3. CASE s.rx[k].state # "DONE"
    <3>1. /\ Sound(s.rx[k])
          /\ s.rx[k].state = "SEND" /\ s.rx[k].allocating => s.rx[k].address \in s.untold
      BY <1>3, <2>3 DEF ReceiversInv
    <3>2. Sound(t.rx[k])
      BY <2>1, <3>1 DEF Same, Sound, Segmented
    <3>. QED BY <1>3, <2>1, <2>3, <3>1, <3>2 DEF Same
  <2>. QED BY <2>2, <2>3
<1>5. IF t.rx[i].state = "DONE" THEN ~t.rx[i].message
      ELSE /\ Sound(t.rx[i])
           /\ t.rx[i].state = "SEND" /\ t.rx[i].allocating => t.rx[i].address \in t.untold
  <2>1. CASE Ends(s, t, i, R)
    BY <2>1 DEF Ends
  <2>2. CASE Goes(s, t, i, R)
    <3>1. /\ Sound(t.rx[i])
          /\ t.rx[i].allocating => \/ t.rx[i].state = "WAIT" /\ t.rx[i].timer = AllocateTimeout
                                   \/ t.rx[i].state = "SEND" /\ t.rx[i].address \in t.untold
      BY <2>2 DEF Goes
    <3>2. t.rx[i].state # "DONE"
      BY <3>1 DEF Sound
    <3>. QED BY <3>1, <3>2
  <2>. QED BY <2>1, <2>2 DEF Result
<1>. QED BY <1>4, <1>5 DEF ReceiversInv

\* The transport messages and the finished receivers after a result.
LEMMA ResultCounts ==
  ASSUME NEW s \in HandlerState, NEW t, NEW i \in Listed(s), NEW R, CountsInv(s), Result(s, t, i, R),
         s.rx[i].state # "DONE", i \notin s.processing
  PROVE  CountsInv(t)
<1>1. i \in Ids /\ Listed(s) \in SUBSET Ids /\ IsFiniteSet(Listed(s))
  BY ListedFacts
<1>2. Serves(s, t, i)
  BY DEF Result, Ends, Goes, Prepares
<1>3. Listed(t) = Listed(s) /\ t \in HandlerState
  BY <1>2 DEF Listed, Serves
<1>4. \A k \in Listed(s) \ {i} : t.rx[k].message = s.rx[k].message /\ t.rx[k].state = s.rx[k].state
  BY <1>1, <1>2, OthersKept DEF Same
<1>5. IsFiniteSet(s.processing)
  <2>1. s.processing \in SUBSET Ids /\ IsFiniteSet(Ids)
    BY FS_Interval, ConstantFacts DEF Ids, HandlerState
  <2>. QED BY <2>1, FS_Subset
<1>6. \A S \in SUBSET Listed(s) : IsFiniteSet(S)
  BY <1>1, FS_Subset
\* The messages attached.
<1>7. Cardinality(Holding(t)) + Held(s.rx[i]) = Cardinality(Holding(s)) + Held(t.rx[i])
  <2>. DEFINE B == Holding(s) \ {i}
  <2>1. IsFiniteSet(B) /\ i \notin B
    BY <1>6 DEF Holding
  <2>2. Holding(s) = IF s.rx[i].message THEN B \cup {i} ELSE B
    BY DEF Holding
  <2>3. Holding(t) = IF t.rx[i].message THEN B \cup {i} ELSE B
    BY <1>3, <1>4 DEF Holding
  <2>. HIDE DEF B
  <2>4. Cardinality(B \cup {i}) = Cardinality(B) + 1 /\ Cardinality(B) \in Nat
    BY <2>1, FS_AddElement, FS_CardinalityType
  <2>. QED BY <2>2, <2>3, <2>4 DEF Held
<1>8. Cardinality(Holding(s)) \in Nat /\ Cardinality(Holding(t)) \in Nat
  <2>1. IsFiniteSet(Holding(s)) /\ IsFiniteSet(Holding(t))
    BY <1>3, <1>6 DEF Holding
  <2>. QED BY <2>1, FS_CardinalityType
<1>9. /\ Held(s.rx[i]) \in Nat /\ Held(t.rx[i]) \in Nat /\ s.free \in Nat /\ t.free \in Nat
      /\ Cardinality(s.processing) \in Nat /\ Buffers \in Nat
  BY <1>3, <1>5, FS_CardinalityType, ConstantFacts DEF Held, HandlerState
<1>10. s.free + Cardinality(Holding(s)) + Cardinality(s.processing) = Buffers
  BY DEF CountsInv
<1>11. t.free + Cardinality(Holding(t)) + Cardinality(t.processing) = Buffers
  <2>1. CASE t.free + Held(t.rx[i]) = s.free + Held(s.rx[i]) /\ t.processing = s.processing
    BY <1>7, <1>8, <1>9, <1>10, <2>1
  <2>2. CASE t.free + Held(t.rx[i]) + 1 = s.free + Held(s.rx[i]) /\ t.processing = s.processing \cup {i}
    <3>1. Cardinality(t.processing) = Cardinality(s.processing) + 1
      BY ZenonT(60), <1>5, <2>2, FS_AddElement
    <3>. QED BY <1>7, <1>8, <1>9, <1>10, <2>2, <3>1
  <2>3. ~t.rx[i].message => Held(t.rx[i]) = 0
    BY DEF Held
  <2>4. CASE Ends(s, t, i, R)
    BY <1>9, <2>1, <2>2, <2>3, <2>4 DEF Ends
  <2>5. CASE Goes(s, t, i, R)
    BY <2>1, <2>5 DEF Goes, Prepares
  <2>. QED BY <2>4, <2>5 DEF Result
\* The finished receivers.
<1>12. IsFiniteSet(Finished(s)) /\ i \notin Finished(s) /\ s.released = Cardinality(Finished(s))
  BY <1>6 DEF Finished, CountsInv
<1>13. t.released = Cardinality(Finished(t))
  <2>1. CASE Ends(s, t, i, R)
    <3>1. Finished(t) = Finished(s) \cup {i}
      BY <1>3, <1>4, <2>1 DEF Finished, Ends
    <3>. QED BY ZenonT(60), <1>12, <2>1, <3>1, FS_AddElement DEF Ends
  <2>2. CASE Goes(s, t, i, R)
    <3>1. t.rx[i].state # "DONE"
      BY <2>2 DEF Goes, Sound
    <3>2. Finished(t) = Finished(s)
      BY <1>3, <1>4, <1>12, <3>1 DEF Finished
    <3>. QED BY <1>12, <2>2, <3>2 DEF Goes, Prepares
  <2>. QED BY <2>1, <2>2 DEF Result
<1>. QED BY <1>11, <1>13 DEF CountsInv

\* The order of the timers after a result.
LEMMA ResultTimers ==
  ASSUME NEW s \in HandlerState, NEW t, NEW i \in Listed(s), NEW R, TimersInv(s), Result(s, t, i, R)
  PROVE  TimersInv(t)
<1>1. i \in Ids /\ Listed(s) \in SUBSET Ids /\ \A n \in DOMAIN s.list : s.list[n] \in Listed(s)
  BY ListedFacts
<1>2. Serves(s, t, i)
  BY DEF Result, Ends, Goes, Prepares
<1>3. t.list = s.list /\ (s.updated => t.updated)
  BY <1>2 DEF Serves
<1>4. t.rx[i].state = "WAIT" => t.updated
  BY SMTT(60) DEF Result, Ends, Goes
<1>. SUFFICES ASSUME ~t.updated, NEW m \in DOMAIN s.list, NEW n \in DOMAIN s.list, m < n,
                     t.rx[s.list[m]].state = "WAIT", t.rx[s.list[n]].state = "WAIT"
              PROVE  t.rx[s.list[m]].timer <= t.rx[s.list[n]].timer
  BY <1>3 DEF TimersInv
<1>5. s.list[m] # i /\ s.list[n] # i
  BY <1>4
<1>6. Same(t.rx[s.list[m]], s.rx[s.list[m]]) /\ Same(t.rx[s.list[n]], s.rx[s.list[n]])
  BY SMTT(60), <1>1, <1>2, <1>5, OthersKept
<1>7. s.rx[s.list[m]].timer <= s.rx[s.list[n]].timer
  BY <1>3, <1>6 DEF TimersInv, Same
<1>. QED BY <1>6, <1>7 DEF Same

\* The senders after a result.
LEMMA ResultSenders ==
  ASSUME NEW s \in HandlerState, NEW t, NEW i, NEW R, SendersInv(s), Result(s, t, i, R)
  PROVE  SendersInv(t)
<1>1. Serves(s, t, i)
  BY DEF Result, Ends, Goes, Prepares
<1>. QED BY <1>1 DEF SendersInv, Serves

\* The contents after a result.
LEMMA ResultContents ==
  ASSUME NEW s \in HandlerState, NEW t, NEW i \in Listed(s), NEW R, ContentInv(s, R),
         s.rx[i].state # "DONE", Result(s, t, i, R)
  PROVE  ContentInv(t, R)
<1>1. i \in Ids /\ Listed(s) \in SUBSET Ids
  BY SMTT(60), ListedFacts
<1>2. Serves(s, t, i) /\ t \in HandlerState
  BY DEF Result, Ends, Goes, Prepares, Serves
<1>3. Listed(t) = Listed(s)
  BY <1>2 DEF Serves, Listed
<1>. SUFFICES ASSUME NEW k \in Listed(s), Pending(t, k), Segmented(t.rx[k])
              PROVE  /\ t.rx[k].address \notin Functional
                     /\ t.rx[k].address \notin R =>
                          Follows(t.rx[k], k, t.sender[t.rx[k].address])
  BY <1>3 DEF ContentInv
<1>4. t.rx[k].address = s.rx[k].address /\ Segmented(s.rx[k]) /\ Pending(s, k)
      /\ t.rx[k].address \in Addresses
  <2>1. t.rx[k] \in Receiver
    BY <1>1, <1>2 DEF HandlerState
  <2>2. t.rx[k].address \in Addresses
    BY <2>1 DEF Receiver
  <2>3. CASE k = i
    BY <1>2, <2>2, <2>3 DEF Serves, Segmented, Pending
  <2>4. CASE k # i
    <3>1. Same(t.rx[k], s.rx[k])
      BY <1>1, <1>2, <2>4, OthersKept
    <3>. QED BY <2>2, <3>1 DEF Same, Segmented, Pending
  <2>. QED BY <2>3, <2>4
<1>5. t.rx[k].address \notin Functional
  BY <1>4 DEF ContentInv
<1>. DEFINE a == s.rx[k].address
            x == s.sender[a]
            y == t.sender[a]
<1>6. y.id = x.id /\ y.next = x.next /\ y.frames = x.frames
  BY <1>2, <1>4 DEF Serves
<1>7. a \notin R => Follows(s.rx[k], k, x)
  BY <1>4 DEF ContentInv
<1>8. a \notin R => Follows(t.rx[k], k, y)
  <2>1. CASE k = i
    <3>1. t.rx[i].state # "DONE"
      BY <2>1 DEF Pending
    <3>2. Goes(s, t, i, R)
      BY <3>1 DEF Result, Ends
    <3>. QED BY <1>4, <2>1, <3>2 DEF Goes
  <2>2. CASE k # i
    <3>1. Same(t.rx[k], s.rx[k])
      BY <1>1, <1>2, <2>2, OthersKept
    <3>. HIDE DEF x, y, a
    <3>. QED BY <1>6, <1>7, <3>1 DEF Same, Follows, UpToDate
  <2>. QED BY <2>1, <2>2
<1>. QED BY <1>4, <1>5, <1>8

\* From s to t message i has been handed over.
Delivers(s, t, i, R) ==
  /\ DOMAIN t.delivered = DOMAIN s.delivered \cup {Len(s.delivered) + 1}
  /\ \A n \in DOMAIN s.delivered : t.delivered[n] = s.delivered[n]
  /\ t.delivered[Len(s.delivered) + 1].id = i
  /\ t.delivered[Len(s.delivered) + 1].address = s.rx[i].address
  /\ s.rx[i].address \in R \/ Exact(t.delivered[Len(s.delivered) + 1].content, i)
  /\ t.rx[i].state = "DONE" /\ t.processing = s.processing \cup {i}

\* At most one message more has been handed over.
LEMMA ResultDelivered ==
  ASSUME NEW s \in HandlerState, NEW t, NEW i \in Ids, NEW R, Result(s, t, i, R)
  PROVE  /\ (t.delivered = s.delivered /\ t.processing = s.processing) \/ Delivers(s, t, i, R)
         /\ DOMAIN s.delivered = 1 .. Len(s.delivered) /\ Len(s.delivered) \in Nat
<1>. DEFINE d == [id |-> i, address |-> s.rx[i].address, content |-> t.rx[i].content]
            u == s.delivered
<1>1. u \in Seq(Message)
  BY DEF HandlerState
<1>2. DOMAIN u = 1 .. Len(u) /\ Len(u) \in Nat
  BY <1>1
<1>3. CASE t.delivered = u /\ (t.processing = s.processing)
  BY <1>2, <1>3
<1>4. CASE /\ t.delivered = Append(u, d) /\ t.rx[i].state = "DONE"
           /\ t.processing = s.processing \cup {i}
           /\ s.rx[i].address \in R \/ Exact(t.rx[i].content, i)
  <2>1. d.id = i /\ d.address = s.rx[i].address /\ d.content = t.rx[i].content
    OBVIOUS
  <2>. DEFINE n == Len(u)
  <2>. HIDE DEF d, u
  <2>2. /\ DOMAIN Append(u, d) = 1 .. n + 1 /\ Append(u, d)[n + 1] = d
        /\ \A k \in 1 .. n : Append(u, d)[k] = u[k]
    BY <1>1
  <2>. HIDE DEF n
  <2>3. DOMAIN u = 1 .. n /\ n \in Nat
    BY <1>2 DEF n
  <2>4. 1 .. n + 1 = (1 .. n) \cup {n + 1}
    BY <2>3
  <2>5. Delivers(s, t, i, R)
    BY <1>4, <2>1, <2>2, <2>3, <2>4 DEF n, u, Delivers
  <2>. QED BY <1>2, <2>5
<1>5. CASE Goes(s, t, i, R)
  BY <1>3, <1>5 DEF Goes, Prepares
<1>6. CASE Ends(s, t, i, R)
  BY <1>3, <1>4, <1>6 DEF Ends
<1>. QED BY <1>5, <1>6 DEF Result

\* What has been handed over after a result, and the numbers.
LEMMA ResultNumbers ==
  ASSUME NEW s \in HandlerState, NEW t, NEW i \in Listed(s), NEW R, NEW N \in Nat,
         DeliveredInv(s, R), NumbersInv(s, N), s.rx[i].state # "DONE", Result(s, t, i, R)
  PROVE  DeliveredInv(t, R) /\ NumbersInv(t, N)
<1>1. i \in Ids /\ Listed(s) \in SUBSET Ids
  BY ListedFacts
<1>2. Serves(s, t, i)
  BY DEF Result, Ends, Goes, Prepares
<1>3. Listed(t) = Listed(s)
  BY <1>2 DEF Serves, Listed
<1>4. (t.delivered = s.delivered /\ t.processing = s.processing) \/ Delivers(s, t, i, R)
  BY <1>1, ResultDelivered
<1>5. DeliveredInv(t, R)
  <2>1. CASE t.delivered = s.delivered
    BY <2>1 DEF DeliveredInv
  <2>2. CASE Delivers(s, t, i, R)
    <3>. SUFFICES ASSUME NEW n \in DOMAIN t.delivered
                  PROVE  t.delivered[n].address \in R \/ Exact(t.delivered[n].content, t.delivered[n].id)
      BY DEF DeliveredInv
    <3>1. CASE n \in DOMAIN s.delivered
      BY <2>2, <3>1 DEF DeliveredInv, Delivers
    <3>2. CASE n \notin DOMAIN s.delivered
      <4>. DEFINE l == Len(s.delivered) + 1
      <4>1. /\ n = l /\ t.delivered[l].id = i /\ t.delivered[l].address = s.rx[i].address
            /\ s.rx[i].address \in R \/ Exact(t.delivered[l].content, i)
        BY <2>2, <3>2 DEF Delivers
      <4>. HIDE DEF l
      <4>. QED BY <4>1
    <3>. QED BY <3>1, <3>2
  <2>. QED BY <1>4, <2>1, <2>2
<1>6. ASSUME NEW k \in Listed(s), Pending(t, k) PROVE Pending(s, k) /\ (t.rx[i].state = "DONE" => k # i)
  <2>1. CASE k = i
    BY <1>6, <2>1 DEF Pending
  <2>2. CASE k # i
    <3>1. Same(t.rx[k], s.rx[k])
      BY <1>1, <1>2, <2>2, OthersKept
    <3>. QED BY <1>6, <2>2, <3>1 DEF Same, Pending
  <2>. QED BY <2>1, <2>2
<1>7. /\ Listed(s) \subseteq 1 .. N /\ s.processing \subseteq 1 .. N
      /\ \A n \in DOMAIN s.delivered : s.delivered[n].id \in 1 .. N
      /\ \A k \in Listed(s) : Pending(s, k) =>
           k \notin s.processing /\ \A n \in DOMAIN s.delivered : s.delivered[n].id # k
  BY DEF NumbersInv
<1>7a. \A n \in DOMAIN t.delivered : t.delivered[n].id = i \/ (n \in DOMAIN s.delivered /\ t.delivered[n] = s.delivered[n])
  <2>. DEFINE l == Len(s.delivered) + 1
  <2>1. CASE t.delivered = s.delivered
    BY <2>1
  <2>2. CASE Delivers(s, t, i, R)
    <3>1. /\ DOMAIN t.delivered = DOMAIN s.delivered \cup {l} /\ t.delivered[l].id = i
          /\ \A n \in DOMAIN s.delivered : t.delivered[n] = s.delivered[n]
      BY <2>2 DEF Delivers
    <3>. HIDE DEF l
    <3>. QED BY <3>1
  <2>. QED BY <1>4, <2>1, <2>2
<1>7b. t.processing \subseteq s.processing \cup {i}
  BY <1>4 DEF Delivers
<1>8. /\ Listed(t) \subseteq 1 .. N /\ t.processing \subseteq 1 .. N
      /\ \A n \in DOMAIN t.delivered : t.delivered[n].id \in 1 .. N
  BY <1>3, <1>7, <1>7a, <1>7b
<1>9. ASSUME NEW k \in Listed(t), Pending(t, k)
      PROVE  k \notin t.processing /\ \A n \in DOMAIN t.delivered : t.delivered[n].id # k
  <2>1. k \notin s.processing /\ \A n \in DOMAIN s.delivered : s.delivered[n].id # k
    BY <1>3, <1>6, <1>7, <1>9
  <2>2. t.rx[i].state = "DONE" => k # i
    BY <1>3, <1>6, <1>9
  <2>3. CASE t.delivered = s.delivered /\ t.processing = s.processing
    BY <2>1, <2>3
  <2>4. CASE Delivers(s, t, i, R)
    <3>1. k # i
      BY <2>2, <2>4 DEF Delivers
    <3>. QED BY <1>7a, <1>7b, <2>1, <3>1
  <2>. QED BY <1>4, <2>3, <2>4
<1>. QED BY <1>5, <1>8, <1>9 DEF NumbersInv

\* Receiver i may be served: no earlier one of its address is pending.
Turn(s, i) ==
  \A k \in Listed(s) : Pending(s, k) /\ k < i /\ s.rx[k].address = s.rx[i].address
                         => s.rx[i].address \in s.untold

\* No later one is.
IsLatest(s, i) ==
  \A k \in Listed(s) : Pending(s, k) /\ s.rx[k].address = s.rx[i].address => k <= i

\* A result is in its turn: a receiver that has got a message is the first of its address, and a
\* single frame that does not end is the last.
InTurn(s, t, i) ==
  /\ t.rx[i].state = "DONE" \/ Segmented(s.rx[i]) \/ IsLatest(s, i)
  /\ \/ Turn(s, i)
     \/ t.delivered = s.delivered /\ (t.rx[i].state = "DONE" \/ t.rx[i].allocating)

\* The receivers that are pending after a result were so before it.
LEMMA ResultPending ==
  ASSUME NEW s \in HandlerState, NEW t, NEW i \in Listed(s), NEW R, s.rx[i].state # "DONE", Result(s, t, i, R)
  PROVE  /\ Listed(t) = Listed(s) /\ t.list = s.list /\ s.untold \subseteq t.untold
         /\ \A k \in Listed(s) : k # i => Same(t.rx[k], s.rx[k])
         /\ \A k \in Listed(s) : /\ Pending(t, k) => Pending(s, k)
                                 /\ t.rx[k].address = s.rx[k].address
                                 /\ t.rx[k].frameCount = s.rx[k].frameCount
<1>1. i \in Ids /\ Listed(s) \in SUBSET Ids
  BY ListedFacts
<1>2. Serves(s, t, i)
  BY DEF Result, Ends, Goes, Prepares
<1>3. Listed(t) = Listed(s) /\ t.list = s.list /\ s.untold \subseteq t.untold
  BY <1>2 DEF Serves, Listed
<1>4. \A k \in Listed(s) : k # i => Same(t.rx[k], s.rx[k])
  BY <1>1, <1>2, OthersKept
<1>5. Pending(s, i) /\ t.rx[i].address = s.rx[i].address /\ t.rx[i].frameCount = s.rx[i].frameCount
  BY <1>2 DEF Pending, Serves
<1>. QED BY <1>3, <1>4, <1>5 DEF Same, Pending

\* The order of the receivers of an address after a result in its turn.
LEMMA ResultTurns ==
  ASSUME NEW s \in HandlerState, NEW t, NEW i \in Listed(s), NEW R, ReceiversInv(s), TurnsInv(s),
         s.rx[i].state # "DONE", Result(s, t, i, R), InTurn(s, t, i)
  PROVE  TurnsInv(t)
<1>1. /\ Listed(t) = Listed(s) /\ t.list = s.list /\ s.untold \subseteq t.untold
      /\ \A k \in Listed(s) : k # i => Same(t.rx[k], s.rx[k])
      /\ \A k \in Listed(s) : /\ Pending(t, k) => Pending(s, k)
                              /\ t.rx[k].address = s.rx[k].address
                              /\ t.rx[k].frameCount = s.rx[k].frameCount
  BY ResultPending
<1>. SUFFICES ASSUME NEW j \in Listed(s), NEW k \in Listed(s), Pending(t, j), Pending(t, k), j < k,
                     t.rx[j].address = t.rx[k].address, t.rx[k].address \notin t.untold
              PROVE  /\ ~Segmented(t.rx[j]) /\ t.rx[j].state = "WAIT" /\ t.rx[k].allocating
                     /\ Before(t.list, j, k)
                     /\ t.rx[k].state = "WAIT" => t.rx[j].timer <= t.rx[k].timer
  BY <1>1 DEF TurnsInv
<1>2. /\ Pending(s, j) /\ Pending(s, k) /\ s.rx[j].address = s.rx[k].address
      /\ s.rx[k].address \notin s.untold
  BY <1>1
<1>3. /\ ~Segmented(s.rx[j]) /\ s.rx[j].state = "WAIT" /\ s.rx[k].allocating
      /\ Before(s.list, j, k)
      /\ s.rx[k].state = "WAIT" => s.rx[j].timer <= s.rx[k].timer
  BY <1>2 DEF TurnsInv
<1>4. Before(t.list, j, k)
  BY <1>1, <1>3
<1>5. j # i
  <2>1. ASSUME j = i PROVE FALSE
    <3>1. t.rx[i].state # "DONE"
      BY <2>1 DEF Pending
    <3>2. IsLatest(s, i)
      BY <1>3, <2>1, <3>1 DEF InTurn
    <3>3. k <= i /\ i \in Ids /\ k \in Ids
      BY <1>2, <2>1, <3>2, ListedFacts DEF IsLatest
    <3>. QED BY <2>1, <3>3 DEF Ids
  <2>. QED BY <2>1
<1>6. Same(t.rx[j], s.rx[j])
  BY <1>1, <1>5
<1>7. ~Segmented(t.rx[j]) /\ t.rx[j].state = "WAIT"
  BY <1>3, <1>6 DEF Same, Segmented
<1>8. CASE k # i
  <2>1. Same(t.rx[k], s.rx[k])
    BY <1>1, <1>8
  <2>. QED BY <1>3, <1>4, <1>6, <1>7, <2>1 DEF Same
<1>9. CASE k = i
  <2>1. t.rx[i].state # "DONE"
    BY <1>9 DEF Pending
  <2>2. ~Turn(s, i)
    BY <1>2, <1>9 DEF Turn
  <2>3. t.rx[k].allocating
    BY <1>9, <2>1, <2>2 DEF InTurn
  <2>4. Goes(s, t, i, R)
    BY <2>1 DEF Result, Ends
  <2>5. t.rx[i].timer = AllocateTimeout
    BY <1>9, <2>3, <2>4 DEF Goes
  <2>6. Sound(s.rx[j])
    BY <1>2 DEF ReceiversInv, Pending
  <2>7. s.rx[j].timer <= AllocateTimeout
    BY <1>3, <2>6 DEF Sound
  <2>. QED BY <1>4, <1>6, <1>7, <1>9, <2>3, <2>5, <2>7 DEF Same
<1>. QED BY <1>8, <1>9

\* The order of the messages that have been handed over.
LEMMA ResultOrder ==
  ASSUME NEW s \in HandlerState, NEW t, NEW i \in Listed(s), NEW R, NEW N \in Nat, NumbersInv(s, N),
         OrderInv(s), s.rx[i].state # "DONE", Result(s, t, i, R), InTurn(s, t, i)
  PROVE  OrderInv(t)
<1>1. /\ Listed(t) = Listed(s) /\ s.untold \subseteq t.untold
      /\ \A k \in Listed(s) : /\ Pending(t, k) => Pending(s, k)
                              /\ t.rx[k].address = s.rx[k].address
  BY ResultPending
<1>2. i \in Ids /\ Listed(s) \in SUBSET Ids
  BY ListedFacts
<1>. DEFINE l == Len(s.delivered) + 1
            D == DOMAIN s.delivered
<1>3. /\ (t.delivered = s.delivered /\ t.processing = s.processing) \/ Delivers(s, t, i, R)
      /\ D = 1 .. Len(s.delivered) /\ Len(s.delivered) \in Nat
  BY <1>2, ResultDelivered
<1>4. l \in Nat /\ \A n \in D : n \in Nat /\ n < l
  BY <1>3
<1>5. CASE t.delivered = s.delivered
  BY <1>1, <1>5 DEF OrderInv
<1>6. CASE Delivers(s, t, i, R)
  <2>1. /\ DOMAIN t.delivered = D \cup {l} /\ \A n \in D : t.delivered[n] = s.delivered[n]
        /\ t.delivered[l].id = i /\ t.delivered[l].address = s.rx[i].address
        /\ t.rx[i].state = "DONE"
    BY <1>6 DEF Delivers
  <2>. HIDE DEF l
  <2>2. Turn(s, i)
    <3>1. t.delivered # s.delivered
      BY <1>4, <2>1
    <3>. QED BY <3>1 DEF InTurn
  <2>3. ASSUME NEW n \in DOMAIN t.delivered, NEW k \in Listed(s), Pending(t, k),
               t.delivered[n].address = t.rx[k].address, t.rx[k].address \notin t.untold
        PROVE  t.delivered[n].id < k
    <3>1. Pending(s, k) /\ t.rx[k].address = s.rx[k].address /\ s.rx[k].address \notin s.untold
      BY <1>1, <2>3
    <3>2. CASE n \in D
      BY <2>1, <2>3, <3>1, <3>2 DEF OrderInv
    <3>3. CASE n = l
      <4>1. s.rx[k].address = s.rx[i].address /\ k # i
        BY <2>1, <2>3, <3>1, <3>3 DEF Pending
      <4>2. ~(k < i)
        BY <2>2, <3>1, <4>1 DEF Turn
      <4>. QED BY <1>2, <2>1, <3>3, <4>1, <4>2 DEF Ids
    <3>. QED BY <2>1, <3>2, <3>3
  <2>4. ASSUME NEW m \in DOMAIN t.delivered, NEW n \in DOMAIN t.delivered, m < n,
               t.delivered[m].address = t.delivered[n].address
        PROVE  /\ t.delivered[m].id # t.delivered[n].id
               /\ t.delivered[n].address \notin t.untold => t.delivered[m].id < t.delivered[n].id
    <3>1. m \in D
      BY <1>4, <2>1, <2>4
    <3>2. CASE n \in D
      BY <1>1, <2>1, <2>4, <3>1, <3>2 DEF OrderInv
    <3>3. CASE n = l
      <4>1. Pending(s, i) /\ s.delivered[m].address = s.rx[i].address
        BY <2>1, <2>4, <3>1, <3>3 DEF Pending
      <4>2. s.delivered[m].id # i
        BY <3>1, <4>1 DEF NumbersInv
      <4>3. s.rx[i].address \notin s.untold => s.delivered[m].id < i
        BY <3>1, <4>1 DEF OrderInv
      <4>. QED BY <1>1, <2>1, <3>1, <3>3, <4>2, <4>3
    <3>. QED BY <2>1, <3>2, <3>3
  <2>. QED BY <1>1, <2>3, <2>4 DEF OrderInv
<1>. QED BY <1>3, <1>5, <1>6

\* A result in its turn keeps the invariant.
LEMMA ResultKeeps ==
  ASSUME NEW s, NEW R, NEW N \in Nat, HandlerInv(s, R, N), NEW i, Pending(s, i), NEW t,
         Result(s, t, i, R), InTurn(s, t, i)
  PROVE  HandlerInv(t, R, N)
<1>1. s \in HandlerState /\ i \in Listed(s) /\ s.rx[i].state # "DONE" /\ i \notin s.processing
  BY DEF HandlerInv, Pending, NumbersInv
<1>2. Serves(s, t, i)
  BY DEF Result, Ends, Goes, Prepares
<1>3. t \in HandlerState /\ IsInjective(t.list)
  BY <1>2 DEF Serves, HandlerInv
<1>4. ReceiversInv(s) /\ CountsInv(s) /\ TimersInv(s) /\ SendersInv(s) /\ ContentInv(s, R)
      /\ DeliveredInv(s, R) /\ NumbersInv(s, N) /\ TurnsInv(s) /\ OrderInv(s)
  BY DEF HandlerInv
<1>5. ReceiversInv(t)
  BY <1>1, <1>4, ResultReceivers
<1>6. CountsInv(t)
  BY <1>1, <1>4, ResultCounts
<1>7. TimersInv(t)
  BY <1>1, <1>4, ResultTimers
<1>8. SendersInv(t)
  BY <1>1, <1>4, ResultSenders
<1>9. ContentInv(t, R)
  BY <1>1, <1>4, ResultContents
<1>10. DeliveredInv(t, R) /\ NumbersInv(t, N)
  BY <1>1, <1>4, ResultNumbers
<1>11. TurnsInv(t)
  BY <1>1, <1>4, ResultTurns
<1>12. OrderInv(t)
  BY <1>1, <1>4, ResultOrder
<1>. QED BY <1>3, <1>5, <1>6, <1>7, <1>8, <1>9, <1>10, <1>11, <1>12 DEF HandlerInv

\* A pending receiver that is allocating has no message and its sender waits for it.
LEMMA PendingAsks ==
  ASSUME NEW s \in HandlerState, NEW R, ReceiversInv(s), ContentInv(s, R), NEW i, Pending(s, i),
         s.rx[i].allocating
  PROVE  Asks(s.rx[i], i, s.sender[s.rx[i].address], R)
<1>1. i \in Listed(s) /\ Sound(s.rx[i])
  BY DEF Pending, ReceiversInv
<1>2. s.rx[i].frameIndex = 1 /\ ~s.rx[i].message
  BY <1>1 DEF Sound
<1>3. Segmented(s.rx[i]) /\ s.rx[i].address \notin R => Follows(s.rx[i], i, s.sender[s.rx[i].address])
  BY <1>1 DEF ContentInv
<1>. QED BY <1>2, <1>3 DEF Asks, Follows

\* The first statement of expired(): the timer is reset.
LEMMA TimerReset ==
  ASSUME NEW s \in HandlerState, NEW i \in Ids, NEW t, t = [s EXCEPT !.rx[i].timerSet = FALSE],
         NEW q, q = [s.rx[i] EXCEPT !.timerSet = FALSE]
  PROVE  /\ Adjusted(s, t, i, q) /\ q \in Receiver /\ q.frameIndex = s.rx[i].frameIndex
         /\ q.state = s.rx[i].state /\ q.timeout = s.rx[i].timeout /\ q.retry = s.rx[i].retry
         /\ q.allocating = s.rx[i].allocating /\ q.message = s.rx[i].message
         /\ q.content = s.rx[i].content /\ q.address = s.rx[i].address
         /\ q.frameCount = s.rx[i].frameCount
<1>1. s.rx[i] \in Receiver
  BY DEF HandlerState
<1>2. /\ q \in Receiver /\ q.frameIndex = s.rx[i].frameIndex
      /\ q.state = s.rx[i].state /\ q.timeout = s.rx[i].timeout /\ q.retry = s.rx[i].retry
      /\ q.allocating = s.rx[i].allocating /\ q.message = s.rx[i].message
      /\ q.content = s.rx[i].content /\ q.address = s.rx[i].address
      /\ q.frameCount = s.rx[i].frameCount
  BY <1>1 DEF Receiver
<1>3. t = Put(s, i, q, s.updated, s.free)
  BY DEF HandlerState, Put
<1>4. Adjusts(q, s.rx[i])
  BY <1>2 DEF Adjusts, Held
<1>5. Adjusted(s, t, i, q)
  BY ZenonT(60), <1>2, <1>3, <1>4, PutAdjusts
<1>. QED BY <1>2, <1>5

\* expired() of a receiver: the reception ends, or the receiver asks for a message, or it is stuck.
LEMMA ExpiredResult ==
  ASSUME NEW s \in HandlerState, NEW R, ReceiversInv(s), ContentInv(s, R), NEW i, Pending(s, i),
         s.rx[i].state # "ALLOCATE", NEW e, NEW t, t = Expired(s, i, e)
  PROVE  Result(s, t, i, R) /\ (~Segmented(s.rx[i]) => t.rx[i].state = "DONE")
<1>. DEFINE r == s.rx[i]
            x == s.sender[r.address]
            q == [r EXCEPT !.timerSet = FALSE]
            s1 == [s EXCEPT !.rx[i].timerSet = FALSE]
            s2 == Transition(s1, i, "ALLOCATE", "NONE")
<1>1. i \in Ids /\ i \in Listed(s) /\ Sound(r)
  BY ListedFacts DEF Pending, ReceiversInv
<1>2. t = CASE r.timeout = "RX" -> Done(s1, i)
          [] r.timeout = "ALLOCATE" -> Allocate(s2, i, FALSE, e)
          [] OTHER -> s1
  BY Zenon DEF Expired
<1>2a. s1 = [s EXCEPT !.rx[i].timerSet = FALSE] /\ q = [s.rx[i] EXCEPT !.timerSet = FALSE]
  OBVIOUS
<1>. HIDE DEF s1, q
<1>3. /\ Adjusted(s, s1, i, q) /\ q \in Receiver /\ q.frameIndex = r.frameIndex
      /\ q.state = r.state /\ q.timeout = r.timeout /\ q.retry = r.retry
      /\ q.allocating = r.allocating /\ q.message = r.message
      /\ q.content = r.content /\ q.address = r.address
      /\ q.frameCount = r.frameCount
  BY <1>1, <1>2a, TimerReset
<1>4. /\ Prepares(s, s1, i) /\ s1 \in HandlerState /\ s1.rx[i] = q
      /\ s1.sender = s.sender /\ s1.untold = s.untold /\ s1.updated = s.updated
  BY <1>3 DEF Adjusted
<1>5. r.state = "SEND" /\ r.allocating => r.address \in s.untold
  BY <1>1 DEF Pending, ReceiversInv
<1>6. Segmented(r) /\ r.address \notin R => Follows(r, i, x)
  BY <1>1 DEF ContentInv
<1>7. r.allocating => Asks(r, i, x, R)
  BY PendingAsks
<1>7a. s2 = Transition(s1, i, "ALLOCATE", "NONE")
  OBVIOUS
<1>8. CASE r.timeout = "RX"
  <2>1. t = Done(s1, i)
    BY <1>2, <1>8
  <2>2. Ends(s1, t, i, R)
    BY <1>1, <1>4, <2>1, DoneEnds
  <2>3. Ends(s, t, i, R)
    BY <1>1, <1>4, <2>2, ResultAfter
  <2>. QED BY <2>3 DEF Result, Ends
<1>. HIDE DEF s2
<1>9. CASE r.timeout = "ALLOCATE"
  <2>1. t = Allocate(s2, i, FALSE, e)
    BY <1>2, <1>9
  <2>2. "ALLOCATE" \in States /\ "NONE" \in Timeouts
    BY DEF States, Timeouts
  <2>3. Moves(s1, s2, i, "ALLOCATE", "NONE")
    BY <1>1, <1>4, <1>7a, <2>2, TransitionFacts
  <2>4. Prepares(s1, s2, i) /\ s2 \in HandlerState /\ Moved(s2.rx[i], q, "ALLOCATE", "NONE")
    BY <1>1, <1>4, <2>3, MovesPrepares
  <2>5. s2.sender = s.sender
    BY <1>4, <2>3 DEF Moves
  <2>6. r.allocating /\ (~Segmented(r) => r.retry > 0)
    BY <1>1, <1>9 DEF Sound
  <2>. HIDE DEF x, r
  <2>7. Asks(s2.rx[i], i, x, R)
    BY <1>3, <1>7, <2>4, <2>6 DEF Asks, Moved, Segmented
  <2>8. x = s2.sender[s2.rx[i].address]
    BY <1>3, <2>4, <2>5 DEF x, Moved
  <2>9. Asks(s2.rx[i], i, s2.sender[s2.rx[i].address], R)
    BY <2>7, <2>8
  <2>10. /\ Result(s2, t, i, R)
         /\ ~Segmented(s2.rx[i]) /\ (FALSE \/ s2.rx[i].retry > 0) => Ends(s2, t, i, R)
    <3>1. AllocateOutcome(s2, t, i, R, FALSE)
      BY <1>1, <2>1, <2>4, <2>9, AllocateResult
    <3>. QED BY <3>1 DEF AllocateOutcome
  <2>11. Prepares(s, s2, i)
    BY <1>1, <1>4, <2>4, PreparesTransitive
  <2>12. Result(s, t, i, R)
    BY <1>1, <2>10, <2>11, ResultAfter DEF Result
  <2>13. ~Segmented(r) => Ends(s2, t, i, R)
    BY <1>3, <2>4, <2>6, <2>10 DEF Segmented, Moved
  <2>. QED BY <2>12, <2>13 DEF Ends, r
<1>10. CASE r.timeout \notin {"RX", "ALLOCATE"}
  <2>1. t = s1
    BY <1>2, <1>10
  <2>2. r.state = "SEND" /\ Segmented(r)
    BY <1>1, <1>10 DEF Sound
  <2>3. Sound(q)
    BY <1>1, <1>3, <2>2 DEF Sound, Segmented
  <2>4. q.address \notin R => Follows(q, i, x)
    BY <1>3, <1>6, <2>2 DEF Follows
  <2>5. x = t.sender[q.address] /\ t.rx[i] = q /\ t.untold = s.untold
    BY <1>3, <1>4, <2>1 DEF x
  <2>. HIDE DEF x, r
  <2>6. Goes(s, t, i, R)
    BY <1>3, <1>4, <1>5, <2>1, <2>2, <2>3, <2>4, <2>5 DEF Goes
  <2>. QED BY <2>2, <2>6 DEF Result, r
<1>. QED BY <1>8, <1>9, <1>10

\* The end of the loop of processMessageReceivers() is a flag of its own.
LEMMA StopKeeps ==
  ASSUME NEW s, NEW R, NEW N, HandlerInv(s, R, N), NEW b \in BOOLEAN, NEW t, t = [s EXCEPT !.stop = b]
  PROVE  /\ HandlerInv(t, R, N) /\ t.stop = b /\ t.list = s.list /\ t.rx = s.rx
<1>1. s \in HandlerState
  BY DEF HandlerInv
<1>2. /\ t \in HandlerState /\ t.list = s.list /\ t.rx = s.rx /\ t.updated = s.updated /\ t.free = s.free
      /\ t.processing = s.processing /\ t.delivered = s.delivered /\ t.sender = s.sender
      /\ t.untold = s.untold /\ t.released = s.released /\ t.stop = b
  BY <1>1 DEF HandlerState
<1>3. Listed(t) = Listed(s) /\ Finished(t) = Finished(s) /\ Holding(t) = Holding(s)
  BY <1>2 DEF Listed, Finished, Holding
<1>4. \A k : Pending(t, k) <=> Pending(s, k)
  BY <1>2, <1>3 DEF Pending
<1>5. /\ ReceiversInv(s) /\ CountsInv(s) /\ TimersInv(s) /\ SendersInv(s) /\ ContentInv(s, R)
      /\ DeliveredInv(s, R) /\ NumbersInv(s, N) /\ TurnsInv(s) /\ OrderInv(s) /\ IsInjective(s.list)
  BY DEF HandlerInv
<1>6. ReceiversInv(t)
  BY <1>2, <1>3, <1>5 DEF ReceiversInv
<1>7. CountsInv(t)
  BY SMTT(60), <1>2, <1>3, <1>5 DEF CountsInv
<1>8. TimersInv(t)
  BY <1>2, <1>5 DEF TimersInv
<1>9. SendersInv(t)
  BY <1>2, <1>5 DEF SendersInv
<1>10. ContentInv(t, R)
  BY <1>2, <1>3, <1>4, <1>5 DEF ContentInv
<1>11. DeliveredInv(t, R)
  BY <1>2, <1>5 DEF DeliveredInv
<1>12. NumbersInv(t, N)
  BY <1>2, <1>3, <1>4, <1>5 DEF NumbersInv
<1>13. TurnsInv(t)
  BY <1>2, <1>3, <1>4, <1>5 DEF TurnsInv
<1>14. OrderInv(t)
  BY <1>2, <1>3, <1>4, <1>5 DEF OrderInv
<1>. QED BY <1>2, <1>5, <1>6, <1>7, <1>8, <1>9, <1>10, <1>11, <1>12, <1>13, <1>14 DEF HandlerInv

\* What a loop does with receiver i of the list; S are the receivers it looks for.
Served(loop, s, i, S, e) ==
  IF loop = "process" THEN ProcessReceiver(s, i, e)
  ELSE IF i \notin S THEN s
  ELSE IF loop = "done" THEN Done(s, i)
  ELSE Expired(s, i, e)

\* The states of a loop: after[k] is the one after the k-th receiver.
Runs(after, loop, s, S, e) ==
  /\ after[0] = s
  /\ \A k \in 1 .. Len(s.list) : after[k] = Served(loop, after[k - 1], s.list[k], S, e)

\* They are the values of a recursive function.
Loops(f, loop, s, S, e) ==
  f = [k \in 0 .. Len(s.list) |-> IF k = 0 THEN s ELSE Served(loop, f[k - 1], s.list[k], S, e)]

\* The states of a loop exist.
LEMMA LoopExists ==
  ASSUME NEW s, NEW loop, NEW S, NEW e, Len(s.list) \in Nat
  PROVE  \E f : Loops(f, loop, s, S, e)
<1>. DEFINE l == s.list
            G(f, i) == IF i = 0 THEN s ELSE Served(loop, f[i - 1], l[i], S, e)
            K == {k \in Nat : \E f : f = [i \in 0 .. k |-> G(f, i)]}
<1>1. 0 \in K
  <2>. DEFINE f == [i \in 0 .. 0 |-> s]
  <2>1. \A i \in 0 .. 0 : G(f, i) = s
    OBVIOUS
  <2>2. f = [i \in 0 .. 0 |-> G(f, i)]
    BY <2>1
  <2>. QED BY <2>2
<1>2. ASSUME NEW k \in Nat, k \in K PROVE k + 1 \in K
  <2>1. PICK f : f = [i \in 0 .. k |-> G(f, i)]
    BY <1>2
  <2>. DEFINE x == Served(loop, f[k], l[k + 1], S, e)
              g == [i \in 0 .. k + 1 |-> IF i = k + 1 THEN x ELSE f[i]]
  <2>. HIDE DEF x
  <2>2. g[k + 1] = x /\ \A i \in 0 .. k : g[i] = f[i]
    OBVIOUS
  <2>3. \A i \in 0 .. k : f[i] = G(f, i)
    BY <2>1
  <2>4. \A i \in 0 .. k + 1 : g[i] = G(g, i)
    <3>. SUFFICES ASSUME NEW i \in 0 .. k + 1 PROVE g[i] = G(g, i)
      OBVIOUS
    <3>1. CASE i = k + 1
      <4>1. i # 0 /\ i - 1 = k /\ g[k] = f[k]
        BY <3>1, <2>2
      <4>. HIDE DEF g
      <4>. QED BY <3>1, <4>1, <2>2 DEF x
    <3>2. CASE i = 0
      BY <3>2, <2>2, <2>3
    <3>3. CASE i \in 1 .. k
      <4>1. i - 1 \in 0 .. k /\ i \in 0 .. k /\ i # 0
        BY <3>3
      <4>2. g[i - 1] = f[i - 1] /\ g[i] = f[i]
        BY <2>2, <4>1
      <4>3. f[i] = G(f, i)
        BY <2>3, <4>1
      <4>. HIDE DEF g
      <4>. QED BY <4>1, <4>2, <4>3
    <3>. QED BY <3>1, <3>2, <3>3
  <2>5. g = [i \in 0 .. k + 1 |-> g[i]]
    OBVIOUS
  <2>. HIDE DEF g
  <2>6. g = [i \in 0 .. k + 1 |-> G(g, i)]
    BY <2>4, <2>5
  <2>. QED BY SMTT(60), <2>6
<1>. HIDE DEF K
<1>3. Nat \subseteq K
  BY <1>1, <1>2, InductionOverSet
<1>4. Len(s.list) \in K
  BY <1>3
<1>. QED BY <1>4 DEF K, Loops

\* DoneAll ends with the last state of its loop.
LEMMA DoneAllRuns ==
  ASSUME NEW s, NEW S, Len(s.list) \in Nat
  PROVE  \E after : Runs(after, "done", s, S, {}) /\ DoneAll(s, S) = after[Len(s.list)]
<1>. DEFINE l == s.list
            n == Len(l)
            G(f, k) == IF k = 0 THEN s ELSE IF l[k] \in S THEN Done(f[k - 1], l[k]) ELSE f[k - 1]
            c == CHOOSE f : f = [k \in 0 .. n |-> G(f, k)]
<1>1. PICK f : Loops(f, "done", s, S, {})
  BY LoopExists
<1>2. \A k, g : G(g, k) = IF k = 0 THEN s ELSE Served("done", g[k - 1], l[k], S, {})
  BY DEF Served
<1>3. DoneAll(s, S) = c[n]
  BY DEF DoneAll
<1>. HIDE DEF G, n
<1>4. f = [k \in 0 .. n |-> G(f, k)]
  <2>1. f = [k \in 0 .. n |-> f[k]] /\ \A k \in 0 .. n : f[k] = G(f, k)
    BY <1>1, <1>2 DEF n, Loops
  <2>. QED BY ONLY <2>1
<1>5. c = [k \in 0 .. n |-> G(c, k)]
  BY <1>4
<1>. HIDE DEF c
<1>6. n \in Nat
  BY DEF n
<1>7. c[0] = s
  BY <1>2, <1>5, <1>6
<1>8. \A k \in 1 .. n : c[k] = Served("done", c[k - 1], l[k], S, {})
  <2>. SUFFICES ASSUME NEW k \in 1 .. n PROVE c[k] = Served("done", c[k - 1], l[k], S, {})
    OBVIOUS
  <2>1. k \in 0 .. n /\ k # 0
    BY <1>6
  <2>2. c[k] = G(c, k)
    BY <1>5, <2>1
  <2>. QED BY <1>2, <2>1, <2>2
<1>9. Runs(c, "done", s, S, {})
  BY <1>7, <1>8 DEF Runs, n
<1>. QED BY <1>3, <1>9 DEF n

\* So does ExpiredAll.
LEMMA ExpiredAllRuns ==
  ASSUME NEW s, NEW S, NEW e, Len(s.list) \in Nat
  PROVE  \E after : Runs(after, "expired", s, S, e) /\ ExpiredAll(s, S, e) = after[Len(s.list)]
<1>. DEFINE l == s.list
            n == Len(l)
            G(f, k) == IF k = 0 THEN s ELSE IF l[k] \in S THEN Expired(f[k - 1], l[k], e) ELSE f[k - 1]
            c == CHOOSE f : f = [k \in 0 .. n |-> G(f, k)]
<1>1. PICK f : Loops(f, "expired", s, S, e)
  BY LoopExists
<1>2. \A k, g : G(g, k) = IF k = 0 THEN s ELSE Served("expired", g[k - 1], l[k], S, e)
  BY DEF Served
<1>3. ExpiredAll(s, S, e) = c[n]
  BY DEF ExpiredAll
<1>. HIDE DEF G, n
<1>4. f = [k \in 0 .. n |-> G(f, k)]
  <2>1. f = [k \in 0 .. n |-> f[k]] /\ \A k \in 0 .. n : f[k] = G(f, k)
    BY <1>1, <1>2 DEF n, Loops
  <2>. QED BY ONLY <2>1
<1>5. c = [k \in 0 .. n |-> G(c, k)]
  BY <1>4
<1>. HIDE DEF c
<1>6. n \in Nat
  BY DEF n
<1>7. c[0] = s
  BY <1>2, <1>5, <1>6
<1>8. \A k \in 1 .. n : c[k] = Served("expired", c[k - 1], l[k], S, e)
  <2>. SUFFICES ASSUME NEW k \in 1 .. n PROVE c[k] = Served("expired", c[k - 1], l[k], S, e)
    OBVIOUS
  <2>1. k \in 0 .. n /\ k # 0
    BY <1>6
  <2>2. c[k] = G(c, k)
    BY <1>5, <2>1
  <2>. QED BY <1>2, <2>1, <2>2
<1>9. Runs(c, "expired", s, S, e)
  BY <1>7, <1>8 DEF Runs, n
<1>. QED BY <1>3, <1>9 DEF n

\* And ProcessAll.
LEMMA ProcessAllRuns ==
  ASSUME NEW s, NEW e, Len(s.list) \in Nat
  PROVE  \E after : Runs(after, "process", s, {}, e) /\ ProcessAll(s, e) = after[Len(s.list)]
<1>. DEFINE l == s.list
            n == Len(l)
            G(f, k) == IF k = 0 THEN s ELSE ProcessReceiver(f[k - 1], l[k], e)
            c == CHOOSE f : f = [k \in 0 .. n |-> G(f, k)]
<1>1. PICK f : Loops(f, "process", s, {}, e)
  BY LoopExists
<1>2. \A k, g : G(g, k) = IF k = 0 THEN s ELSE Served("process", g[k - 1], l[k], {}, e)
  BY DEF Served
<1>3. ProcessAll(s, e) = c[n]
  BY DEF ProcessAll
<1>. HIDE DEF G, n
<1>4. f = [k \in 0 .. n |-> G(f, k)]
  <2>1. f = [k \in 0 .. n |-> f[k]] /\ \A k \in 0 .. n : f[k] = G(f, k)
    BY <1>1, <1>2 DEF n, Loops
  <2>. QED BY ONLY <2>1
<1>5. c = [k \in 0 .. n |-> G(c, k)]
  BY <1>4
<1>. HIDE DEF c
<1>6. n \in Nat
  BY DEF n
<1>7. c[0] = s
  BY <1>2, <1>5, <1>6
<1>8. \A k \in 1 .. n : c[k] = Served("process", c[k - 1], l[k], {}, e)
  <2>. SUFFICES ASSUME NEW k \in 1 .. n PROVE c[k] = Served("process", c[k - 1], l[k], {}, e)
    OBVIOUS
  <2>1. k \in 0 .. n /\ k # 0
    BY <1>6
  <2>2. c[k] = G(c, k)
    BY <1>5, <2>1
  <2>. QED BY <1>2, <2>1, <2>2
<1>9. Runs(c, "process", s, {}, e)
  BY <1>7, <1>8 DEF Runs, n
<1>. QED BY <1>3, <1>9 DEF n

\* What holds before a loop: no receiver of the list has ended or is allocating.
Settled(s) == \A i \in Listed(s) : s.rx[i].state \notin {"ALLOCATE", "DONE"}

\* A loop that has begun with s is in state x after k receivers: the rest is as it was.
Loop(s, x, k, R, N) ==
  /\ HandlerInv(x, R, N) /\ x.list = s.list
  /\ \A i \in Listed(s) : x.rx[i].state # "ALLOCATE" /\ x.rx[i].frameCount = s.rx[i].frameCount
  /\ \A m \in DOMAIN s.list : m > k => Same(x.rx[s.list[m]], s.rx[s.list[m]])

\* A single frame is behind the earlier ones of its address: if none before it in the list is
\* pending, it is its turn.
LEMMA TurnOf ==
  ASSUME NEW x \in HandlerState, IsInjective(x.list), TurnsInv(x), NEW k \in DOMAIN x.list,
         Pending(x, x.list[k]),
         \A m \in DOMAIN x.list : m < k /\ ~Segmented(x.rx[x.list[m]]) => ~Pending(x, x.list[m])
  PROVE  Turn(x, x.list[k])
<1>. DEFINE i == x.list[k]
<1>1. i \in Listed(x)
  BY DEF Pending
<1>. SUFFICES ASSUME NEW j \in Listed(x), Pending(x, j), j < i, x.rx[j].address = x.rx[i].address,
                     x.rx[i].address \notin x.untold
              PROVE  FALSE
  BY DEF Turn
<1>2. ~Segmented(x.rx[j]) /\ Before(x.list, j, i)
  BY <1>1 DEF TurnsInv
<1>3. PICK m \in DOMAIN x.list, n \in DOMAIN x.list : m < n /\ x.list[m] = j /\ x.list[n] = i
  BY <1>2 DEF Before
<1>4. n = k
  BY <1>3 DEF IsInjective
<1>. QED BY <1>2, <1>3, <1>4

\* Only the k-th receiver has another phase.
OthersSame(s, x, y, k) ==
  \A m \in DOMAIN s.list : m # k => Same(y.rx[s.list[m]], x.rx[s.list[m]])

\* A loop serves its next receiver.
LEMMA LoopStep ==
  ASSUME NEW s \in HandlerState, IsInjective(s.list), NEW R, NEW N \in Nat, NEW k \in DOMAIN s.list,
         NEW x, Loop(s, x, k - 1, R, N), NEW i, i = s.list[k], Pending(x, i),
         NEW y, Result(x, y, i, R), InTurn(x, y, i)
  PROVE  Loop(s, y, k, R, N) /\ OthersSame(s, x, y, k)
<1>1. HandlerInv(x, R, N) /\ x \in HandlerState /\ x.list = s.list /\ Listed(x) = Listed(s)
  BY DEF Loop, HandlerInv, Listed
<1>2. HandlerInv(y, R, N)
  BY <1>1, ResultKeeps
<1>3. i \in Listed(x) /\ x.rx[i].state # "DONE"
  BY DEF Pending
<1>4. /\ Listed(y) = Listed(x) /\ y.list = x.list
      /\ \A j \in Listed(x) : j # i => Same(y.rx[j], x.rx[j])
      /\ \A j \in Listed(x) : y.rx[j].frameCount = x.rx[j].frameCount
  BY <1>1, <1>3, ResultPending
<1>5. y.rx[i].state # "ALLOCATE"
  BY DEF Result, Goes, Ends
<1>6. \A j \in Listed(s) : y.rx[j].state # "ALLOCATE" /\ y.rx[j].frameCount = s.rx[j].frameCount
  BY <1>1, <1>4, <1>5 DEF Loop, Same
<1>7. \A m \in DOMAIN s.list : s.list[m] \in Listed(s) /\ (m # k => s.list[m] # i)
  BY DEF Listed, ToSet, IsInjective
<1>8. \A m \in DOMAIN s.list : m # k => Same(y.rx[s.list[m]], x.rx[s.list[m]])
  BY SMTT(60), <1>1, <1>4, <1>7
<1>9. ASSUME NEW m \in DOMAIN s.list, m > k PROVE Same(y.rx[s.list[m]], s.rx[s.list[m]])
  <2>1. m \in Nat /\ k \in Nat
    <3>1. DOMAIN s.list = 1 .. Len(s.list) /\ Len(s.list) \in Nat
      BY ListedFacts
    <3>. QED BY <3>1
  <2>2. m # k /\ m > k - 1
    BY <1>9, <2>1
  <2>. QED BY <1>8, <2>2 DEF Loop, Same
<1>. QED BY <1>1, <1>2, <1>4, <1>6, <1>8, <1>9 DEF Loop, OthersSame

\* A loop that passes over a receiver.
LEMMA LoopIdle ==
  ASSUME NEW s \in HandlerState, NEW R, NEW N, NEW k \in DOMAIN s.list, NEW x, Loop(s, x, k - 1, R, N)
  PROVE  Loop(s, x, k, R, N)
<1>1. DOMAIN s.list = 1 .. Len(s.list) /\ Len(s.list) \in Nat
  BY ListedFacts
<1>2. \A m \in DOMAIN s.list : m > k => m > k - 1
  BY <1>1
<1>. QED BY <1>2 DEF Loop

\* A loop begins.
LEMMA LoopBegins ==
  ASSUME NEW s, NEW R, NEW N, HandlerInv(s, R, N), Settled(s)
  PROVE  Loop(s, s, 0, R, N)
BY DEF Loop, Same, Settled

\* The next receiver of a loop is pending.
LEMMA LoopNext ==
  ASSUME NEW s \in HandlerState, Settled(s), NEW R, NEW N, NEW k \in DOMAIN s.list,
         NEW x, Loop(s, x, k - 1, R, N)
  PROVE  /\ Pending(x, s.list[k]) /\ x.rx[s.list[k]].state # "ALLOCATE"
         /\ Same(x.rx[s.list[k]], s.rx[s.list[k]]) /\ s.list[k] \in Listed(s) /\ s.list[k] \in Ids
         /\ x \in HandlerState /\ x.list = s.list /\ Listed(x) = Listed(s) /\ k - 1 \in Nat /\ k \in Nat
<1>1. /\ DOMAIN s.list = 1 .. Len(s.list) /\ Len(s.list) \in Nat
      /\ s.list[k] \in Listed(s) /\ Listed(s) \in SUBSET Ids
  BY ListedFacts
<1>2. k > k - 1 /\ k - 1 \in Nat /\ k \in Nat
  BY <1>1
<1>3. Same(x.rx[s.list[k]], s.rx[s.list[k]])
  BY <1>2 DEF Loop
<1>4. x \in HandlerState /\ x.list = s.list /\ Listed(x) = Listed(s)
  BY DEF Loop, HandlerInv, Listed
<1>5. s.rx[s.list[k]].state \notin {"ALLOCATE", "DONE"}
  BY <1>1 DEF Settled
<1>6. Pending(x, s.list[k]) /\ x.rx[s.list[k]].state # "ALLOCATE"
  BY <1>1, <1>3, <1>4, <1>5 DEF Pending, Same
<1>. QED BY <1>1, <1>2, <1>3, <1>4, <1>6

-------------------------------------------------------------------------------
\* The loop of cyclicTask() has ended the single frames it has served.
Noticed(s, x, k, S) ==
  \A m \in DOMAIN s.list : m <= k /\ s.list[m] \in S /\ ~Segmented(s.rx[s.list[m]])
                             => x.rx[s.list[m]].state = "DONE"

\* A step of it.
LEMMA ExpiredStep ==
  ASSUME NEW s \in HandlerState, IsInjective(s.list), Settled(s), NEW R, NEW N \in Nat, NEW S, NEW e,
         \A m, n \in DOMAIN s.list : m < n /\ s.list[n] \in S => s.list[m] \in S,
         NEW k \in DOMAIN s.list, NEW x, Loop(s, x, k - 1, R, N), Noticed(s, x, k - 1, S),
         NEW y, y = Served("expired", x, s.list[k], S, e)
  PROVE  Loop(s, y, k, R, N) /\ Noticed(s, y, k, S)
<1>. DEFINE i == s.list[k]
<1>1. /\ Pending(x, i) /\ x.rx[i].state # "ALLOCATE"
      /\ Same(x.rx[i], s.rx[i]) /\ i \in Listed(s) /\ i \in Ids
      /\ x \in HandlerState /\ x.list = s.list /\ Listed(x) = Listed(s) /\ k - 1 \in Nat /\ k \in Nat
  BY LoopNext
<1>2. DOMAIN s.list = 1 .. Len(s.list) /\ Len(s.list) \in Nat
  BY ListedFacts
<1>3. \A m \in DOMAIN s.list : m <= k => m = k \/ m <= k - 1
  BY <1>2
<1>4. CASE i \notin S
  <2>1. y = x
    BY <1>4 DEF Served
  <2>2. Loop(s, x, k, R, N)
    BY LoopIdle
  <2>3. Noticed(s, x, k, S)
    BY <1>3, <1>4 DEF Noticed
  <2>. QED BY <2>1, <2>2, <2>3
<1>5. CASE i \in S
  <2>1. y = Expired(x, i, e)
    BY <1>5 DEF Served
  <2>2. ReceiversInv(x) /\ ContentInv(x, R) /\ TurnsInv(x)
    BY DEF Loop, HandlerInv
  <2>3. Result(x, y, i, R) /\ (~Segmented(x.rx[i]) => y.rx[i].state = "DONE")
    BY <1>1, <2>1, <2>2, ExpiredResult
  <2>4. \A m \in DOMAIN x.list : m < k /\ ~Segmented(x.rx[x.list[m]]) => ~Pending(x, x.list[m])
    <3>. SUFFICES ASSUME NEW m \in DOMAIN s.list, m < k, ~Segmented(x.rx[s.list[m]])
                  PROVE  ~Pending(x, s.list[m])
      BY <1>1
    <3>1. m <= k - 1 /\ s.list[m] \in S /\ s.list[m] \in Listed(s)
      BY <1>2, <1>5, ListedFacts
    <3>2. ~Segmented(s.rx[s.list[m]])
      BY <3>1 DEF Loop, Segmented
    <3>. QED BY <3>1, <3>2 DEF Noticed, Pending
  <2>5. IsInjective(x.list) /\ k \in DOMAIN x.list /\ x.list[k] = i
    BY <1>1
  <2>6. Turn(x, x.list[k])
    BY <1>1, <2>2, <2>4, <2>5, TurnOf
  <2>7. InTurn(x, y, i)
    BY <2>3, <2>5, <2>6 DEF InTurn
  <2>8. Loop(s, y, k, R, N) /\ OthersSame(s, x, y, k)
    BY <1>1, <2>3, <2>7, LoopStep
  <2>9. ~Segmented(s.rx[i]) => y.rx[i].state = "DONE"
    BY SMTT(60), <1>1, <2>3 DEF Same, Segmented
  <2>10. Noticed(s, y, k, S)
    BY SMTT(60), <1>2, <1>3, <2>8, <2>9 DEF Noticed, Same, OthersSame
  <2>. QED BY <2>8, <2>10
<1>. QED BY <1>4, <1>5

\* The loop of cyclicTask() keeps the invariant.
LEMMA ExpiredAllKeeps ==
  ASSUME NEW s, NEW R, NEW N \in Nat, HandlerInv(s, R, N), Settled(s), NEW S, NEW e,
         \A m, n \in DOMAIN s.list : m < n /\ s.list[n] \in S => s.list[m] \in S
  PROVE  /\ HandlerInv(ExpiredAll(s, S, e), R, N) /\ ExpiredAll(s, S, e).list = s.list
         /\ \A i \in Listed(s) : ExpiredAll(s, S, e).rx[i].state # "ALLOCATE"
<1>. DEFINE n == Len(s.list)
<1>1. s \in HandlerState /\ IsInjective(s.list)
  BY DEF HandlerInv
<1>2. DOMAIN s.list = 1 .. n /\ n \in Nat
  BY <1>1, ListedFacts
<1>3. PICK after : Runs(after, "expired", s, S, e) /\ ExpiredAll(s, S, e) = after[n]
  BY <1>2, ExpiredAllRuns
<1>4. after[0] = s /\ \A k \in 1 .. n : after[k] = Served("expired", after[k - 1], s.list[k], S, e)
  BY <1>3 DEF Runs
<1>. HIDE DEF n
<1>. DEFINE K == {k \in Nat : k <= n => Loop(s, after[k], k, R, N) /\ Noticed(s, after[k], k, S)}
<1>5. 0 \in K
  <2>1. Loop(s, s, 0, R, N)
    BY LoopBegins
  <2>2. Noticed(s, s, 0, S)
    BY <1>2 DEF Noticed
  <2>. QED BY <1>4, <2>1, <2>2
<1>6. ASSUME NEW k \in Nat, k \in K PROVE k + 1 \in K
  <2>. SUFFICES ASSUME k + 1 <= n
                PROVE  Loop(s, after[k + 1], k + 1, R, N) /\ Noticed(s, after[k + 1], k + 1, S)
    OBVIOUS
  <2>. DEFINE h == k + 1
  <2>1. h \in DOMAIN s.list /\ h - 1 = k /\ h \in 1 .. n
    BY <1>2
  <2>1a. Loop(s, after[k], k, R, N) /\ Noticed(s, after[k], k, S)
    BY <1>2, <1>6
  <2>2. Loop(s, after[h - 1], h - 1, R, N) /\ Noticed(s, after[h - 1], h - 1, S)
    BY Zenon, <2>1, <2>1a
  <2>. HIDE DEF h
  <2>3. after[h] = Served("expired", after[h - 1], s.list[h], S, e)
    BY <1>4, <2>1
  <2>4. Loop(s, after[h], h, R, N) /\ Noticed(s, after[h], h, S)
    BY <1>1, <2>1, <2>2, <2>3, ExpiredStep
  <2>. QED BY <2>4 DEF h
<1>. HIDE DEF K
<1>7. n \in K
  BY <1>2, <1>5, <1>6, InductionOverSet
<1>8. Loop(s, after[n], n, R, N)
  BY <1>2, <1>7 DEF K
<1>. QED BY <1>3, <1>8 DEF Loop

\* A loop that ends receivers hands nothing over.
Ended(s, x, k, S) ==
  /\ x.sender = s.sender /\ x.untold = s.untold /\ x.processing = s.processing
  /\ x.delivered = s.delivered
  /\ \A m \in DOMAIN s.list :
       m <= k => IF s.list[m] \in S THEN x.rx[s.list[m]].state = "DONE"
                 ELSE Same(x.rx[s.list[m]], s.rx[s.list[m]])

\* A step of it.
LEMMA DoneStep ==
  ASSUME NEW s \in HandlerState, IsInjective(s.list), Settled(s), NEW R, NEW N \in Nat, NEW S,
         NEW k \in DOMAIN s.list, NEW x, Loop(s, x, k - 1, R, N), Ended(s, x, k - 1, S),
         NEW y, y = Served("done", x, s.list[k], S, {})
  PROVE  Loop(s, y, k, R, N) /\ Ended(s, y, k, S)
<1>. DEFINE i == s.list[k]
<1>1. /\ Pending(x, i) /\ x.rx[i].state # "ALLOCATE"
      /\ Same(x.rx[i], s.rx[i]) /\ i \in Listed(s) /\ i \in Ids
      /\ x \in HandlerState /\ x.list = s.list /\ Listed(x) = Listed(s) /\ k - 1 \in Nat /\ k \in Nat
  BY LoopNext
<1>2. DOMAIN s.list = 1 .. Len(s.list) /\ Len(s.list) \in Nat
  BY ListedFacts
<1>3. \A m \in DOMAIN s.list : m <= k => m = k \/ m <= k - 1
  BY <1>2
<1>4. CASE i \notin S
  <2>1. y = x
    BY <1>4 DEF Served
  <2>2. Loop(s, x, k, R, N)
    BY LoopIdle
  <2>3. Ended(s, x, k, S)
    BY <1>1, <1>3, <1>4 DEF Ended
  <2>. QED BY <2>1, <2>2, <2>3
<1>5. CASE i \in S
  <2>1. y = Done(x, i)
    BY <1>5 DEF Served
  <2>2. /\ Ends(x, y, i, R) /\ y.sender = x.sender /\ y.untold = x.untold
        /\ y.processing = x.processing /\ y.delivered = x.delivered
    BY SMTT(60), <1>1, <2>1, DoneEnds
  <2>3. y.rx[i].state = "DONE" /\ Result(x, y, i, R)
    BY <2>2 DEF Ends, Result
  <2>4. InTurn(x, y, i)
    BY <2>2, <2>3 DEF InTurn
  <2>5. Loop(s, y, k, R, N) /\ OthersSame(s, x, y, k)
    BY <1>1, <2>3, <2>4, LoopStep
  <2>6. Ended(s, y, k, S)
    <3>1. /\ y.sender = s.sender /\ y.untold = s.untold /\ y.processing = s.processing
          /\ y.delivered = s.delivered
      BY <2>2 DEF Ended
    <3>2. ASSUME NEW m \in DOMAIN s.list, m <= k
          PROVE  IF s.list[m] \in S THEN y.rx[s.list[m]].state = "DONE"
                 ELSE Same(y.rx[s.list[m]], s.rx[s.list[m]])
      <4>1. CASE m = k
        BY SMTT(60), <1>5, <2>3, <4>1
      <4>2. CASE m # k
        <5>1. m <= k - 1 /\ Same(y.rx[s.list[m]], x.rx[s.list[m]])
          BY <1>3, <2>5, <3>2, <4>2 DEF OthersSame
        <5>2. IF s.list[m] \in S THEN x.rx[s.list[m]].state = "DONE"
              ELSE Same(x.rx[s.list[m]], s.rx[s.list[m]])
          BY <5>1 DEF Ended
        <5>. QED BY <5>1, <5>2 DEF Same
      <4>. QED BY <4>1, <4>2
    <3>. QED BY <3>1, <3>2 DEF Ended
  <2>. QED BY <2>5, <2>6
<1>. QED BY <1>4, <1>5

\* After DoneAll(s, S) the receivers in S have ended and the others are as they were.
AllEnded(s, x, S) ==
  /\ x.list = s.list /\ x.sender = s.sender /\ x.untold = s.untold /\ x.processing = s.processing
  /\ x.delivered = s.delivered
  /\ \A i \in Listed(s) : /\ x.rx[i].state # "ALLOCATE" /\ x.rx[i].frameCount = s.rx[i].frameCount
                          /\ IF i \in S THEN x.rx[i].state = "DONE" ELSE Same(x.rx[i], s.rx[i])

\* The loop of handlePendingMessageReceivers() and shutdown() keeps the invariant.
LEMMA DoneAllKeeps ==
  ASSUME NEW s, NEW R, NEW N \in Nat, HandlerInv(s, R, N), Settled(s), NEW S
  PROVE  HandlerInv(DoneAll(s, S), R, N) /\ AllEnded(s, DoneAll(s, S), S)
<1>. DEFINE n == Len(s.list)
<1>1. s \in HandlerState /\ IsInjective(s.list)
  BY DEF HandlerInv
<1>2. DOMAIN s.list = 1 .. n /\ n \in Nat /\ \A i \in Listed(s) : \E m \in DOMAIN s.list : s.list[m] = i
  BY <1>1, ListedFacts
<1>3. PICK after : Runs(after, "done", s, S, {}) /\ DoneAll(s, S) = after[n]
  BY <1>2, DoneAllRuns
<1>4. after[0] = s /\ \A k \in 1 .. n : after[k] = Served("done", after[k - 1], s.list[k], S, {})
  BY <1>3 DEF Runs
<1>. HIDE DEF n
<1>. DEFINE K == {k \in Nat : k <= n => Loop(s, after[k], k, R, N) /\ Ended(s, after[k], k, S)}
<1>5. 0 \in K
  <2>1. Loop(s, s, 0, R, N)
    BY LoopBegins
  <2>2. Ended(s, s, 0, S)
    BY <1>2 DEF Ended
  <2>. QED BY <1>4, <2>1, <2>2
<1>6. ASSUME NEW k \in Nat, k \in K PROVE k + 1 \in K
  <2>. SUFFICES ASSUME k + 1 <= n
                PROVE  Loop(s, after[k + 1], k + 1, R, N) /\ Ended(s, after[k + 1], k + 1, S)
    OBVIOUS
  <2>. DEFINE h == k + 1
  <2>1. h \in DOMAIN s.list /\ h - 1 = k /\ h \in 1 .. n
    BY <1>2
  <2>1a. Loop(s, after[k], k, R, N) /\ Ended(s, after[k], k, S)
    BY <1>2, <1>6
  <2>2. Loop(s, after[h - 1], h - 1, R, N) /\ Ended(s, after[h - 1], h - 1, S)
    BY Zenon, <2>1, <2>1a
  <2>. HIDE DEF h
  <2>3. after[h] = Served("done", after[h - 1], s.list[h], S, {})
    BY <1>4, <2>1
  <2>4. Loop(s, after[h], h, R, N) /\ Ended(s, after[h], h, S)
    BY <1>1, <2>1, <2>2, <2>3, DoneStep
  <2>. QED BY <2>4 DEF h
<1>. HIDE DEF K
<1>7. n \in K
  BY <1>2, <1>5, <1>6, InductionOverSet
<1>8. Loop(s, after[n], n, R, N) /\ Ended(s, after[n], n, S)
  BY <1>2, <1>7 DEF K
<1>9. \A i \in Listed(s) : IF i \in S THEN after[n].rx[i].state = "DONE" ELSE Same(after[n].rx[i], s.rx[i])
  <2>. SUFFICES ASSUME NEW i \in Listed(s)
                PROVE  IF i \in S THEN after[n].rx[i].state = "DONE" ELSE Same(after[n].rx[i], s.rx[i])
    OBVIOUS
  <2>1. PICK m \in DOMAIN s.list : s.list[m] = i
    BY <1>2
  <2>2. m <= n
    BY <1>2
  <2>. QED BY <1>8, <2>1, <2>2 DEF Ended
<1>10. AllEnded(s, after[n], S)
  BY <1>8, <1>9 DEF AllEnded, Ended, Loop
<1>. QED BY <1>3, <1>8, <1>10 DEF Loop

-------------------------------------------------------------------------------
\* The loop of processMessageReceivers() goes on as long as no single frame has been served.
Passed(s, x, k) ==
  ~x.stop => \A m \in DOMAIN s.list : m <= k /\ ~Segmented(s.rx[s.list[m]])
                                        => x.rx[s.list[m]].state = "DONE"

\* A step of it.
LEMMA ProcessStep ==
  ASSUME NEW s \in HandlerState, IsInjective(s.list), Settled(s), NEW R, NEW N \in Nat, NEW e,
         NEW k \in DOMAIN s.list, NEW x, Loop(s, x, k - 1, R, N), Passed(s, x, k - 1),
         NEW y, y = Served("process", x, s.list[k], {}, e)
  PROVE  Loop(s, y, k, R, N) /\ Passed(s, y, k)
<1>. DEFINE i == s.list[k]
            s1 == Allocate(x, i, TRUE, e)
<1>1. /\ Pending(x, i) /\ x.rx[i].state # "ALLOCATE"
      /\ Same(x.rx[i], s.rx[i]) /\ i \in Listed(s) /\ i \in Ids
      /\ x \in HandlerState /\ x.list = s.list /\ Listed(x) = Listed(s) /\ k - 1 \in Nat /\ k \in Nat
  BY LoopNext
<1>2. DOMAIN s.list = 1 .. Len(s.list) /\ Len(s.list) \in Nat
  BY ListedFacts
<1>3. \A m \in DOMAIN s.list : m <= k => m = k \/ m <= k - 1
  BY <1>2
<1>4. y = ProcessReceiver(x, i, e)
  BY DEF Served
<1>5. ReceiversInv(x) /\ ContentInv(x, R) /\ TurnsInv(x)
  BY DEF Loop, HandlerInv
<1>6. Sound(x.rx[i])
  BY <1>1, <1>5 DEF ReceiversInv, Pending
<1>7. ASSUME NEW b \in BOOLEAN, NEW u, Loop(s, u, k, R, N), NEW v, v = [u EXCEPT !.stop = b]
      PROVE  Loop(s, v, k, R, N) /\ v.stop = b /\ v.rx = u.rx
  <2>1. HandlerInv(u, R, N)
    BY <1>7 DEF Loop
  <2>2. HandlerInv(v, R, N) /\ v.stop = b /\ v.list = u.list /\ v.rx = u.rx
    BY <1>7, <2>1, StopKeeps
  <2>. QED BY <1>7, <2>2 DEF Loop
<1>8. CASE x.stop \/ ~x.rx[i].allocating
  <2>1. y = x
    BY <1>4, <1>8 DEF ProcessReceiver
  <2>2. Loop(s, x, k, R, N)
    BY LoopIdle
  <2>3. ~x.stop => Segmented(s.rx[i])
    BY <1>1, <1>6, <1>8 DEF Sound, Same, Segmented
  <2>4. Passed(s, x, k)
    BY <1>3, <2>3 DEF Passed
  <2>. QED BY <2>1, <2>2, <2>4
<1>9. CASE ~x.stop /\ x.rx[i].allocating
  <2>1. y = [s1 EXCEPT !.stop = ~s1.rx[i].message]
    BY <1>4, <1>9 DEF ProcessReceiver
  <2>2. Asks(x.rx[i], i, x.sender[x.rx[i].address], R)
    BY <1>1, <1>5, <1>9, PendingAsks
  <2>. DEFINE b == ~s1.rx[i].message
  <2>3. b \in BOOLEAN
    OBVIOUS
  <2>3a. s1 = Allocate(x, i, TRUE, e)
    BY SMTT(60)
  <2>. HIDE DEF s1
  <2>4. AllocateOutcome(x, s1, i, R, TRUE)
    BY <1>1, <2>2, <2>3a, AllocateResult
  <2>5. CASE s1 = x
    <3>1. Loop(s, s1, k, R, N)
      BY <2>5, LoopIdle
    <3>2. Loop(s, y, k, R, N) /\ y.stop = b
      <4>1. y = [s1 EXCEPT !.stop = b]
        BY <2>1
      <4>. HIDE DEF b
      <4>. QED BY <1>7, <2>3, <3>1, <4>1
    <3>3. b
      BY <1>6, <1>9, <2>5 DEF Sound
    <3>. QED BY <3>2, <3>3 DEF Passed
  <2>6. CASE Result(x, s1, i, R) /\ (~Segmented(x.rx[i]) => Ends(x, s1, i, R))
    <3>1. \A m \in DOMAIN x.list : m < k /\ ~Segmented(x.rx[x.list[m]]) => ~Pending(x, x.list[m])
      <4>. SUFFICES ASSUME NEW m \in DOMAIN s.list, m < k, ~Segmented(x.rx[s.list[m]])
                    PROVE  ~Pending(x, s.list[m])
        BY <1>1
      <4>1. m <= k - 1 /\ s.list[m] \in Listed(s)
        BY <1>2, ListedFacts
      <4>2. ~Segmented(s.rx[s.list[m]])
        BY <4>1 DEF Loop, Segmented
      <4>. QED BY <1>9, <4>1, <4>2 DEF Passed, Pending
    <3>2. IsInjective(x.list) /\ k \in DOMAIN x.list /\ x.list[k] = i
      BY <1>1
    <3>3. Turn(x, x.list[k])
      BY <1>1, <1>5, <3>1, <3>2, TurnOf
    <3>4. InTurn(x, s1, i)
      BY <2>6, <3>2, <3>3 DEF InTurn, Ends
    <3>5. Loop(s, s1, k, R, N) /\ OthersSame(s, x, s1, k)
      BY <1>1, <2>6, <3>4, LoopStep
    <3>6. Loop(s, y, k, R, N) /\ y.stop = b /\ y.rx = s1.rx
      BY <1>7, <2>1, <2>3, <3>5
    <3>7. ~y.stop => Segmented(s.rx[i])
      <4>1. ~Segmented(x.rx[i]) => b
        BY SMTT(60), <2>6 DEF Ends
      <4>. HIDE DEF b
      <4>. QED BY <1>1, <3>6, <4>1 DEF Same, Segmented
    <3>8. Passed(s, y, k)
      <4>. SUFFICES ASSUME ~y.stop, NEW m \in DOMAIN s.list, m <= k, ~Segmented(s.rx[s.list[m]])
                    PROVE  y.rx[s.list[m]].state = "DONE"
        BY DEF Passed
      <4>1. m # k /\ m <= k - 1
        BY <1>3, <3>7
      <4>2. x.rx[s.list[m]].state = "DONE"
        BY <1>9, <4>1 DEF Passed
      <4>. QED BY <3>5, <3>6, <4>1, <4>2 DEF OthersSame, Same
    <3>. QED BY <3>6, <3>8
  <2>. QED BY <2>4, <2>5, <2>6 DEF AllocateOutcome
<1>. QED BY <1>8, <1>9

\* The loop of processMessageReceivers() keeps the invariant.
LEMMA ProcessAllKeeps ==
  ASSUME NEW s, NEW R, NEW N \in Nat, HandlerInv(s, R, N), Settled(s), NEW e
  PROVE  /\ HandlerInv(ProcessAll(s, e), R, N) /\ ProcessAll(s, e).list = s.list
         /\ \A i \in Listed(s) : ProcessAll(s, e).rx[i].state # "ALLOCATE"
<1>. DEFINE n == Len(s.list)
<1>1. s \in HandlerState /\ IsInjective(s.list)
  BY DEF HandlerInv
<1>2. DOMAIN s.list = 1 .. n /\ n \in Nat
  BY <1>1, ListedFacts
<1>3. PICK after : Runs(after, "process", s, {}, e) /\ ProcessAll(s, e) = after[n]
  BY <1>2, ProcessAllRuns
<1>4. after[0] = s /\ \A k \in 1 .. n : after[k] = Served("process", after[k - 1], s.list[k], {}, e)
  BY <1>3 DEF Runs
<1>. HIDE DEF n
<1>. DEFINE K == {k \in Nat : k <= n => Loop(s, after[k], k, R, N) /\ Passed(s, after[k], k)}
<1>5. 0 \in K
  <2>1. Loop(s, s, 0, R, N)
    BY LoopBegins
  <2>2. Passed(s, s, 0)
    BY <1>2 DEF Passed
  <2>. QED BY <1>4, <2>1, <2>2
<1>6. ASSUME NEW k \in Nat, k \in K PROVE k + 1 \in K
  <2>. SUFFICES ASSUME k + 1 <= n
                PROVE  Loop(s, after[k + 1], k + 1, R, N) /\ Passed(s, after[k + 1], k + 1)
    OBVIOUS
  <2>. DEFINE h == k + 1
  <2>1. h \in DOMAIN s.list /\ h - 1 = k /\ h \in 1 .. n
    BY <1>2
  <2>1a. Loop(s, after[k], k, R, N) /\ Passed(s, after[k], k)
    BY <1>2, <1>6
  <2>2. Loop(s, after[h - 1], h - 1, R, N) /\ Passed(s, after[h - 1], h - 1)
    BY Zenon, <2>1, <2>1a
  <2>. HIDE DEF h
  <2>3. after[h] = Served("process", after[h - 1], s.list[h], {}, e)
    BY <1>4, <2>1
  <2>4. Loop(s, after[h], h, R, N) /\ Passed(s, after[h], h)
    BY <1>1, <2>1, <2>2, <2>3, ProcessStep
  <2>. QED BY <2>4 DEF h
<1>. HIDE DEF K
<1>7. n \in K
  BY <1>2, <1>5, <1>6, InductionOverSet
<1>8. Loop(s, after[n], n, R, N)
  BY <1>2, <1>7 DEF K
<1>. QED BY <1>3, <1>8 DEF Loop

\* The receiver at place i of the list l is sorted before the one at place k.
SortedBefore(l, r, i, k) == Less(r[l[i]], r[l[k]]) \/ (~Less(r[l[k]], r[l[i]]) /\ i < k)

\* The list q is l sorted: the receiver at place k goes to rank[k].
SortedBy(q, l, r, rank) ==
  /\ q \in Seq(Ids) /\ DOMAIN q = DOMAIN l /\ ToSet(q) = ToSet(l)
  /\ IsInjective(l) => IsInjective(q)
  /\ \A k \in DOMAIN l : rank[k] \in DOMAIN l /\ q[rank[k]] = l[k]
  /\ \A m \in DOMAIN l : \E k \in DOMAIN l : rank[k] = m
  /\ \A i, k \in DOMAIN l : rank[i] < rank[k] <=> SortedBefore(l, r, i, k)

Sorted(q, l, r) == \E rank : SortedBy(q, l, r, rank)

\* That is what the stable sort does.
LEMMA SortedListFacts ==
  ASSUME NEW l \in Seq(Ids), NEW r \in [Ids -> Receiver]
  PROVE  Sorted(SortedList(l, r), l, r)
<1>. DEFINE n == Len(l)
            Earlier(i, k) == Less(r[l[i]], r[l[k]]) \/ (~Less(r[l[k]], r[l[i]]) /\ i < k)
            R == {p \in (1 .. n) \X (1 .. n) : Earlier(p[1], p[2])}
            Rank(k) == Cardinality({i \in DOMAIN l : Earlier(i, k)}) + 1
            rank == [k \in 1 .. n |-> Rank(k)]
            set == [i \in 1 .. n |-> r[l[i]].timerSet]
            time == [i \in 1 .. n |-> r[l[i]].timer]
<1>1. n \in Nat /\ DOMAIN l = 1 .. n /\ \A i \in 1 .. n : l[i] \in Ids
  OBVIOUS
<1>2. \A i \in 1 .. n : set[i] \in BOOLEAN /\ time[i] \in Int
  <2>1. \A m \in Ids : r[m].timerSet \in BOOLEAN /\ r[m].timer \in Int
    BY DEF Receiver
  <2>. QED BY <1>1, <2>1
<1>3. \A i, k \in 1 .. n : Less(r[l[i]], r[l[k]]) <=> set[i] /\ (set[k] => time[i] < time[k])
  BY DEF Less
<1>4. \A i, k \in 1 .. n : <<i, k>> \in R <=> Earlier(i, k)
  OBVIOUS
<1>5. \A i, k \in 1 .. n :
        Earlier(i, k) <=> \/ set[i] /\ (set[k] => time[i] < time[k])
                          \/ ~(set[k] /\ (set[i] => time[k] < time[i])) /\ i < k
  BY <1>3
<1>5a. \A i, k \in 1 .. n : Earlier(i, k) <=> SortedBefore(l, r, i, k)
  BY DEF SortedBefore
<1>. HIDE DEF R, set, time, Earlier
<1>6. \A i \in 1 .. n : <<i, i>> \notin R
  BY <1>2, <1>4, <1>5
<1>7. \A i, j, k \in 1 .. n : <<i, j>> \in R /\ <<j, k>> \in R => <<i, k>> \in R
  <2>. SUFFICES ASSUME NEW i \in 1 .. n, NEW j \in 1 .. n, NEW k \in 1 .. n,
                       Earlier(i, j), Earlier(j, k)
                PROVE  Earlier(i, k)
    BY <1>4
  <2>1. /\ time[i] \in Int /\ time[j] \in Int /\ time[k] \in Int /\ i \in Int /\ j \in Int /\ k \in Int
        /\ set[i] \in BOOLEAN /\ set[j] \in BOOLEAN /\ set[k] \in BOOLEAN
    BY <1>1, <1>2
  <2>2. CASE ~set[i]
    BY <1>5, <2>1, <2>2
  <2>3. CASE set[i] /\ set[j] /\ set[k]
    BY <1>5, <2>1, <2>3
  <2>4. CASE set[i] /\ ~set[k]
    BY <1>5, <2>1, <2>4
  <2>5. CASE set[i] /\ ~set[j] /\ set[k]
    BY <1>5, <2>1, <2>5
  <2>. QED BY <2>2, <2>3, <2>4, <2>5
<1>8. \A i, j \in 1 .. n : i # j => <<i, j>> \in R \/ <<j, i>> \in R
  BY <1>1, <1>2, <1>4, <1>5
<1>9. \A k \in 1 .. n : rank[k] = Cardinality({i \in 1 .. n : <<i, k>> \in R}) + 1
  <2>. SUFFICES ASSUME NEW k \in 1 .. n
                PROVE  rank[k] = Cardinality({i \in 1 .. n : <<i, k>> \in R}) + 1
    OBVIOUS
  <2>1. {i \in DOMAIN l : Earlier(i, k)} = {i \in 1 .. n : <<i, k>> \in R}
    BY <1>1, <1>4
  <2>. QED BY <2>1
<1>. DEFINE p == [m \in DOMAIN l |-> CHOOSE k \in DOMAIN l : Rank(k) = m]
<1>10. SortedList(l, r) = [m \in DOMAIN l |-> l[p[m]]]
  BY DEF SortedList, Earlier
<1>10a. \A k \in DOMAIN l : rank[k] = Rank(k)
  BY <1>1
<1>. HIDE DEF rank, Rank, n
<1>11. /\ \A k \in 1 .. n : rank[k] \in 1 .. n
       /\ \A i, k \in 1 .. n : <<i, k>> \in R <=> rank[i] < rank[k]
       /\ \A m \in 1 .. n : \E k \in 1 .. n : rank[k] = m
  BY ONLY <1>1, <1>6, <1>7, <1>8, <1>9, RanksAreOrder
<1>12. \A i, k \in 1 .. n : rank[i] = rank[k] => i = k
  <2>. SUFFICES ASSUME NEW i \in 1 .. n, NEW k \in 1 .. n, rank[i] = rank[k] PROVE i = k
    OBVIOUS
  <2>1. rank[i] \in Int /\ ~(rank[i] < rank[k]) /\ ~(rank[k] < rank[i])
    BY SMTT(60), <1>1, <1>11
  <2>. QED BY <1>8, <1>11, <2>1
<1>12a. \A m \in DOMAIN l : p[m] \in DOMAIN l /\ rank[p[m]] = m
  <2>. SUFFICES ASSUME NEW m \in DOMAIN l PROVE p[m] \in DOMAIN l /\ rank[p[m]] = m
    OBVIOUS
  <2>1. \E k \in DOMAIN l : Rank(k) = m
    BY <1>1, <1>10a, <1>11
  <2>2. p[m] = CHOOSE k \in DOMAIN l : Rank(k) = m
    OBVIOUS
  <2>3. p[m] \in DOMAIN l /\ Rank(p[m]) = m
    BY <2>1, <2>2
  <2>. QED BY <1>10a, <2>3
<1>. DEFINE q == SortedList(l, r)
<1>13. q \in [DOMAIN l -> Ids] /\ Ranked(q, l, rank, p)
  <2>. HIDE DEF p
  <2>1. \A m \in DOMAIN l : q[m] = l[p[m]]
    BY <1>10
  <2>2. q = [m \in DOMAIN l |-> l[p[m]]]
    BY <1>10
  <2>. HIDE DEF q
  <2>3. \A m \in DOMAIN l : l[p[m]] \in Ids
    BY <1>1, <1>12a
  <2>4. q \in [DOMAIN l -> Ids]
    BY <2>2, <2>3
  <2>5. Ranked(q, l, rank, p)
    BY <1>1, <1>11, <1>12, <1>12a, <2>1 DEF Ranked
  <2>. QED BY <2>4, <2>5
<1>. HIDE DEF q, p
<1>14. /\ q \in Seq(Ids) /\ DOMAIN q = DOMAIN l /\ ToSet(q) = ToSet(l)
       /\ \A k \in DOMAIN l : q[rank[k]] = l[k]
       /\ IsInjective(l) => IsInjective(q)
  BY ONLY l \in Seq(Ids), <1>13, RankedSequence
<1>15. \A i, k \in DOMAIN l : rank[i] < rank[k] <=> SortedBefore(l, r, i, k)
  BY <1>1, <1>4, <1>5a, <1>11
<1>16. SortedBy(q, l, r, rank)
  BY <1>1, <1>11, <1>14, <1>15 DEF SortedBy
<1>. QED BY <1>16 DEF q, Sorted

\* The end of cyclicTask() keeps the invariant, and the list has the same receivers.
LEMMA SortKeeps ==
  ASSUME NEW s, NEW R, NEW N, HandlerInv(s, R, N), \A i \in Listed(s) : s.rx[i].state # "ALLOCATE",
         NEW t, t = SortedIfUpdated(s)
  PROVE  /\ HandlerInv(t, R, N) /\ Listed(t) = Listed(s) /\ t.rx = s.rx
         /\ DOMAIN t.list = DOMAIN s.list
<1>. DEFINE q == SortedList(s.list, s.rx)
<1>1. s \in HandlerState
  BY DEF HandlerInv
<1>2. s.list \in Seq(Ids) /\ s.rx \in [Ids -> Receiver]
  BY <1>1 DEF HandlerState
<1>3. CASE ~s.updated
  BY <1>3 DEF SortedIfUpdated
<1>4. CASE s.updated
  <2>1. t = [s EXCEPT !.list = q, !.updated = FALSE]
    BY <1>4 DEF SortedIfUpdated
  <2>2. PICK rank : SortedBy(q, s.list, s.rx, rank)
    <3>1. Sorted(q, s.list, s.rx)
      BY <1>2, SortedListFacts
    <3>. HIDE DEF q
    <3>. QED BY <3>1 DEF Sorted
  <2>. HIDE DEF q
  <2>3. q \in Seq(Ids) /\ DOMAIN q = DOMAIN s.list /\ ToSet(q) = ToSet(s.list)
        /\ (IsInjective(s.list) => IsInjective(q))
    BY <2>2 DEF SortedBy
  <2>4. /\ t \in HandlerState /\ t.list = q /\ t.rx = s.rx /\ t.free = s.free
        /\ t.processing = s.processing /\ t.delivered = s.delivered /\ t.sender = s.sender
        /\ t.untold = s.untold /\ t.released = s.released
    BY <1>1, <2>1, <2>3 DEF HandlerState
  <2>5. Listed(t) = Listed(s) /\ Finished(t) = Finished(s) /\ Holding(t) = Holding(s)
    BY <2>3, <2>4 DEF Listed, Finished, Holding
  <2>6. \A k : Pending(t, k) <=> Pending(s, k)
    BY <2>4, <2>5 DEF Pending
  <2>7. /\ ReceiversInv(s) /\ CountsInv(s) /\ TimersInv(s) /\ SendersInv(s) /\ ContentInv(s, R)
        /\ DeliveredInv(s, R) /\ NumbersInv(s, N) /\ TurnsInv(s) /\ OrderInv(s) /\ IsInjective(s.list)
    BY DEF HandlerInv
  <2>8. ReceiversInv(t)
    BY <2>4, <2>5, <2>7 DEF ReceiversInv
  <2>9. CountsInv(t)
    BY <2>4, <2>5, <2>7 DEF CountsInv
  <2>10. SendersInv(t)
    BY <2>4, <2>7 DEF SendersInv
  <2>11. ContentInv(t, R)
    BY <2>4, <2>5, <2>6, <2>7 DEF ContentInv
  <2>12. DeliveredInv(t, R)
    BY <2>4, <2>7 DEF DeliveredInv
  <2>13. NumbersInv(t, N)
    BY <2>4, <2>5, <2>6, <2>7 DEF NumbersInv
  <2>14. OrderInv(t)
    BY <2>4, <2>5, <2>6, <2>7 DEF OrderInv
  <2>. DEFINE D == DOMAIN s.list
  <2>15. \A k \in D : /\ s.list[k] \in Listed(s) /\ s.list[k] \in Ids
                      /\ s.rx[s.list[k]].timerSet \in BOOLEAN /\ s.rx[s.list[k]].timer \in Int
                      /\ s.rx[s.list[k]].state = "WAIT" => s.rx[s.list[k]].timerSet
    <3>. SUFFICES ASSUME NEW k \in D
                  PROVE  /\ s.list[k] \in Listed(s) /\ s.list[k] \in Ids
                         /\ s.rx[s.list[k]].timerSet \in BOOLEAN /\ s.rx[s.list[k]].timer \in Int
                         /\ s.rx[s.list[k]].state = "WAIT" => s.rx[s.list[k]].timerSet
      OBVIOUS
    <3>1. s.list[k] \in Listed(s) /\ s.list[k] \in Ids
      BY <1>1, ListedFacts
    <3>2. s.rx[s.list[k]] \in Receiver
      BY <1>2, <3>1
    <3>3. s.rx[s.list[k]].state = "WAIT" => s.rx[s.list[k]].timerSet
      BY <2>7, <3>1 DEF ReceiversInv, Sound
    <3>. QED BY <3>1, <3>2, <3>3 DEF Receiver
  <2>16. D = 1 .. Len(s.list) /\ Len(s.list) \in Nat
    BY <1>1, ListedFacts
  <2>17. TimersInv(t)
    <3>. SUFFICES ASSUME NEW m \in D, NEW n \in D, m < n,
                         s.rx[q[m]].state = "WAIT", s.rx[q[n]].state = "WAIT"
                  PROVE  s.rx[q[m]].timer <= s.rx[q[n]].timer
      BY <2>3, <2>4 DEF TimersInv
    <3>1. PICK i \in D, k \in D : rank[i] = m /\ rank[k] = n
      BY <2>2 DEF SortedBy
    <3>2. SortedBefore(s.list, s.rx, i, k) /\ q[m] = s.list[i] /\ q[n] = s.list[k]
      BY <2>2, <3>1 DEF SortedBy
    <3>. DEFINE x == s.rx[s.list[i]]  y == s.rx[s.list[k]]
    <3>3. x.timerSet /\ y.timerSet /\ x.timer \in Int /\ y.timer \in Int
      BY <2>15, <3>2
    <3>4. Less(x, y) \/ ~Less(y, x)
      BY <3>2 DEF SortedBefore
    <3>. HIDE DEF x, y
    <3>5. x.timer <= y.timer
      BY <3>3, <3>4 DEF Less
    <3>. QED BY <3>2, <3>5 DEF x, y
  <2>18. TurnsInv(t)
    <3>. SUFFICES ASSUME NEW j \in Listed(s), NEW k \in Listed(s), Pending(s, j), Pending(s, k), j < k,
                         s.rx[j].address = s.rx[k].address, s.rx[k].address \notin s.untold
                  PROVE  /\ ~Segmented(s.rx[j]) /\ s.rx[j].state = "WAIT" /\ s.rx[k].allocating
                         /\ Before(q, j, k)
                         /\ s.rx[k].state = "WAIT" => s.rx[j].timer <= s.rx[k].timer
      BY <2>4, <2>5, <2>6 DEF TurnsInv
    <3>1. /\ ~Segmented(s.rx[j]) /\ s.rx[j].state = "WAIT" /\ s.rx[k].allocating
          /\ Before(s.list, j, k)
          /\ s.rx[k].state = "WAIT" => s.rx[j].timer <= s.rx[k].timer
      BY <2>7 DEF TurnsInv
    <3>2. PICK m \in D, n \in D : m < n /\ s.list[m] = j /\ s.list[n] = k
      BY <3>1 DEF Before
    <3>3. Sound(s.rx[k]) /\ s.rx[k].state # "ALLOCATE"
          /\ (s.rx[k].state = "SEND" /\ s.rx[k].allocating => s.rx[k].address \in s.untold)
      BY <2>7 DEF ReceiversInv, Pending
    <3>4. s.rx[k].state = "WAIT"
      BY <3>1, <3>3 DEF Sound
    <3>5. ~Less(s.rx[k], s.rx[j])
      <4>. DEFINE x == s.rx[j]  y == s.rx[k]
      <4>1. x.timerSet /\ y.timerSet /\ x.timer \in Int /\ y.timer \in Int /\ x.timer <= y.timer
        BY <2>15, <3>1, <3>2, <3>4
      <4>. HIDE DEF x, y
      <4>2. ~Less(y, x)
        BY <4>1 DEF Less
      <4>. QED BY <4>2 DEF x, y
    <3>6. SortedBefore(s.list, s.rx, m, n)
      BY <3>2, <3>5 DEF SortedBefore
    <3>7. rank[m] < rank[n] /\ rank[m] \in D /\ rank[n] \in D /\ q[rank[m]] = j /\ q[rank[n]] = k
      BY <2>2, <3>2, <3>6 DEF SortedBy
    <3>8. Before(q, j, k)
      BY <2>3, <3>7 DEF Before
    <3>. QED BY <3>1, <3>8
  <2>. QED BY <2>3, <2>4, <2>5, <2>7, <2>8, <2>9, <2>10, <2>11, <2>12, <2>13, <2>14, <2>17, <2>18 DEF HandlerInv
<1>. QED BY <1>3, <1>4

\* releaseRemoveLock() finds as many finished receivers as were released.
LEMMA AllLeave ==
  ASSUME NEW s \in HandlerState, IsInjective(s.list), CountsInv(s),
         NEW done, done = {n \in DOMAIN s.list : s.rx[s.list[n]].state = "DONE"}
  PROVE  /\ {s.list[n] : n \in {n \in done : Cardinality({h \in done : h < n}) < s.released}} = Finished(s)
         /\ ~(s.released > Cardinality(done))
<1>1. /\ DOMAIN s.list = 1 .. Len(s.list) /\ Len(s.list) \in Nat
      /\ \A n \in DOMAIN s.list : s.list[n] \in Listed(s)
      /\ \A k \in Listed(s) : \E n \in DOMAIN s.list : s.list[n] = k
  BY ListedFacts
<1>2. IsFiniteSet(done) /\ Cardinality(done) \in Nat
  <2>1. IsFiniteSet(DOMAIN s.list)
    BY <1>1, FS_Interval
  <2>2. done \in SUBSET (DOMAIN s.list)
    OBVIOUS
  <2>. QED BY <2>1, <2>2, FS_Subset, FS_CardinalityType
<1>. DEFINE F == [n \in done |-> s.list[n]]
<1>3. Finished(s) = {s.list[n] : n \in done}
  BY <1>1 DEF Finished
<1>4. Cardinality(Finished(s)) = Cardinality(done)
  <2>1. F \in [done -> Finished(s)]
    BY <1>3
  <2>2. \A a, b \in done : F[a] = F[b] => a = b
    BY DEF IsInjective
  <2>3. \A t \in Finished(s) : \E n \in done : F[n] = t
    BY <1>3
  <2>. HIDE DEF F
  <2>4. F \in Bijection(done, Finished(s))
    BY <2>1, <2>2, <2>3, Fun_IsBij
  <2>5. ExistsBijection(done, Finished(s))
    BY <2>4 DEF ExistsBijection
  <2>. QED BY <1>2, <2>5, FS_Bijection
<1>5. s.released = Cardinality(done)
  BY <1>4 DEF CountsInv
<1>6. ASSUME NEW n \in done PROVE Cardinality({h \in done : h < n}) < Cardinality(done)
  <2>. DEFINE B == {h \in done : h < n}
  <2>1. n \notin B /\ B \in SUBSET done
    BY SMTT(60), <1>1
  <2>2. IsFiniteSet(B) /\ Cardinality(B) <= Cardinality(done) /\ (Cardinality(done) = Cardinality(B) => done = B)
    BY SMTT(60), <1>2, <2>1, FS_Subset
  <2>3. Cardinality(B) \in Nat /\ done # B
    BY <2>1, <2>2, FS_CardinalityType
  <2>. HIDE DEF B
  <2>4. Cardinality(B) < Cardinality(done)
    BY <1>2, <2>2, <2>3
  <2>. QED BY <2>4 DEF B
<1>7. {n \in done : Cardinality({h \in done : h < n}) < s.released} = done
  BY <1>5, <1>6
<1>8. ~(s.released > Cardinality(done))
  BY <1>2, <1>5
<1>. QED BY <1>3, <1>7, <1>8

\* The list c is l without the receivers outside S.
Thinned(c, l, S) ==
  c \in Seq(Ids) /\ IsInjective(c) /\ ToSet(c) = ToSet(l) \cap S /\ Len(c) <= Len(l) /\ PartOf(c, l)

\* It is what remains of the list.
LEMMA RemainsThinned ==
  ASSUME NEW l \in Seq(Ids), IsInjective(l), NEW gone
  PROVE  Thinned(IF gone = {} THEN l ELSE Chosen(l, Ids \ gone), l, Ids \ gone)
<1>1. CASE gone = {}
  <2>1. Ordered(l, l, [n \in DOMAIN l |-> n])
    BY DEF Ordered
  <2>2. PartOf(l, l)
    BY <2>1 DEF PartOf
  <2>3. ToSet(l) \subseteq Ids
    BY DEF ToSet
  <2>4. ToSet(l) = ToSet(l) \cap (Ids \ gone)
    BY <1>1, <2>3
  <2>5. Len(l) <= Len(l)
    <3>1. Len(l) \in Nat
      OBVIOUS
    <3>. QED BY <3>1
  <2>. QED BY <1>1, <2>2, <2>4, <2>5 DEF Thinned
<1>2. CASE gone # {}
  <2>. DEFINE c == Chosen(l, Ids \ gone)
  <2>1. c \in Seq(Ids) /\ ToSet(c) = ToSet(l) \cap (Ids \ gone) /\ (IsInjective(l) => IsInjective(c))
    BY ChosenFacts
  <2>2. PartOf(c, l) /\ Len(c) <= Len(l)
    BY ChosenOrder
  <2>3. Thinned(c, l, Ids \ gone)
    BY <2>1, <2>2 DEF Thinned
  <2>. QED BY <1>2, <2>3
<1>. QED BY <1>1, <1>2

\* A receiver nobody uses.
LEMMA UnusedFacts ==
  Unused \in Receiver
<1>. DEFINE a == CHOOSE x \in Addresses : TRUE
<1>1. a \in Addresses
  BY ConstantFacts
<1>2. MaxFrames \in FrameCounts /\ 1 \in 1 .. MaxFrames
  BY MaxFramesFacts
<1>3. "ALLOCATE" \in States /\ "NONE" \in Timeouts /\ <<>> \in Seq(Frame)
  BY DEF States, Timeouts
<1>4. Unused = NewReceiver(a, MaxFrames, FALSE)
  BY DEF Unused
<1>. HIDE DEF a
<1>. QED BY <1>1, <1>2, <1>3, <1>4 DEF NewReceiver, Receiver

\* The state t after releaseRemoveLock(): the finished receivers have left, the rest is as in s.
Left(s, t) ==
  /\ t \in HandlerState /\ Thinned(t.list, s.list, Ids \ Finished(s))
  /\ \A k \in Listed(t) : t.rx[k] = s.rx[k]
  /\ t.updated = s.updated /\ t.free = s.free /\ t.processing = s.processing
  /\ t.delivered = s.delivered /\ t.sender = s.sender /\ t.untold = s.untold /\ t.released = 0

\* releaseRemoveLock() keeps the invariant.
LEMMA LeftKeeps ==
  ASSUME NEW s, NEW R, NEW N, HandlerInv(s, R, N), \A i \in Listed(s) : s.rx[i].state # "ALLOCATE",
         NEW t, Left(s, t)
  PROVE  HandlerInv(t, R, N) /\ Settled(t) /\ Len(t.list) <= Len(s.list)
<1>1. s \in HandlerState
  BY DEF HandlerInv
<1>2. /\ ReceiversInv(s) /\ CountsInv(s) /\ TimersInv(s) /\ SendersInv(s) /\ ContentInv(s, R)
      /\ DeliveredInv(s, R) /\ NumbersInv(s, N) /\ TurnsInv(s) /\ OrderInv(s) /\ IsInjective(s.list)
  BY DEF HandlerInv
<1>3. /\ t \in HandlerState /\ IsInjective(t.list) /\ Len(t.list) <= Len(s.list)
      /\ PartOf(t.list, s.list)
      /\ \A k \in Listed(t) : t.rx[k] = s.rx[k]
      /\ t.updated = s.updated /\ t.free = s.free /\ t.processing = s.processing
      /\ t.delivered = s.delivered /\ t.sender = s.sender /\ t.untold = s.untold /\ t.released = 0
  BY DEF Left, Thinned
<1>4. Listed(t) = Listed(s) \ Finished(s)
  <2>1. Listed(t) = Listed(s) \cap (Ids \ Finished(s))
    BY DEF Left, Thinned, Listed
  <2>2. Listed(s) \subseteq Ids
    BY <1>1, ListedFacts
  <2>. QED BY <2>1, <2>2
<1>5. \A k \in Listed(t) : k \in Listed(s) /\ t.rx[k] = s.rx[k] /\ s.rx[k].state # "DONE"
  BY <1>3, <1>4 DEF Finished
<1>6. \A k : Pending(t, k) => Pending(s, k) /\ t.rx[k] = s.rx[k] /\ k \in Listed(t) /\ k \in Listed(s)
  BY <1>5 DEF Pending
<1>7. Finished(t) = {}
  BY <1>5 DEF Finished
<1>8. Holding(t) = Holding(s)
  <2>1. \A k \in Listed(s) : s.rx[k].message => k \notin Finished(s)
    BY <1>2 DEF ReceiversInv, Finished
  <2>. QED BY <1>4, <1>5, <2>1 DEF Holding
<1>9. ReceiversInv(t)
  BY <1>2, <1>3, <1>5 DEF ReceiversInv
<1>10. CountsInv(t)
  BY <1>2, <1>3, <1>7, <1>8, FS_EmptySet DEF CountsInv
<1>11. SendersInv(t)
  BY <1>2, <1>3 DEF SendersInv
<1>12. ContentInv(t, R)
  BY <1>2, <1>3, <1>6 DEF ContentInv
<1>13. DeliveredInv(t, R)
  BY <1>2, <1>3 DEF DeliveredInv
<1>14. NumbersInv(t, N)
  BY <1>2, <1>3, <1>5, <1>6 DEF NumbersInv
<1>15. OrderInv(t)
  BY <1>2, <1>3, <1>6 DEF OrderInv
<1>16. PICK g : Ordered(t.list, s.list, g)
  BY <1>3 DEF PartOf
<1>17. \A x \in DOMAIN t.list : /\ g[x] \in DOMAIN s.list /\ t.list[x] = s.list[g[x]]
                                /\ t.list[x] \in Listed(t)
                                /\ \A y \in DOMAIN t.list : x < y => g[x] < g[y]
  BY SMTT(60), <1>16 DEF Ordered, Listed, ToSet
<1>18. TimersInv(t)
  <2>. SUFFICES ASSUME ~t.updated, NEW m \in DOMAIN t.list, NEW n \in DOMAIN t.list, m < n,
                       t.rx[t.list[m]].state = "WAIT", t.rx[t.list[n]].state = "WAIT"
                PROVE  t.rx[t.list[m]].timer <= t.rx[t.list[n]].timer
    BY DEF TimersInv
  <2>1. /\ g[m] \in DOMAIN s.list /\ g[n] \in DOMAIN s.list /\ g[m] < g[n]
        /\ t.list[m] = s.list[g[m]] /\ t.list[n] = s.list[g[n]]
        /\ t.rx[t.list[m]] = s.rx[t.list[m]] /\ t.rx[t.list[n]] = s.rx[t.list[n]]
    BY <1>5, <1>17
  <2>. QED BY <1>2, <1>3, <2>1 DEF TimersInv
<1>19. TurnsInv(t)
  <2>. SUFFICES ASSUME NEW j \in Listed(t), NEW k \in Listed(t), Pending(t, j), Pending(t, k), j < k,
                       t.rx[j].address = t.rx[k].address, t.rx[k].address \notin t.untold
                PROVE  /\ ~Segmented(t.rx[j]) /\ t.rx[j].state = "WAIT" /\ t.rx[k].allocating
                       /\ Before(t.list, j, k)
                       /\ t.rx[k].state = "WAIT" => t.rx[j].timer <= t.rx[k].timer
    BY DEF TurnsInv
  <2>1. /\ ~Segmented(t.rx[j]) /\ t.rx[j].state = "WAIT" /\ t.rx[k].allocating
        /\ Before(s.list, j, k)
        /\ t.rx[k].state = "WAIT" => t.rx[j].timer <= t.rx[k].timer
    BY <1>2, <1>3, <1>6 DEF TurnsInv
  <2>2. PICK m \in DOMAIN s.list, n \in DOMAIN s.list : m < n /\ s.list[m] = j /\ s.list[n] = k
    BY <2>1 DEF Before
  <2>3. PICK x \in DOMAIN t.list, y \in DOMAIN t.list : t.list[x] = j /\ t.list[y] = k
    BY <1>3, ListedFacts
  <2>4. g[x] = m /\ g[y] = n
    BY <1>2, <1>17, <2>2, <2>3 DEF IsInjective
  <2>5. x < y
    <3>1. DOMAIN t.list \subseteq Nat /\ DOMAIN s.list \subseteq Nat
      <4>1. t.list \in Seq(Ids) /\ s.list \in Seq(Ids)
        BY <1>1, <1>3 DEF HandlerState
      <4>. QED BY <4>1
    <3>2. x < y \/ y < x \/ x = y
      BY <3>1
    <3>3. ~(y < x)
      BY <1>17, <2>2, <2>4, <3>1
    <3>4. x # y
      BY <2>2, <2>4, <3>1
    <3>. QED BY <3>2, <3>3, <3>4
  <2>6. Before(t.list, j, k)
    BY <2>3, <2>5 DEF Before
  <2>. QED BY <2>1, <2>6
<1>20. Settled(t)
  BY <1>5 DEF Settled
<1>. QED BY <1>3, <1>2, <1>9, <1>10, <1>11, <1>12, <1>13, <1>14, <1>15, <1>18, <1>19, <1>20 DEF HandlerInv

\* The end of a handler keeps the invariant.
LEMMA BecomeKeeps ==
  ASSUME NEW s, NEW R, NEW N, HandlerInv(s, R, N), \A i \in Listed(s) : s.rx[i].state # "ALLOCATE",
         Len(s.list) <= PoolSize, ~overrun, Become(s)
  PROVE  /\ HandlerInv(Found', R, N) /\ Settled(Found') /\ Len(list') <= PoolSize /\ ~overrun'
<1>. DEFINE done == {n \in DOMAIN s.list : s.rx[s.list[n]].state = "DONE"}
            gone == {s.list[n] : n \in {n \in done : Cardinality({h \in done : h < n}) < s.released}}
<1>1. s \in HandlerState /\ IsInjective(s.list) /\ CountsInv(s)
  BY DEF HandlerInv
<1>2. gone = Finished(s) /\ ~(s.released > Cardinality(done))
  BY <1>1, AllLeave
<1>3. /\ list' = IF gone = {} THEN s.list ELSE Chosen(s.list, Ids \ gone)
      /\ rx' = [i \in Ids |-> IF i \in gone THEN Unused ELSE s.rx[i]]
      /\ overrun' = (overrun \/ s.released > Cardinality(done))
      /\ timersUpdated' = s.updated
      /\ free' = s.free /\ processing' = s.processing /\ delivered' = s.delivered
      /\ sender' = s.sender /\ untold' = s.untold
  BY DEF Become
<1>. HIDE DEF done, gone
<1>. DEFINE t == Found'
<1>4. t = [list |-> list', rx |-> rx', updated |-> timersUpdated', free |-> free',
           processing |-> processing', delivered |-> delivered', sender |-> sender',
           untold |-> untold', released |-> 0, stop |-> FALSE]
  BY DEF Found
<1>. HIDE DEF t
<1>5. /\ s.list \in Seq(Ids) /\ s.rx \in [Ids -> Receiver] /\ s.updated \in BOOLEAN /\ s.free \in Nat
      /\ s.processing \in SUBSET Ids /\ s.delivered \in Seq(Message)
      /\ s.sender \in [Addresses -> Sender] /\ s.untold \in SUBSET Addresses
  BY <1>1 DEF HandlerState
<1>6. Thinned(list', s.list, Ids \ Finished(s))
  BY <1>1, <1>2, <1>3, <1>5, RemainsThinned
<1>7. rx' \in [Ids -> Receiver] /\ \A k \in Ids \ Finished(s) : rx'[k] = s.rx[k]
  BY <1>2, <1>3, <1>5, UnusedFacts
<1>8. list' \in Seq(Ids) /\ ToSet(list') \subseteq Ids \ Finished(s)
  BY <1>6 DEF Thinned
<1>9. t \in HandlerState
  BY <1>3, <1>4, <1>5, <1>7, <1>8 DEF HandlerState
<1>10. Left(s, t)
  <2>1. \A k \in Listed(t) : t.rx[k] = s.rx[k]
    BY <1>4, <1>7, <1>8 DEF Listed
  <2>. QED BY <1>3, <1>4, <1>6, <1>9, <2>1 DEF Left
<1>11. HandlerInv(t, R, N) /\ Settled(t) /\ Len(t.list) <= Len(s.list)
  BY <1>10, LeftKeeps
<1>12. Len(list') <= PoolSize
  <2>1. Len(list') \in Nat /\ Len(s.list) \in Nat /\ PoolSize \in Nat
    BY <1>5, <1>8, ConstantFacts
  <2>2. Len(list') <= Len(s.list)
    BY <1>4, <1>11
  <2>. QED BY <2>1, <2>2
<1>. QED BY <1>2, <1>3, <1>11, <1>12 DEF t

-------------------------------------------------------------------------------
\* The handlers keep the invariant.

\* The state a handler finds.
FoundState ==
  /\ HandlerInv(Found, refused, count) /\ Settled(Found) /\ Found \in HandlerState
  /\ Found.list = list /\ Found.rx = rx /\ Found.updated = timersUpdated /\ Found.free = free
  /\ Found.processing = processing /\ Found.delivered = delivered /\ Found.sender = sender
  /\ Found.untold = untold /\ Found.released = 0 /\ Found.stop = FALSE
  /\ Listed(Found) = Live /\ IsInjective(list) /\ Len(list) <= PoolSize /\ count \in Nat

\* It is as the invariant says.
LEMMA FoundFacts ==
  ASSUME ReceiverInv
  PROVE  FoundState
<1>1. TypeOK /\ HandlerInv(Found, refused, count) /\ \A k \in Live : rx[k].state \notin {"ALLOCATE", "DONE"}
  BY DEF ReceiverInv
<1>2. /\ Found.list = list /\ Found.rx = rx /\ Found.updated = timersUpdated /\ Found.free = free
      /\ Found.processing = processing /\ Found.delivered = delivered /\ Found.sender = sender
      /\ Found.untold = untold /\ Found.released = 0 /\ Found.stop = FALSE
  BY DEF Found
<1>3. Listed(Found) = Live
  BY <1>2 DEF Listed, Live
<1>4. Settled(Found)
  BY <1>1, <1>2, <1>3 DEF Settled
<1>5. Found \in HandlerState
  BY <1>1 DEF HandlerInv
<1>6. IsInjective(list) /\ Len(list) <= PoolSize
  BY <1>1 DEF TypeOK
<1>7. count \in Nat
  BY <1>1, ConstantFacts DEF TypeOK
<1>. QED BY <1>1, <1>2, <1>3, <1>4, <1>5, <1>6, <1>7 DEF FoundState

\* What is left to show of a handler: the state it leaves is one to begin the next one with.
LEMMA Leaves ==
  ASSUME HandlerInv(Found', refused', count'), Settled(Found'), Len(list') <= PoolSize,
         ~overrun', overrun' \in BOOLEAN, queued' \in BOOLEAN, count' \in 0 .. MaxMessages,
         refused' \subseteq Addresses, sinceCyclic' \in 0 .. MaxLate, open' \in BOOLEAN
  PROVE  ReceiverInv'
<1>. DEFINE t == Found'
<1>1. t = [list |-> list', rx |-> rx', updated |-> timersUpdated', free |-> free',
           processing |-> processing', delivered |-> delivered', sender |-> sender',
           untold |-> untold', released |-> 0, stop |-> FALSE]
  BY DEF Found
<1>2. HandlerInv(t, refused', count') /\ Settled(t)
  OBVIOUS
<1>. HIDE DEF t
<1>3. t \in HandlerState /\ IsInjective(t.list) /\ CountsInv(t)
  BY <1>2 DEF HandlerInv
<1>4. /\ t.list = list' /\ t.rx = rx' /\ t.updated = timersUpdated' /\ t.free = free'
      /\ t.processing = processing' /\ t.delivered = delivered' /\ t.sender = sender'
      /\ t.untold = untold'
  BY <1>1
<1>5. /\ list' \in Seq(Ids) /\ IsInjective(list') /\ rx' \in [Ids -> Receiver]
      /\ timersUpdated' \in BOOLEAN /\ free' \in Nat /\ processing' \subseteq Ids
      /\ delivered' \in Seq(Message) /\ sender' \in [Addresses -> Sender] /\ untold' \subseteq Addresses
  BY <1>3, <1>4 DEF HandlerState
<1>6. free' \in 0 .. Buffers
  <2>1. /\ Holding(t) \subseteq Listed(t) /\ IsFiniteSet(Listed(t))
    BY <1>3, ListedFacts DEF Holding
  <2>2. IsFiniteSet(Ids)
    BY FS_Interval, ConstantFacts DEF Ids
  <2>3. IsFiniteSet(Holding(t)) /\ IsFiniteSet(t.processing)
    BY <1>4, <1>5, <2>1, <2>2, FS_Subset
  <2>4. Cardinality(Holding(t)) \in Nat /\ Cardinality(t.processing) \in Nat
    BY <2>3, FS_CardinalityType
  <2>5. t.free + Cardinality(Holding(t)) + Cardinality(t.processing) = Buffers
    BY <1>3 DEF CountsInv
  <2>. QED BY <1>4, <1>5, <2>4, <2>5, ConstantFacts
<1>7. TypeOK'
  <2>1. delivered' \in Seq([id : Ids, address : Addresses, content : Seq(Frame)])
    BY <1>5 DEF Message
  <2>2. sender' \in [Addresses -> [id : 0 .. MaxMessages, frames : {0} \cup FrameCounts,
                                   next : 0 .. MaxFrames, credit : Nat]]
    BY <1>5 DEF Sender
  <2>. QED BY <1>5, <1>6, <2>1, <2>2 DEF TypeOK
<1>8. \A k \in Live' : rx'[k].state \notin {"ALLOCATE", "DONE"}
  BY <1>2, <1>4 DEF Settled, Listed, Live
<1>. QED BY <1>7, <1>8 DEF ReceiverInv

\* The end of a handler: the rest of the invariant.
LEMMA HandlerEnds ==
  ASSUME ~overrun, NEW s, HandlerInv(s, refused', count'), \A i \in Listed(s) : s.rx[i].state # "ALLOCATE",
         Len(s.list) <= PoolSize, Become(s), queued' \in BOOLEAN, count' \in 0 .. MaxMessages,
         refused' \subseteq Addresses, sinceCyclic' \in 0 .. MaxLate, open' \in BOOLEAN
  PROVE  ReceiverInv'
<1>1. HandlerInv(Found', refused', count') /\ Settled(Found') /\ Len(list') <= PoolSize /\ ~overrun'
  BY BecomeKeeps
<1>2. overrun' \in BOOLEAN
  BY DEF Become
<1>. QED BY <1>1, <1>2, Leaves

\* The receivers cyclicTask() looks at are the first ones of the list.
LEMMA ExpiredPrefixFacts ==
  ASSUME list \in Seq(Ids), IsInjective(list)
  PROVE  \A m, n \in DOMAIN list : m < n /\ list[n] \in ExpiredPrefix => list[m] \in ExpiredPrefix
<1>. SUFFICES ASSUME NEW m \in DOMAIN list, NEW n \in DOMAIN list, m < n, list[n] \in ExpiredPrefix
              PROVE  list[m] \in ExpiredPrefix
  OBVIOUS
<1>1. DOMAIN list \subseteq Nat
  OBVIOUS
<1>2. \A k \in 1 .. n : TimerExpired(rx[list[k]])
  BY DEF ExpiredPrefix, IsInjective
<1>3. \A k \in 1 .. m : k \in 1 .. n
  BY <1>1
<1>. QED BY <1>2, <1>3 DEF ExpiredPrefix

\* cyclicTask().
LEMMA CyclicTaskKeeps ==
  ASSUME ReceiverInv, CyclicTask
  PROVE  ReceiverInv'
<1>1. FoundState /\ TypeOK /\ ~overrun
  BY FoundFacts DEF ReceiverInv
<1>2. PICK e \in Answers(ExpiredPrefix) : Become(SortedIfUpdated(ExpiredAll(Found, ExpiredPrefix, e)))
  BY DEF CyclicTask
<1>. DEFINE s == ExpiredAll(Found, ExpiredPrefix, e)
            t == SortedIfUpdated(s)
<1>3. \A m, n \in DOMAIN Found.list : m < n /\ Found.list[n] \in ExpiredPrefix => Found.list[m] \in ExpiredPrefix
  BY <1>1, ExpiredPrefixFacts DEF FoundState, TypeOK
<1>4. /\ HandlerInv(s, refused, count) /\ s.list = Found.list
      /\ \A i \in Listed(Found) : s.rx[i].state # "ALLOCATE"
  BY <1>1, <1>3, ExpiredAllKeeps DEF FoundState
<1>5. \A i \in Listed(s) : s.rx[i].state # "ALLOCATE"
  BY <1>4 DEF Listed
<1>6. Become(t)
  BY <1>2
<1>. HIDE DEF s
<1>7. t = SortedIfUpdated(s)
  OBVIOUS
<1>. HIDE DEF t
<1>8. HandlerInv(t, refused, count) /\ Listed(t) = Listed(s) /\ t.rx = s.rx /\ DOMAIN t.list = DOMAIN s.list
  BY <1>4, <1>5, <1>7, SortKeeps
<1>9. Len(t.list) <= PoolSize
  <2>1. t \in HandlerState /\ s \in HandlerState
    BY <1>4, <1>8 DEF HandlerInv
  <2>2. t.list \in Seq(Ids) /\ s.list \in Seq(Ids)
    BY <2>1 DEF HandlerState
  <2>3. Len(t.list) = Len(s.list)
    BY <1>8, <2>2
  <2>. QED BY <1>1, <1>4, <2>3 DEF FoundState
<1>10. /\ refused' = refused /\ count' = count /\ queued' = queued /\ open' = open /\ sinceCyclic' = 0
  BY DEF CyclicTask
<1>11. /\ queued' \in BOOLEAN /\ count' \in 0 .. MaxMessages /\ refused' \subseteq Addresses
       /\ sinceCyclic' \in 0 .. MaxLate /\ open' \in BOOLEAN
  BY <1>1, <1>10, ConstantFacts DEF TypeOK
<1>12. HandlerInv(t, refused', count') /\ \A i \in Listed(t) : t.rx[i].state # "ALLOCATE"
  BY <1>5, <1>8, <1>10
<1>. QED BY <1>1, <1>6, <1>9, <1>11, <1>12, HandlerEnds

\* processMessageReceivers().
LEMMA ProcessMessageReceiversKeeps ==
  ASSUME ReceiverInv, ProcessMessageReceivers
  PROVE  ReceiverInv'
<1>1. FoundState /\ TypeOK /\ ~overrun
  BY FoundFacts DEF ReceiverInv
<1>2. PICK e : Become(ProcessAll(Found, e))
  BY DEF ProcessMessageReceivers
<1>. DEFINE s == ProcessAll(Found, e)
<1>3. /\ HandlerInv(s, refused, count) /\ s.list = Found.list
      /\ \A i \in Listed(Found) : s.rx[i].state # "ALLOCATE"
  BY <1>1, ProcessAllKeeps DEF FoundState
<1>4. Become(s)
  BY <1>2
<1>. HIDE DEF s
<1>5. \A i \in Listed(s) : s.rx[i].state # "ALLOCATE"
  BY <1>3 DEF Listed
<1>6. Len(s.list) <= PoolSize
  BY <1>1, <1>3 DEF FoundState
<1>7. /\ refused' = refused /\ count' = count /\ queued' = FALSE /\ open' = open
      /\ sinceCyclic' = sinceCyclic
  BY DEF ProcessMessageReceivers
<1>8. /\ queued' \in BOOLEAN /\ count' \in 0 .. MaxMessages /\ refused' \subseteq Addresses
      /\ sinceCyclic' \in 0 .. MaxLate /\ open' \in BOOLEAN
  BY <1>1, <1>7 DEF TypeOK
<1>9. HandlerInv(s, refused', count')
  BY <1>3, <1>7
<1>. QED BY <1>1, <1>4, <1>5, <1>6, <1>8, <1>9, HandlerEnds

\* shutdown().
LEMMA ShutdownKeeps ==
  ASSUME ReceiverInv, Shutdown
  PROVE  ReceiverInv'
<1>1. FoundState /\ TypeOK /\ ~overrun
  BY FoundFacts DEF ReceiverInv
<1>. DEFINE s == DoneAll(Found, Live)
<1>2. HandlerInv(s, refused, count) /\ AllEnded(Found, s, Live)
  BY <1>1, DoneAllKeeps DEF FoundState
<1>3. Become(s)
  BY DEF Shutdown
<1>. HIDE DEF s
<1>4. s.list = list /\ \A i \in Listed(s) : s.rx[i].state # "ALLOCATE"
  BY <1>1, <1>2 DEF AllEnded, Listed, FoundState
<1>5. Len(s.list) <= PoolSize
  BY <1>1, <1>4 DEF FoundState
<1>6. /\ refused' = refused /\ count' = count /\ queued' = queued /\ open' = FALSE
      /\ sinceCyclic' = sinceCyclic
  BY DEF Shutdown
<1>7. /\ queued' \in BOOLEAN /\ count' \in 0 .. MaxMessages /\ refused' \subseteq Addresses
      /\ sinceCyclic' \in 0 .. MaxLate /\ open' \in BOOLEAN
  BY <1>1, <1>6 DEF TypeOK
<1>8. HandlerInv(s, refused', count')
  BY <1>2, <1>6
<1>. QED BY <1>1, <1>3, <1>4, <1>5, <1>7, <1>8, HandlerEnds

\* A state in which nobody has sent anything.
LEMMA InitHolds ==
  ASSUME Init
  PROVE  ReceiverInv
<1>. DEFINE s == Found
<1>1. s = [list |-> <<>>, rx |-> [i \in Ids |-> Unused], updated |-> FALSE, free |-> Buffers,
           processing |-> {}, delivered |-> <<>>,
           sender |-> [a \in Addresses |-> [id |-> 0, frames |-> 0, next |-> 0, credit |-> 0]],
           untold |-> {}, released |-> 0, stop |-> FALSE]
  BY DEF Found, Init
<1>. HIDE DEF s
<1>2. [a \in Addresses |-> [id |-> 0, frames |-> 0, next |-> 0, credit |-> 0]] \in [Addresses -> Sender]
  BY ConstantFacts, MaxFramesFacts DEF Sender
<1>3. s \in HandlerState
  BY <1>1, <1>2, UnusedFacts, ConstantFacts DEF HandlerState
<1>4. /\ s.list = <<>> /\ s.delivered = <<>> /\ s.free = Buffers /\ s.processing = {}
      /\ s.released = 0 /\ s.updated = FALSE /\ \A a \in Addresses : s.sender[a].frames = 0
  BY <1>1
<1>5. Listed(s) = {} /\ DOMAIN s.list = {} /\ DOMAIN s.delivered = {} /\ IsInjective(s.list)
  BY <1>4 DEF Listed, ToSet, IsInjective
<1>6. Cardinality({}) = 0
  BY FS_EmptySet
<1>7. Finished(s) = {} /\ Holding(s) = {}
  BY <1>5 DEF Finished, Holding
<1>8. CountsInv(s)
  BY <1>4, <1>6, <1>7, ConstantFacts DEF CountsInv
<1>9. ReceiversInv(s) /\ TimersInv(s) /\ SendersInv(s) /\ ContentInv(s, refused)
  BY <1>4, <1>5 DEF ReceiversInv, TimersInv, SendersInv, ContentInv
<1>10. DeliveredInv(s, refused) /\ NumbersInv(s, count) /\ TurnsInv(s) /\ OrderInv(s)
  BY <1>4, <1>5 DEF DeliveredInv, NumbersInv, TurnsInv, OrderInv
<1>11. HandlerInv(s, refused, count)
  BY <1>3, <1>5, <1>8, <1>9, <1>10 DEF HandlerInv
<1>12. TypeOK
  <2>1. /\ list = <<>> /\ rx = [i \in Ids |-> Unused] /\ timersUpdated = FALSE /\ overrun = FALSE
        /\ queued = FALSE /\ free = Buffers /\ processing = {} /\ delivered = <<>> /\ count = 0
        /\ refused = {} /\ untold = {} /\ sinceCyclic = 0 /\ open = TRUE
    BY DEF Init
  <2>2. sender \in [Addresses -> [id : 0 .. MaxMessages, frames : {0} \cup FrameCounts,
                                  next : 0 .. MaxFrames, credit : Nat]]
    BY <1>2 DEF Init, Sender
  <2>3. list \in Seq(Ids) /\ IsInjective(list) /\ Len(list) <= PoolSize
    BY <2>1, ConstantFacts DEF IsInjective
  <2>4. rx \in [Ids -> Receiver]
    BY <2>1, UnusedFacts
  <2>5. delivered \in Seq([id : Ids, address : Addresses, content : Seq(Frame)])
    BY <2>1
  <2>6. free \in 0 .. Buffers /\ count \in 0 .. MaxMessages /\ sinceCyclic \in 0 .. MaxLate
    BY <2>1, ConstantFacts
  <2>7. /\ timersUpdated \in BOOLEAN /\ overrun \in BOOLEAN /\ queued \in BOOLEAN /\ open \in BOOLEAN
        /\ processing \subseteq Ids /\ refused \subseteq Addresses /\ untold \subseteq Addresses
    BY <2>1
  <2>. QED BY <2>2, <2>3, <2>4, <2>5, <2>6, <2>7 DEF TypeOK
<1>13. \A k \in Live : rx[k].state \notin {"ALLOCATE", "DONE"}
  BY DEF Live, Init, ToSet
<1>14. ~overrun
  BY DEF Init
<1>. QED BY <1>11, <1>12, <1>13, <1>14 DEF ReceiverInv, s

\* transportMessageProcessed().
LEMMA TransportMessageProcessedKeeps ==
  ASSUME ReceiverInv, NEW i \in Ids, TransportMessageProcessed(i)
  PROVE  ReceiverInv'
<1>1. FoundState /\ TypeOK /\ ~overrun
  BY FoundFacts DEF ReceiverInv
<1>2. /\ i \in processing /\ processing' = processing \ {i} /\ free' = free + 1 /\ queued' = TRUE
      /\ list' = list /\ rx' = rx /\ timersUpdated' = timersUpdated /\ overrun' = overrun
      /\ delivered' = delivered /\ sender' = sender /\ count' = count /\ refused' = refused
      /\ untold' = untold /\ sinceCyclic' = sinceCyclic /\ open' = open
  BY DEF TransportMessageProcessed
<1>. DEFINE s == Found
            f == s.free + 1
            p == s.processing \ {i}
            t == Found'
<1>3. s \in HandlerState /\ HandlerInv(s, refused, count) /\ Settled(s)
  BY <1>1 DEF FoundState
<1>4. t = [list |-> s.list, rx |-> s.rx, updated |-> s.updated, free |-> f, processing |-> p,
           delivered |-> s.delivered, sender |-> s.sender, untold |-> s.untold, released |-> s.released,
           stop |-> s.stop]
  BY <1>2 DEF Found
<1>5. i \in s.processing
  BY <1>2 DEF Found
<1>6. Len(s.list) <= PoolSize /\ t.list = list'
  BY <1>1 DEF FoundState, Found
<1>. HIDE DEF s, t
<1>7. s.free \in Nat /\ s.processing \in SUBSET Ids
  BY <1>3 DEF HandlerState
<1>8. f \in Nat /\ p \in SUBSET Ids
  BY <1>7
<1>9. f = s.free + 1 /\ p = s.processing \ {i}
  OBVIOUS
<1>. HIDE DEF f, p
<1>10. t \in HandlerState
  BY <1>3, <1>4, <1>8 DEF HandlerState
<1>11. /\ t.free = f /\ t.processing = p /\ t.list = s.list /\ t.rx = s.rx /\ t.updated = s.updated
       /\ t.delivered = s.delivered /\ t.sender = s.sender /\ t.untold = s.untold
       /\ t.released = s.released
  BY <1>3, <1>4 DEF HandlerState
<1>12. Listed(t) = Listed(s) /\ Holding(t) = Holding(s) /\ Finished(t) = Finished(s)
  BY <1>11 DEF Listed, Holding, Finished
<1>13. CountsInv(t)
  <2>1. s.free + Cardinality(Holding(s)) + Cardinality(s.processing) = Buffers
        /\ s.released = Cardinality(Finished(s))
    BY <1>3 DEF HandlerInv, CountsInv
  <2>2. IsFiniteSet(Ids) /\ IsFiniteSet(Listed(s)) /\ Holding(s) \subseteq Listed(s)
    <3>1. IsFiniteSet(Ids)
      BY FS_Interval, ConstantFacts DEF Ids
    <3>. QED BY <1>3, <3>1, ListedFacts DEF Holding
  <2>3. IsFiniteSet(s.processing) /\ IsFiniteSet(Holding(s))
    BY <1>7, <2>2, FS_Subset
  <2>4. Cardinality(s.processing) \in Nat /\ Cardinality(Holding(s)) \in Nat
    BY <2>3, FS_CardinalityType
  <2>5. Cardinality(p) = Cardinality(s.processing) - 1
    BY <1>5, <1>9, <2>3, FS_RemoveElement
  <2>6. t.free + Cardinality(Holding(t)) + Cardinality(t.processing) = Buffers
    BY <1>7, <1>9, <1>11, <1>12, <2>1, <2>4, <2>5
  <2>. QED BY <1>11, <1>12, <2>1, <2>6 DEF CountsInv
<1>14. /\ ReceiversInv(s) /\ TimersInv(s) /\ SendersInv(s) /\ ContentInv(s, refused)
       /\ DeliveredInv(s, refused) /\ NumbersInv(s, count) /\ TurnsInv(s) /\ OrderInv(s)
       /\ IsInjective(s.list)
  BY <1>3 DEF HandlerInv
<1>15. \A k : Pending(t, k) <=> Pending(s, k)
  BY <1>11, <1>12 DEF Pending
<1>16. ReceiversInv(t)
  BY SMTT(60), <1>11, <1>12, <1>14 DEF ReceiversInv
<1>17. TimersInv(t) /\ SendersInv(t) /\ DeliveredInv(t, refused)
  BY <1>11, <1>14 DEF TimersInv, SendersInv, DeliveredInv
<1>18. ContentInv(t, refused)
  BY <1>11, <1>12, <1>14, <1>15 DEF ContentInv
<1>19. NumbersInv(t, count)
  BY <1>9, <1>11, <1>12, <1>14, <1>15 DEF NumbersInv
<1>20. TurnsInv(t)
  BY <1>11, <1>12, <1>14, <1>15 DEF TurnsInv
<1>21. OrderInv(t)
  BY <1>11, <1>12, <1>14, <1>15 DEF OrderInv
<1>22. HandlerInv(t, refused, count)
  BY <1>10, <1>11, <1>13, <1>14, <1>16, <1>17, <1>18, <1>19, <1>20, <1>21 DEF HandlerInv
<1>23. Settled(t)
  BY <1>3, <1>11, <1>12 DEF Settled
<1>24. Len(list') <= PoolSize
  BY <1>6, <1>11
<1>25. /\ ~overrun' /\ overrun' \in BOOLEAN /\ queued' \in BOOLEAN /\ count' \in 0 .. MaxMessages
       /\ refused' \subseteq Addresses /\ sinceCyclic' \in 0 .. MaxLate /\ open' \in BOOLEAN
  BY <1>1, <1>2 DEF TypeOK
<1>26. HandlerInv(Found', refused', count') /\ Settled(Found')
  BY <1>2, <1>22, <1>23 DEF t
<1>. QED BY <1>24, <1>25, <1>26, Leaves

\* Steps that change no variable of the receiver.
LEMMA StutterKeeps ==
  ASSUME ReceiverInv, UNCHANGED vars
  PROVE  ReceiverInv'
<1>1. FoundState /\ TypeOK /\ ~overrun
  BY FoundFacts DEF ReceiverInv
<1>2. /\ list' = list /\ rx' = rx /\ timersUpdated' = timersUpdated /\ overrun' = overrun
      /\ delivered' = delivered /\ sender' = sender /\ count' = count /\ refused' = refused
      /\ untold' = untold /\ sinceCyclic' = sinceCyclic /\ open' = open /\ queued' = queued
      /\ free' = free /\ processing' = processing
  BY DEF vars
<1>3. Found' = Found
  BY <1>2 DEF Found
<1>4. HandlerInv(Found', refused', count') /\ Settled(Found') /\ Len(list') <= PoolSize
  BY <1>1, <1>2, <1>3 DEF FoundState
<1>5. /\ ~overrun' /\ overrun' \in BOOLEAN /\ queued' \in BOOLEAN /\ count' \in 0 .. MaxMessages
      /\ refused' \subseteq Addresses /\ sinceCyclic' \in 0 .. MaxLate /\ open' \in BOOLEAN
  BY <1>1, <1>2 DEF TypeOK
<1>. QED BY <1>4, <1>5, Leaves

\* Time passes for receiver r: q is r with its timer unit lower, unless the timer is not running
\* or is as late as it gets.
Aged(q, r) ==
  /\ q \in Receiver
  /\ q.address = r.address /\ q.frameCount = r.frameCount /\ q.frameIndex = r.frameIndex
  /\ q.state = r.state /\ q.timeout = r.timeout /\ q.retry = r.retry
  /\ q.allocating = r.allocating /\ q.message = r.message /\ q.content = r.content
  /\ q.timerSet = r.timerSet
  /\ q.timer = IF r.timerSet /\ r.timer > Latest THEN r.timer - 1 ELSE r.timer

\* A unit of time.
LEMMA TickKeeps ==
  ASSUME ReceiverInv, Tick
  PROVE  ReceiverInv'
<1>1. FoundState /\ TypeOK /\ ~overrun
  BY FoundFacts DEF ReceiverInv
<1>2. /\ sinceCyclic < MaxLate /\ sinceCyclic' = sinceCyclic + 1
      /\ list' = list /\ timersUpdated' = timersUpdated /\ overrun' = overrun
      /\ delivered' = delivered /\ sender' = sender /\ count' = count /\ refused' = refused
      /\ untold' = untold /\ open' = open /\ queued' = queued
      /\ free' = free /\ processing' = processing
  BY DEF Tick
<1>3. rx' = [i \in Ids |-> IF i \in Live /\ rx[i].timerSet /\ rx[i].timer > Latest
                           THEN [rx[i] EXCEPT !.timer = @ - 1] ELSE rx[i]]
  BY DEF Tick
<1>4. rx \in [Ids -> Receiver] /\ Latest \in Int
  BY <1>1, ConstantFacts DEF TypeOK, Latest
<1>5. rx' \in [Ids -> Receiver] /\ \A i \in Live : Aged(rx'[i], rx[i])
  <2>1. ASSUME NEW i \in Ids PROVE rx'[i] \in Receiver /\ (i \in Live => Aged(rx'[i], rx[i]))
    <3>. DEFINE r == rx[i]
                d == r.timer - 1
                q == [r EXCEPT !.timer = d]
    <3>1. r \in Receiver
      BY <1>4
    <3>2. rx'[i] = IF i \in Live /\ r.timerSet /\ r.timer > Latest THEN q ELSE r
      BY <1>3
    <3>3. d \in Int /\ d = r.timer - 1
      BY <3>1 DEF Receiver
    <3>. HIDE DEF d
    <3>4. /\ q \in Receiver
          /\ q.address = r.address /\ q.frameCount = r.frameCount /\ q.frameIndex = r.frameIndex
          /\ q.state = r.state /\ q.timeout = r.timeout /\ q.retry = r.retry
          /\ q.allocating = r.allocating /\ q.message = r.message /\ q.content = r.content
          /\ q.timerSet = r.timerSet /\ q.timer = d
      BY <3>1, <3>3 DEF Receiver
    <3>. HIDE DEF q, r
    <3>5. CASE i \in Live /\ r.timerSet /\ r.timer > Latest
      <4>1. rx'[i] = q
        BY <3>2, <3>5
      <4>2. Aged(q, r)
        BY <3>3, <3>4, <3>5 DEF Aged
      <4>. QED BY <3>4, <4>1, <4>2 DEF r
    <3>6. CASE ~(i \in Live /\ r.timerSet /\ r.timer > Latest)
      <4>1. rx'[i] = r
        BY <3>2, <3>6
      <4>2. i \in Live => Aged(r, r)
        BY <3>1, <3>6 DEF Aged
      <4>. QED BY <3>1, <4>1, <4>2 DEF r
    <3>. QED BY <3>5, <3>6
  <2>2. rx' = [i \in Ids |-> rx'[i]]
    BY <1>3
  <2>3. \A i \in Ids : rx'[i] \in Receiver
    BY <2>1
  <2>4. rx' \in [Ids -> Receiver]
    BY ONLY <2>2, <2>3
  <2>5. Live \subseteq Ids
    BY <1>1 DEF TypeOK, Live, ToSet
  <2>. QED BY <2>1, <2>4, <2>5
<1>. DEFINE s == Found
            t == Found'
<1>6. s \in HandlerState /\ HandlerInv(s, refused, count) /\ Settled(s) /\ Len(s.list) <= PoolSize
  BY <1>1 DEF FoundState
<1>7. t = [list |-> s.list, rx |-> rx', updated |-> s.updated, free |-> s.free,
           processing |-> s.processing, delivered |-> s.delivered, sender |-> s.sender,
           untold |-> s.untold, released |-> s.released, stop |-> s.stop] /\ t.list = list'
  BY <1>2 DEF Found
<1>8. \A k \in Listed(s) : Aged(rx'[k], s.rx[k])
  BY <1>1, <1>5 DEF FoundState
<1>. HIDE DEF s, t
<1>9. t \in HandlerState
  BY <1>5, <1>6, <1>7 DEF HandlerState
<1>10. /\ t.rx = rx' /\ t.free = s.free /\ t.processing = s.processing /\ t.list = s.list
       /\ t.updated = s.updated /\ t.delivered = s.delivered /\ t.sender = s.sender
       /\ t.untold = s.untold /\ t.released = s.released
  BY <1>6, <1>7 DEF HandlerState
<1>11. Listed(t) = Listed(s)
  BY <1>10 DEF Listed
<1>12. \A k \in Listed(t) : k \in Listed(s) /\ Aged(t.rx[k], s.rx[k]) /\ s.rx[k] \in Receiver
  <2>1. Listed(s) \in SUBSET Ids
    BY <1>6, ListedFacts
  <2>2. s.rx \in [Ids -> Receiver]
    BY <1>6 DEF HandlerState
  <2>. QED BY <1>8, <1>10, <1>11, <2>1, <2>2
<1>13. Holding(t) = Holding(s) /\ Finished(t) = Finished(s) /\ \A k : Pending(t, k) <=> Pending(s, k)
  BY <1>11, <1>12 DEF Holding, Finished, Pending, Aged
<1>14. /\ ReceiversInv(s) /\ TimersInv(s) /\ SendersInv(s) /\ ContentInv(s, refused) /\ CountsInv(s)
       /\ DeliveredInv(s, refused) /\ NumbersInv(s, count) /\ TurnsInv(s) /\ OrderInv(s)
       /\ IsInjective(s.list)
  BY <1>6 DEF HandlerInv
<1>15. CountsInv(t)
  BY <1>10, <1>13, <1>14 DEF CountsInv
<1>16. SendersInv(t) /\ DeliveredInv(t, refused)
  BY <1>10, <1>14 DEF SendersInv, DeliveredInv
<1>17. ContentInv(t, refused)
  <2>. SUFFICES ASSUME NEW k \in Listed(t), Pending(t, k), Segmented(t.rx[k])
                PROVE  /\ t.rx[k].address \notin Functional
                       /\ t.rx[k].address \notin refused => Follows(t.rx[k], k, t.sender[t.rx[k].address])
    BY DEF ContentInv
  <2>1. /\ s.rx[k].address \notin Functional
        /\ s.rx[k].address \notin refused => Follows(s.rx[k], k, s.sender[s.rx[k].address])
    BY <1>12, <1>13, <1>14 DEF ContentInv, Segmented, Aged
  <2>. QED BY <1>10, <1>12, <2>1 DEF Aged, Follows, UpToDate
<1>18. NumbersInv(t, count)
  BY <1>10, <1>11, <1>13, <1>14 DEF NumbersInv
<1>19. OrderInv(t)
  BY <1>10, <1>11, <1>12, <1>13, <1>14 DEF OrderInv, Aged
<1>20. ASSUME NEW k \in Listed(t), Sound(s.rx[k]) PROVE Sound(t.rx[k])
  <2>1. t.rx[k].timer <= s.rx[k].timer /\ t.rx[k].timer \in Int /\ s.rx[k].timer \in Int
    BY <1>4, <1>12 DEF Aged, Receiver
  <2>2. AllocateTimeout \in Nat
    BY ConstantFacts
  <2>3. s.rx[k].timer <= AllocateTimeout => t.rx[k].timer <= AllocateTimeout
    BY <2>1, <2>2
  <2>. QED BY <1>12, <1>20, <2>3 DEF Sound, Segmented, Aged
<1>21. ReceiversInv(t)
  BY <1>10, <1>12, <1>14, <1>20 DEF ReceiversInv, Aged
<1>22. ASSUME NEW j \in Listed(t), NEW k \in Listed(t), Sound(s.rx[j]), Sound(s.rx[k]),
              s.rx[j].state = "WAIT", s.rx[k].state = "WAIT", s.rx[j].timer <= s.rx[k].timer
       PROVE  t.rx[j].timer <= t.rx[k].timer
  <2>1. s.rx[j].timerSet /\ s.rx[k].timerSet
    BY <1>22 DEF Sound
  <2>2. s.rx[j].timer \in Int /\ s.rx[k].timer \in Int
    BY <1>12 DEF Receiver
  <2>3. /\ t.rx[j].timer = IF s.rx[j].timer > Latest THEN s.rx[j].timer - 1 ELSE s.rx[j].timer
        /\ t.rx[k].timer = IF s.rx[k].timer > Latest THEN s.rx[k].timer - 1 ELSE s.rx[k].timer
    BY <1>12, <2>1 DEF Aged
  <2>. QED BY <1>4, <1>22, <2>2, <2>3
<1>23. \A k \in Listed(t) : s.rx[k].state = "WAIT" => Sound(s.rx[k])
  BY <1>11, <1>14 DEF ReceiversInv
<1>24. TimersInv(t)
  <2>1. \A m \in DOMAIN t.list : t.list[m] \in Listed(t)
    BY <1>9, ListedFacts
  <2>. SUFFICES ASSUME ~t.updated, NEW m \in DOMAIN t.list, NEW n \in DOMAIN t.list, m < n,
                       t.rx[t.list[m]].state = "WAIT", t.rx[t.list[n]].state = "WAIT"
                PROVE  t.rx[t.list[m]].timer <= t.rx[t.list[n]].timer
    BY DEF TimersInv
  <2>2. s.rx[t.list[m]].state = "WAIT" /\ s.rx[t.list[n]].state = "WAIT"
    BY <1>12, <2>1 DEF Aged
  <2>3. s.rx[t.list[m]].timer <= s.rx[t.list[n]].timer
    BY <1>10, <1>14, <2>2 DEF TimersInv
  <2>. QED BY <1>22, <1>23, <2>1, <2>2, <2>3
<1>25. TurnsInv(t)
  <2>. SUFFICES ASSUME NEW j \in Listed(t), NEW k \in Listed(t), Pending(t, j), Pending(t, k), j < k,
                       t.rx[j].address = t.rx[k].address, t.rx[k].address \notin t.untold
                PROVE  /\ ~Segmented(t.rx[j]) /\ t.rx[j].state = "WAIT" /\ t.rx[k].allocating
                       /\ Before(t.list, j, k)
                       /\ t.rx[k].state = "WAIT" => t.rx[j].timer <= t.rx[k].timer
    BY DEF TurnsInv
  <2>1. s.rx[j].address = s.rx[k].address /\ s.rx[k].address \notin s.untold
    BY <1>10, <1>12 DEF Aged
  <2>2. /\ ~Segmented(s.rx[j]) /\ s.rx[j].state = "WAIT" /\ s.rx[k].allocating
        /\ Before(s.list, j, k)
        /\ s.rx[k].state = "WAIT" => s.rx[j].timer <= s.rx[k].timer
    BY <1>11, <1>13, <1>14, <2>1 DEF TurnsInv
  <2>3. /\ ~Segmented(t.rx[j]) /\ t.rx[j].state = "WAIT" /\ t.rx[k].allocating
        /\ Before(t.list, j, k) /\ t.rx[k].state = s.rx[k].state
    BY <1>10, <1>12, <2>2 DEF Aged, Segmented
  <2>4. t.rx[k].state = "WAIT" => t.rx[j].timer <= t.rx[k].timer
    BY <1>22, <1>23, <2>2, <2>3
  <2>. QED BY <2>3, <2>4
<1>26. HandlerInv(t, refused, count)
  BY <1>9, <1>10, <1>14, <1>15, <1>16, <1>17, <1>18, <1>19, <1>21, <1>24, <1>25 DEF HandlerInv
<1>27. Settled(t)
  BY <1>6, <1>11, <1>12 DEF Settled, Aged
<1>28. Len(list') <= PoolSize
  BY <1>6, <1>7, <1>10
<1>29. /\ ~overrun' /\ overrun' \in BOOLEAN /\ queued' \in BOOLEAN /\ count' \in 0 .. MaxMessages
       /\ refused' \subseteq Addresses /\ sinceCyclic' \in 0 .. MaxLate /\ open' \in BOOLEAN
  BY <1>1, <1>2, ConstantFacts DEF TypeOK
<1>30. HandlerInv(Found', refused', count') /\ Settled(Found')
  BY <1>2, <1>26, <1>27 DEF t
<1>. QED BY <1>28, <1>29, <1>30, Leaves

\* consecutiveDataFrameReceived(): the last frame sender a has sent arrives.
LEMMA ConsecutiveDataFrameKeeps ==
  ASSUME NEW s, NEW R, NEW N \in Nat, HandlerInv(s, R, N), Settled(s), NEW a \in Addresses,
         NEW frame \in Frame, s.sender[a].next \in 1 .. s.sender[a].frames,
         frame = [of |-> s.sender[a].id, index |-> s.sender[a].next - 1],
         NEW t, t \in ConsecutiveDataFrame(s, a, frame)
  PROVE  HandlerInv(t, R, N) /\ t.list = s.list /\ \A i \in Listed(t) : t.rx[i].state # "ALLOCATE"
<1>. DEFINE receivers == {i \in First(s.list, OfAddress(s, a)) : s.rx[i].message}
<1>1. s \in HandlerState /\ ReceiversInv(s) /\ ContentInv(s, R) /\ TurnsInv(s)
  BY DEF HandlerInv
<1>2. t = s \/ \E i \in receivers, e \in Answers(receivers) : t = ConsecutiveFrame(s, i, frame, e)
  BY DEF ConsecutiveDataFrame
<1>3. CASE t = s
  BY <1>3 DEF Settled
<1>4. ASSUME NEW i \in receivers, NEW e, t = ConsecutiveFrame(s, i, frame, e)
      PROVE  HandlerInv(t, R, N) /\ t.list = s.list /\ \A k \in Listed(t) : t.rx[k].state # "ALLOCATE"
  <2>1. i \in Listed(s) /\ s.rx[i].address = a /\ s.rx[i].message
    <3>1. i \in OfAddress(s, a)
      BY DEF First
    <3>. QED BY <3>1 DEF OfAddress, Listed
  <2>2. i \in Ids
    BY <1>1, <2>1, ListedFacts
  <2>3. Pending(s, i) /\ Sound(s.rx[i]) /\ s.rx[i].state # "DONE"
    BY <1>1, <2>1 DEF Settled, Pending, ReceiversInv
  <2>4. Segmented(s.rx[i]) /\ ~s.rx[i].allocating
    BY <2>1, <2>3 DEF Sound
  <2>5. Sent(s.rx[i], i, s.sender[s.rx[i].address], frame, R)
    BY <1>1, <2>1, <2>3, <2>4 DEF Sent, ContentInv
  <2>6. Result(s, t, i, R)
    BY <1>1, <1>4, <2>1, <2>2, <2>3, <2>5, ConsecutiveFrameResult
  <2>7. Turn(s, i)
    BY <1>1, <2>1, <2>3, <2>4 DEF Turn, TurnsInv
  <2>8. InTurn(s, t, i)
    BY <2>4, <2>7 DEF InTurn
  <2>9. HandlerInv(t, R, N)
    BY <2>3, <2>6, <2>8, ResultKeeps
  <2>10. /\ Listed(t) = Listed(s) /\ t.list = s.list
         /\ \A k \in Listed(s) : k # i => Same(t.rx[k], s.rx[k])
    BY <1>1, <2>1, <2>3, <2>6, ResultPending
  <2>11. t.rx[i].state # "ALLOCATE"
    BY <2>6 DEF Result, Goes, Ends
  <2>12. \A k \in Listed(t) : t.rx[k].state # "ALLOCATE"
    BY <2>10, <2>11 DEF Settled, Same
  <2>. QED BY <2>9, <2>10, <2>12
<1>. QED BY <1>2, <1>3, <1>4

\* Nothing but the next frame and the credit of the sender of address a has changed.
Proceeds(s, t, a) ==
  /\ t \in HandlerState /\ t.list = s.list /\ t.rx = s.rx /\ t.updated = s.updated /\ t.free = s.free
  /\ t.processing = s.processing /\ t.delivered = s.delivered /\ t.untold = s.untold
  /\ t.released = s.released /\ t.stop = s.stop
  /\ \A b \in Addresses : b # a => t.sender[b] = s.sender[b]
  /\ t.sender[a].id = s.sender[a].id /\ t.sender[a].frames = s.sender[a].frames
  /\ t.sender[a].next = s.sender[a].next + 1 /\ t.sender[a].next \in 1 .. t.sender[a].frames

\* A sender that proceeds keeps the invariant: its receiver may fall behind.
LEMMA ProceedsKeeps ==
  ASSUME NEW s, NEW R, NEW N, HandlerInv(s, R, N), Settled(s), NEW a \in Addresses, NEW t, Proceeds(s, t, a)
  PROVE  HandlerInv(t, R, N) /\ Settled(t)
<1>1. /\ s \in HandlerState /\ ReceiversInv(s) /\ TimersInv(s) /\ SendersInv(s) /\ ContentInv(s, R)
      /\ CountsInv(s) /\ DeliveredInv(s, R) /\ NumbersInv(s, N) /\ TurnsInv(s) /\ OrderInv(s)
      /\ IsInjective(s.list)
  BY DEF HandlerInv
<1>2. /\ t \in HandlerState /\ t.list = s.list /\ t.rx = s.rx /\ t.updated = s.updated /\ t.free = s.free
      /\ t.processing = s.processing /\ t.delivered = s.delivered /\ t.untold = s.untold
      /\ t.released = s.released
      /\ \A b \in Addresses : b # a => t.sender[b] = s.sender[b]
      /\ t.sender[a].id = s.sender[a].id /\ t.sender[a].frames = s.sender[a].frames
      /\ t.sender[a].next = s.sender[a].next + 1 /\ t.sender[a].next \in 1 .. t.sender[a].frames
  BY DEF Proceeds
<1>3. /\ Listed(t) = Listed(s) /\ Holding(t) = Holding(s) /\ Finished(t) = Finished(s)
      /\ \A k : Pending(t, k) <=> Pending(s, k)
  BY SMTT(60), <1>2 DEF Listed, Holding, Finished, Pending
<1>4. ReceiversInv(t) /\ TimersInv(t) /\ CountsInv(t)
  BY <1>1, <1>2, <1>3 DEF ReceiversInv, TimersInv, CountsInv
<1>5. SendersInv(t)
  <2>1. s.sender[a].frames # 0
    <3>1. s.sender[a] \in Sender
      BY <1>1 DEF HandlerState
    <3>2. s.sender[a].next \in Nat
      BY <3>1 DEF Sender
    <3>. QED BY <1>2, <3>2
  <2>2. t.sender[a].id \in Ids
    BY <1>1, <1>2, <2>1 DEF SendersInv
  <2>. QED BY <1>1, <1>2, <2>2 DEF SendersInv
<1>6. ContentInv(t, R)
  <2>. SUFFICES ASSUME NEW k \in Listed(t), Pending(t, k), Segmented(t.rx[k])
                PROVE  /\ t.rx[k].address \notin Functional
                       /\ t.rx[k].address \notin R => Follows(t.rx[k], k, t.sender[t.rx[k].address])
    BY DEF ContentInv
  <2>. DEFINE r == s.rx[k]
              q == s.sender[r.address]
              p == t.sender[r.address]
  <2>1. r \in Receiver /\ r.address \in Addresses
    <3>1. k \in Ids
      BY <1>2, ListedFacts
    <3>2. r \in Receiver
      BY <1>1, <3>1 DEF HandlerState
    <3>. QED BY <3>2 DEF Receiver
  <2>2. r.address \notin Functional /\ (r.address \notin R => Follows(r, k, q))
    BY SMTT(60), <1>1, <1>2, <1>3 DEF ContentInv
  <2>3. q \in Sender /\ p.id = q.id /\ p.frames = q.frames /\ (p.next = q.next \/ p.next = q.next + 1)
    <3>1. q \in Sender
      BY <1>1, <2>1 DEF HandlerState
    <3>2. CASE r.address = a
      BY <1>2, <3>1, <3>2
    <3>3. CASE r.address # a
      BY <1>2, <2>1, <3>1, <3>3
    <3>. QED BY <3>2, <3>3
  <2>4. q.next \in Nat /\ r.frameIndex \in Nat
    BY <2>1, <2>3, MaxFramesFacts DEF Sender, Receiver
  <2>5. t.rx[k] = r
    BY <1>2
  <2>. HIDE DEF p, q, r
  <2>6. r.frameIndex <= q.next => r.frameIndex <= p.next
    BY <2>3, <2>4
  <2>7. UpToDate(r, k, q) => UpToDate(r, k, p)
    <3>1. r.frameIndex + 16 <= q.next => r.frameIndex + 16 <= p.next
      BY <2>3, <2>4
    <3>. QED BY <3>1 DEF UpToDate
  <2>8. Follows(r, k, q) => Follows(r, k, p)
    BY <2>3, <2>6, <2>7 DEF Follows
  <2>. QED BY <2>2, <2>5, <2>8 DEF p, q, r
<1>7. DeliveredInv(t, R) /\ NumbersInv(t, N) /\ OrderInv(t)
  BY <1>1, <1>2, <1>3 DEF DeliveredInv, NumbersInv, OrderInv
<1>8. TurnsInv(t)
  BY <1>1, <1>2, <1>3 DEF TurnsInv
<1>9. Settled(t)
  BY <1>2, <1>3 DEF Settled
<1>. QED BY <1>1, <1>2, <1>4, <1>5, <1>6, <1>7, <1>8, <1>9 DEF HandlerInv

\* What remains of a handler of a consecutive frame.
LEMMA ConsecutiveEnds ==
  ASSUME ReceiverInv, NEW s, HandlerInv(s, refused, count), s.list = list,
         \A i \in Listed(s) : s.rx[i].state # "ALLOCATE",
         Become(s), UNCHANGED <<queued, count, refused, sinceCyclic, open>>
  PROVE  ReceiverInv'
<1>1. TypeOK /\ ~overrun
  BY DEF ReceiverInv
<1>2. /\ refused' = refused /\ count' = count /\ queued' = queued /\ open' = open
      /\ sinceCyclic' = sinceCyclic
  OBVIOUS
<1>3. /\ queued' \in BOOLEAN /\ count' \in 0 .. MaxMessages /\ refused' \subseteq Addresses
      /\ sinceCyclic' \in 0 .. MaxLate /\ open' \in BOOLEAN /\ Len(s.list) <= PoolSize
  BY <1>1, <1>2 DEF TypeOK
<1>4. HandlerInv(s, refused', count')
  BY <1>2
<1>. QED BY <1>1, <1>3, <1>4, HandlerEnds

\* Sender a may send: what its fields are.
LEMMA SendingFacts ==
  ASSUME ReceiverInv, NEW a \in Addresses, Sending(a)
  PROVE  /\ sender \in [Addresses -> Sender] /\ sender[a] \in Sender /\ sender[a].id \in Ids
         /\ sender[a].next \in 1 .. sender[a].frames /\ sender[a].next + 1 \in 1 .. sender[a].frames
         /\ sender[a].next \in Nat /\ sender[a].frames \in Nat /\ sender[a].frames <= MaxFrames
         /\ sender[a].next < MaxFrames /\ MaxFrames \in Nat
<1>1. FoundState
  BY FoundFacts
<1>2. sender \in [Addresses -> Sender]
  <2>1. Found \in HandlerState /\ Found.sender = sender
    BY <1>1 DEF FoundState
  <2>. QED BY <2>1 DEF HandlerState
<1>3. sender[a] \in Sender
  BY <1>2
<1>4. sender[a].next \in Nat /\ sender[a].frames \in {0} \cup FrameCounts /\ MaxFrames \in Nat
  BY <1>3, MaxFramesFacts DEF Sender
<1>5. sender[a].frames \in Nat /\ sender[a].frames <= MaxFrames
  <2>. DEFINE f == sender[a].frames
  <2>1. f = 0 \/ f \in FrameCounts
    BY <1>4
  <2>. HIDE DEF f
  <2>2. CASE f = 0
    BY <1>4, <2>2 DEF f
  <2>3. CASE f \in FrameCounts
    <3>1. f \in Nat /\ f <= MaxFrames
      BY <2>3, MaxFramesFacts, ConstantFacts
    <3>. QED BY <3>1 DEF f
  <2>. QED BY <2>1, <2>2, <2>3
<1>6. sender[a].next < sender[a].frames
  BY DEF Sending
<1>7. SendersInv(Found) /\ Found.sender = sender
  BY <1>1 DEF FoundState, HandlerInv
<1>8. sender[a].id \in Ids /\ sender[a].next \in 1 .. sender[a].frames
  <2>1. sender[a].frames # 0
    BY <1>4, <1>5, <1>6
  <2>. QED BY <1>7, <2>1 DEF SendersInv
<1>9. sender[a].next + 1 \in 1 .. sender[a].frames /\ sender[a].next < MaxFrames
  <2>. DEFINE n == sender[a].next
              f == sender[a].frames
  <2>1. n \in Nat /\ f \in Nat /\ f <= MaxFrames /\ n < f /\ MaxFrames \in Nat
    BY <1>4, <1>5, <1>6
  <2>. HIDE DEF n, f
  <2>2. n + 1 \in 1 .. f /\ n < MaxFrames
    BY <2>1
  <2>. QED BY <2>2 DEF n, f
<1>. QED BY <1>2, <1>3, <1>4, <1>5, <1>8, <1>9

\* The last frame arrives twice.
LEMMA DuplicateConsecutiveKeeps ==
  ASSUME ReceiverInv, NEW a \in Addresses, DuplicateConsecutive(a)
  PROVE  ReceiverInv'
<1>. DEFINE frame == [of |-> sender[a].id, index |-> sender[a].next - 1]
<1>1. Sending(a) /\ UNCHANGED <<queued, count, refused, sinceCyclic, open>>
  BY DEF DuplicateConsecutive
<1>2. PICK s \in ConsecutiveDataFrame(Found, a, frame) : Become(s)
  BY DEF DuplicateConsecutive
<1>3. FoundState
  BY FoundFacts
<1>4. /\ sender[a].id \in Ids /\ sender[a].next \in 1 .. sender[a].frames /\ sender[a].next \in Nat
      /\ sender[a].next < MaxFrames /\ MaxFrames \in Nat /\ sender[a].frames \in Nat
  BY <1>1, SendingFacts
<1>5. frame \in Frame
  BY <1>4 DEF Frame
<1>6. Found.sender = sender
  BY <1>3 DEF FoundState
<1>7. /\ HandlerInv(s, refused, count) /\ s.list = Found.list
      /\ \A i \in Listed(s) : s.rx[i].state # "ALLOCATE"
  <2>1. /\ HandlerInv(Found, refused, count) /\ Settled(Found) /\ count \in Nat
        /\ Found.sender[a].next \in 1 .. Found.sender[a].frames
        /\ frame = [of |-> Found.sender[a].id, index |-> Found.sender[a].next - 1]
    BY <1>3, <1>4, <1>6 DEF FoundState
  <2>. HIDE DEF frame
  <2>. QED BY <1>2, <1>5, <2>1, ConsecutiveDataFrameKeeps
<1>8. s.list = list
  BY <1>3, <1>7 DEF FoundState
<1>. QED BY <1>1, <1>2, <1>7, <1>8, ConsecutiveEnds

\* The next frame arrives, or is lost.
LEMMA SendConsecutiveKeeps ==
  ASSUME ReceiverInv, NEW a \in Addresses, SendConsecutive(a)
  PROVE  ReceiverInv'
<1>. DEFINE s0 == [Found EXCEPT !.sender[a].next = @ + 1, !.sender[a].credit = @ - 1]
            frame == [of |-> sender[a].id, index |-> sender[a].next]
            q == [sender[a] EXCEPT !.next = @ + 1, !.credit = @ - 1]
            x == [sender EXCEPT ![a] = q]
<1>1. Sending(a) /\ sender[a].credit > 0 /\ UNCHANGED <<queued, count, refused, sinceCyclic, open>>
  BY DEF SendConsecutive
<1>2. PICK s \in {s0} \cup ConsecutiveDataFrame(s0, a, frame) : Become(s)
  BY DEF SendConsecutive
<1>3. FoundState
  BY FoundFacts
<1>4. /\ sender \in [Addresses -> Sender] /\ sender[a] \in Sender /\ sender[a].id \in Ids
      /\ sender[a].next \in Nat /\ sender[a].frames \in Nat /\ sender[a].frames <= MaxFrames
      /\ sender[a].next < MaxFrames /\ MaxFrames \in Nat
      /\ sender[a].next + 1 \in 1 .. sender[a].frames
  BY <1>1, SendingFacts
<1>5. frame \in Frame
  BY <1>4 DEF Frame
<1>6. /\ q \in Sender /\ q.id = sender[a].id /\ q.frames = sender[a].frames
      /\ q.next = sender[a].next + 1
  <2>1. sender[a].credit \in Nat
    BY <1>4 DEF Sender
  <2>. DEFINE n == sender[a].next + 1
              c == sender[a].credit - 1
  <2>2. n \in 0 .. MaxFrames /\ c \in Nat
    BY <1>1, <1>4, <2>1
  <2>3. q = [sender[a] EXCEPT !.next = n, !.credit = c]
    BY <1>4 DEF Sender
  <2>. HIDE DEF n, c, q
  <2>4. q \in Sender /\ q.id = sender[a].id /\ q.frames = sender[a].frames /\ q.next = n
    BY <1>4, <2>2, <2>3 DEF Sender
  <2>. QED BY <2>4 DEF n
<1>7. s0 = [Found EXCEPT !.sender = x]
  BY ZenonT(60), <1>3, <1>4 DEF FoundState, HandlerState, Sender
<1>. HIDE DEF s0, q
<1>8. x \in [Addresses -> Sender] /\ x[a] = q /\ \A b \in Addresses : b # a => x[b] = sender[b]
  BY <1>4, <1>6
<1>. HIDE DEF x
<1>9. Found \in HandlerState /\ Found.sender = sender
  BY <1>3 DEF FoundState
<1>10. s0 \in HandlerState
  BY <1>7, <1>8, <1>9 DEF HandlerState
<1>11. /\ s0.sender = x /\ s0.list = Found.list /\ s0.rx = Found.rx /\ s0.updated = Found.updated
       /\ s0.free = Found.free /\ s0.processing = Found.processing /\ s0.delivered = Found.delivered
       /\ s0.untold = Found.untold /\ s0.released = Found.released /\ s0.stop = Found.stop
  BY <1>7, <1>9 DEF HandlerState
<1>12. Proceeds(Found, s0, a)
  BY <1>4, <1>6, <1>8, <1>9, <1>10, <1>11 DEF Proceeds
<1>13. HandlerInv(s0, refused, count) /\ Settled(s0)
  BY <1>3, <1>12, ProceedsKeeps DEF FoundState
<1>14. /\ HandlerInv(s, refused, count) /\ s.list = s0.list
       /\ \A i \in Listed(s) : s.rx[i].state # "ALLOCATE"
  <2>1. CASE s = s0
    BY <1>13, <2>1 DEF Settled
  <2>2. CASE s \in ConsecutiveDataFrame(s0, a, frame)
    <3>1. s0.sender[a].next \in 1 .. s0.sender[a].frames
      BY <1>4, <1>6, <1>8, <1>11
    <3>2. frame = [of |-> s0.sender[a].id, index |-> s0.sender[a].next - 1]
      <4>1. sender[a].next = s0.sender[a].next - 1
        BY <1>4, <1>6, <1>8, <1>11
      <4>. QED BY <1>6, <1>8, <1>11, <4>1
    <3>3. count \in Nat
      BY <1>3 DEF FoundState
    <3>. HIDE DEF frame
    <3>. QED BY <1>5, <1>13, <2>2, <3>1, <3>2, <3>3, ConsecutiveDataFrameKeeps
  <2>. QED BY <2>1, <2>2
<1>15. s.list = list
  BY <1>3, <1>11, <1>14 DEF FoundState
<1>. QED BY <1>1, <1>2, <1>14, <1>15, ConsecutiveEnds

\* One message more has been sent.
LEMMA OneMore ==
  ASSUME NEW s, NEW R, NEW N \in Nat, HandlerInv(s, R, N)
  PROVE  HandlerInv(s, R, N + 1)
<1>1. \A k \in 1 .. N : k \in 1 .. (N + 1)
  OBVIOUS
<1>2. NumbersInv(s, N)
  BY DEF HandlerInv
<1>3. NumbersInv(s, N + 1)
  BY <1>1, <1>2 DEF NumbersInv
<1>. QED BY <1>3 DEF HandlerInv

\* From s to t the sender of address a has begun message i of n frames.
Begins(s, t, a, i, n) ==
  /\ t \in HandlerState /\ t.list = s.list /\ t.rx = s.rx /\ t.updated = s.updated /\ t.free = s.free
  /\ t.processing = s.processing /\ t.delivered = s.delivered /\ t.untold = s.untold
  /\ t.released = s.released /\ t.stop = s.stop
  /\ \A b \in Addresses : b # a => t.sender[b] = s.sender[b]
  /\ t.sender[a].id = i /\ t.sender[a].frames = n /\ t.sender[a].next = 1

\* A sender that begins a message keeps the invariant, if the data of its address does not count
\* or it is in no segmented message.
LEMMA BeginsKeeps ==
  ASSUME NEW s, NEW R, NEW N, HandlerInv(s, R, N), Settled(s), NEW a \in Addresses, NEW i \in Ids,
         NEW n \in FrameCounts, NEW t, Begins(s, t, a, i, n), NEW Q, R \subseteq Q,
         a \in Q \/ \A k \in Listed(s) : Segmented(s.rx[k]) => s.rx[k].address # a
  PROVE  HandlerInv(t, Q, N) /\ Settled(t)
<1>1. /\ s \in HandlerState /\ ReceiversInv(s) /\ TimersInv(s) /\ SendersInv(s) /\ ContentInv(s, R)
      /\ CountsInv(s) /\ DeliveredInv(s, R) /\ NumbersInv(s, N) /\ TurnsInv(s) /\ OrderInv(s)
      /\ IsInjective(s.list)
  BY DEF HandlerInv
<1>2. /\ t \in HandlerState /\ t.list = s.list /\ t.rx = s.rx /\ t.updated = s.updated /\ t.free = s.free
      /\ t.processing = s.processing /\ t.delivered = s.delivered /\ t.untold = s.untold
      /\ t.released = s.released
      /\ \A b \in Addresses : b # a => t.sender[b] = s.sender[b]
      /\ t.sender[a].id = i /\ t.sender[a].frames = n /\ t.sender[a].next = 1
  BY DEF Begins
<1>3. /\ Listed(t) = Listed(s) /\ Holding(t) = Holding(s) /\ Finished(t) = Finished(s)
      /\ \A k : Pending(t, k) <=> Pending(s, k)
  BY SMTT(60), <1>2 DEF Listed, Holding, Finished, Pending
<1>4. ReceiversInv(t) /\ TimersInv(t) /\ CountsInv(t)
  BY <1>1, <1>2, <1>3 DEF ReceiversInv, TimersInv, CountsInv
<1>5. SendersInv(t)
  <2>1. n \in Nat \ {0}
    BY ConstantFacts
  <2>2. t.sender[a].next \in 1 .. t.sender[a].frames
    BY <1>2, <2>1
  <2>. QED BY <1>1, <1>2, <2>2 DEF SendersInv
<1>6. ContentInv(t, Q)
  <2>. SUFFICES ASSUME NEW k \in Listed(t), Pending(t, k), Segmented(t.rx[k])
                PROVE  /\ t.rx[k].address \notin Functional
                       /\ t.rx[k].address \notin Q => Follows(t.rx[k], k, t.sender[t.rx[k].address])
    BY DEF ContentInv
  <2>. DEFINE r == s.rx[k]
  <2>1. r.address \in Addresses
    <3>1. k \in Ids
      BY <1>2, ListedFacts
    <3>2. r \in Receiver
      BY <1>1, <3>1 DEF HandlerState
    <3>. QED BY <3>2 DEF Receiver
  <2>2. r.address \notin Functional /\ (r.address \notin R => Follows(r, k, s.sender[r.address]))
    BY <1>1, <1>2, <1>3 DEF ContentInv
  <2>3. r.address \notin Q => r.address \notin R /\ r.address # a
    BY <1>2, <1>3
  <2>. QED BY <1>2, <2>1, <2>2, <2>3
<1>7. DeliveredInv(t, Q)
  BY <1>1, <1>2 DEF DeliveredInv
<1>8. NumbersInv(t, N) /\ OrderInv(t)
  BY <1>1, <1>2, <1>3 DEF NumbersInv, OrderInv
<1>9. TurnsInv(t)
  BY <1>1, <1>2, <1>3 DEF TurnsInv
<1>10. Settled(t)
  BY <1>2, <1>3 DEF Settled
<1>. QED BY <1>1, <1>2, <1>4, <1>5, <1>6, <1>7, <1>8, <1>9, <1>10 DEF HandlerInv

\* No pending receiver of address a is in the middle of a segmented message.
Cleared(s, a) ==
  \A k \in Listed(s) : /\ s.rx[k].state # "ALLOCATE"
                       /\ Pending(s, k) /\ s.rx[k].address = a => ~Segmented(s.rx[k])

\* handlePendingMessageReceivers() ends those that are.
LEMMA HandlePendingKeeps ==
  ASSUME NEW s, NEW R, NEW N \in Nat, NEW a, HandlerInv(s, R \cup {a}, N), Settled(s), DeliveredInv(s, R),
         NEW t, t = HandlePending(s, a)
  PROVE  /\ HandlerInv(t, R, N) /\ Cleared(t, a) /\ t.list = s.list /\ t.sender = s.sender
         /\ \A k \in Listed(s) : Pending(t, k) => Same(t.rx[k], s.rx[k])
<1>. DEFINE S == {k \in OfAddress(s, a) : Segmented(s.rx[k])}
<1>1. t = DoneAll(s, S)
  BY DEF HandlePending
<1>2. S = {k \in Listed(s) : s.rx[k].address = a /\ Segmented(s.rx[k])}
  BY DEF OfAddress, Listed
<1>. HIDE DEF S
<1>3. HandlerInv(t, R \cup {a}, N) /\ AllEnded(s, t, S)
  BY <1>1, DoneAllKeeps
<1>4. /\ t.list = s.list /\ t.sender = s.sender /\ t.delivered = s.delivered
      /\ \A k \in Listed(s) : /\ t.rx[k].state # "ALLOCATE"
                              /\ IF k \in S THEN t.rx[k].state = "DONE" ELSE Same(t.rx[k], s.rx[k])
  BY <1>3 DEF AllEnded
<1>5. Listed(t) = Listed(s)
  BY <1>4 DEF Listed
<1>6. \A k \in Listed(s) : Pending(t, k) => Same(t.rx[k], s.rx[k]) /\ k \notin S
  BY <1>4, <1>5 DEF Pending
<1>7. Cleared(t, a)
  BY <1>2, <1>4, <1>5, <1>6 DEF Cleared, Segmented, Same
<1>8. DeliveredInv(t, R)
  BY <1>4 DEF DeliveredInv
<1>9. ContentInv(t, R)
  <2>1. ContentInv(t, R \cup {a})
    BY <1>3 DEF HandlerInv
  <2>. QED BY <1>7, <2>1 DEF ContentInv, Cleared
<1>10. HandlerInv(t, R, N)
  BY <1>3, <1>8, <1>9 DEF HandlerInv
<1>. QED BY <1>4, <1>6, <1>7, <1>10

\* From s to t receiver i has joined the list, as r.
Joins(s, t, i, r) ==
  /\ t \in HandlerState /\ t.list = Append(s.list, i) /\ t.rx[i] = r
  /\ \A k \in Ids \ {i} : t.rx[k] = s.rx[k]
  /\ t.updated = s.updated /\ t.free = s.free /\ t.processing = s.processing
  /\ t.delivered = s.delivered /\ t.sender = s.sender /\ t.untold = s.untold
  /\ t.released = s.released /\ t.stop = s.stop

\* What a receiver that joins is.
Joining(r, a, n) ==
  /\ r.address = a /\ r.frameCount = n /\ r.frameIndex = 1 /\ r.state = "ALLOCATE" /\ r.retry = 0
  /\ r.allocating /\ ~r.message

\* The list after a receiver has joined it.
LEMMA JoinsFacts ==
  ASSUME NEW s \in HandlerState, IsInjective(s.list), NEW i \in Ids, i \notin Listed(s), NEW r, NEW t,
         Joins(s, t, i, r)
  PROVE  /\ Listed(t) = Listed(s) \cup {i} /\ IsInjective(t.list)
         /\ \A k \in Listed(s) : k # i /\ t.rx[k] = s.rx[k]
         /\ DOMAIN t.list = DOMAIN s.list \cup {Len(s.list) + 1}
         /\ \A m \in DOMAIN s.list : m < Len(s.list) + 1 /\ t.list[m] = s.list[m]
         /\ t.list[Len(s.list) + 1] = i
<1>. DEFINE l == s.list
            n == Len(l) + 1
<1>1. l \in Seq(Ids) /\ t.list = Append(l, i)
  BY DEF Joins, HandlerState
<1>2. DOMAIN l = 1 .. Len(l) /\ Len(l) \in Nat
  BY <1>1
<1>. HIDE DEF l
<1>3. /\ DOMAIN t.list = 1 .. n /\ t.list[n] = i
      /\ \A m \in 1 .. Len(l) : t.list[m] = l[m]
  <2>. DEFINE q == Append(l, i)
  <2>1. Len(q) = n /\ q \in Seq(Ids)
    BY <1>1
  <2>2. DOMAIN q = 1 .. n
    BY <2>1
  <2>3. q[n] = i /\ \A m \in 1 .. Len(l) : q[m] = l[m]
    BY <1>1
  <2>. QED BY <1>1, <2>2, <2>3
<1>4. 1 .. n = (1 .. Len(l)) \cup {n} /\ n \notin 1 .. Len(l) /\ \A m \in 1 .. Len(l) : m < n
  BY <1>2
<1>5. Listed(s) = {l[m] : m \in 1 .. Len(l)}
  BY <1>2 DEF Listed, ToSet, l
<1>6. Listed(t) = Listed(s) \cup {i}
  <2>1. Listed(t) = {t.list[m] : m \in 1 .. n}
    BY <1>3 DEF Listed, ToSet
  <2>. DEFINE D == 1 .. Len(l)
              E == 1 .. n
              q == t.list
  <2>2. E = D \cup {n} /\ q[n] = i /\ \A m \in D : q[m] = l[m]
    BY <1>3, <1>4
  <2>3. Listed(t) = {q[m] : m \in E} /\ Listed(s) = {l[m] : m \in D}
    BY <1>5, <2>1
  <2>. HIDE DEF D, E, q, n
  <2>. QED BY <2>2, <2>3
<1>7. IsInjective(t.list)
  <2>. SUFFICES ASSUME NEW x \in DOMAIN t.list, NEW y \in DOMAIN t.list, t.list[x] = t.list[y]
                PROVE  x = y
    BY DEF IsInjective
  <2>1. CASE x \in 1 .. Len(l) /\ y \in 1 .. Len(l)
    BY <1>2, <1>3, <2>1 DEF IsInjective, l
  <2>2. \A m \in 1 .. Len(l) : t.list[m] # i
    BY <1>3, <1>5
  <2>. QED BY <1>3, <1>4, <2>1, <2>2
<1>8. \A k \in Listed(s) : k # i /\ t.rx[k] = s.rx[k]
  <2>1. Listed(s) \subseteq Ids
    BY ListedFacts
  <2>. QED BY <2>1 DEF Joins
<1>. QED BY <1>2, <1>3, <1>4, <1>6, <1>7, <1>8 DEF l

\* A receiver that joins the list keeps the invariant: it is the last one of its address.
LEMMA JoinsKeeps ==
  ASSUME NEW s, NEW R, NEW N \in Nat, HandlerInv(s, R, N), NEW a \in Addresses, Cleared(s, a),
         NEW i \in Ids, i = N + 1, NEW n \in FrameCounts, ~(n > 1 /\ a \in Functional),
         s.sender[a].id = i, s.sender[a].frames = n, s.sender[a].next = 1,
         NEW r, Joining(r, a, n), NEW t, Joins(s, t, i, r)
  PROVE  HandlerInv(t, R, i)
<1>1. /\ s \in HandlerState /\ ReceiversInv(s) /\ TimersInv(s) /\ SendersInv(s) /\ ContentInv(s, R)
      /\ CountsInv(s) /\ DeliveredInv(s, R) /\ NumbersInv(s, N) /\ TurnsInv(s) /\ OrderInv(s)
      /\ IsInjective(s.list)
  BY DEF HandlerInv
<1>2. /\ t \in HandlerState /\ t.rx[i] = r
      /\ t.updated = s.updated /\ t.free = s.free /\ t.processing = s.processing
      /\ t.delivered = s.delivered /\ t.sender = s.sender /\ t.untold = s.untold
      /\ t.released = s.released
  BY DEF Joins
<1>3. /\ r.address = a /\ r.frameCount = n /\ r.frameIndex = 1 /\ r.state = "ALLOCATE" /\ r.retry = 0
      /\ r.allocating /\ ~r.message
  BY DEF Joining
<1>4. i \notin 1 .. N /\ i \in 1 .. i /\ \A k \in 1 .. N : k < i /\ k \in 1 .. i /\ ~(i < k)
  OBVIOUS
<1>5. i \notin Listed(s) /\ \A k \in Listed(s) : k < i /\ k \in 1 .. i /\ ~(i < k)
  BY <1>1, <1>4 DEF NumbersInv
<1>6. /\ Listed(t) = Listed(s) \cup {i} /\ IsInjective(t.list)
      /\ \A k \in Listed(s) : k # i /\ t.rx[k] = s.rx[k]
      /\ DOMAIN t.list = DOMAIN s.list \cup {Len(s.list) + 1}
      /\ \A m \in DOMAIN s.list : m < Len(s.list) + 1 /\ t.list[m] = s.list[m]
      /\ t.list[Len(s.list) + 1] = i
  BY <1>1, <1>5, JoinsFacts
<1>7. /\ \A k \in Listed(s) : Pending(t, k) <=> Pending(s, k)
      /\ Pending(t, i)
  BY <1>2, <1>3, <1>6 DEF Pending
<1>8. Holding(t) = Holding(s) /\ Finished(t) = Finished(s)
  BY <1>2, <1>3, <1>6 DEF Holding, Finished
<1>9. ReceiversInv(t)
  <2>1. Sound(r)
    BY <1>3 DEF Sound
  <2>. QED BY <1>1, <1>2, <1>3, <1>6, <2>1 DEF ReceiversInv
<1>10. CountsInv(t) /\ SendersInv(t) /\ DeliveredInv(t, R)
  BY SMTT(60), <1>1, <1>2, <1>8 DEF CountsInv, SendersInv, DeliveredInv
<1>11. TimersInv(t)
  <2>1. \A m \in DOMAIN s.list : s.list[m] \in Listed(s)
    BY <1>1, ListedFacts
  <2>2. \A m \in DOMAIN t.list : t.rx[t.list[m]].state = "WAIT" =>
          m \in DOMAIN s.list /\ t.list[m] = s.list[m] /\ t.rx[t.list[m]] = s.rx[s.list[m]]
    BY <1>2, <1>3, <1>6, <2>1
  <2>. QED BY <1>1, <1>2, <2>2 DEF TimersInv
<1>12. ContentInv(t, R)
  <2>. SUFFICES ASSUME NEW k \in Listed(t), Pending(t, k), Segmented(t.rx[k])
                PROVE  /\ t.rx[k].address \notin Functional
                       /\ t.rx[k].address \notin R => Follows(t.rx[k], k, t.sender[t.rx[k].address])
    BY DEF ContentInv
  <2>1. CASE k \in Listed(s)
    BY <1>1, <1>2, <1>6, <1>7, <2>1 DEF ContentInv
  <2>2. CASE k = i
    <3>1. a \notin Functional
      BY <1>2, <1>3, <2>2 DEF Segmented
    <3>2. Follows(r, i, s.sender[a])
      BY <1>3 DEF Follows
    <3>. QED BY <1>2, <1>3, <2>2, <3>1, <3>2
  <2>. QED BY <1>6, <2>1, <2>2
<1>13. NumbersInv(t, i)
  <2>1. t.processing \subseteq 1 .. i /\ i \notin t.processing
    BY <1>1, <1>2, <1>4 DEF NumbersInv
  <2>2. \A m \in DOMAIN t.delivered : t.delivered[m].id \in 1 .. i /\ t.delivered[m].id # i
    BY <1>1, <1>2, <1>4 DEF NumbersInv
  <2>3. Listed(t) \subseteq 1 .. i
    BY <1>4, <1>5, <1>6
  <2>4. \A k \in Listed(t) : Pending(t, k) =>
          k \notin t.processing /\ \A m \in DOMAIN t.delivered : t.delivered[m].id # k
    BY <1>1, <1>2, <1>6, <1>7, <2>1, <2>2 DEF NumbersInv
  <2>. QED BY <2>1, <2>2, <2>3, <2>4 DEF NumbersInv
<1>14. OrderInv(t)
  <2>1. \A m \in DOMAIN t.delivered : t.delivered[m].id < i
    BY <1>1, <1>2, <1>4 DEF NumbersInv
  <2>2. \A m \in DOMAIN t.delivered, k \in Listed(t) :
          Pending(t, k) /\ t.delivered[m].address = t.rx[k].address /\ t.rx[k].address \notin t.untold
            => t.delivered[m].id < k
    BY <1>1, <1>2, <1>6, <1>7, <2>1 DEF OrderInv
  <2>. QED BY <1>1, <1>2, <2>2 DEF OrderInv
<1>15. TurnsInv(t)
  <2>. SUFFICES ASSUME NEW j \in Listed(t), NEW k \in Listed(t), Pending(t, j), Pending(t, k), j < k,
                       t.rx[j].address = t.rx[k].address, t.rx[k].address \notin t.untold
                PROVE  /\ ~Segmented(t.rx[j]) /\ t.rx[j].state = "WAIT" /\ t.rx[k].allocating
                       /\ Before(t.list, j, k)
                       /\ t.rx[k].state = "WAIT" => t.rx[j].timer <= t.rx[k].timer
    BY DEF TurnsInv
  <2>1. j \in Listed(s) /\ t.rx[j] = s.rx[j] /\ Pending(s, j)
    <3>1. j # i
      BY <1>4, <1>5, <1>6
    <3>. QED BY <1>6, <1>7, <3>1
  <2>2. CASE k \in Listed(s)
    <3>1. t.rx[k] = s.rx[k] /\ Pending(s, k)
      BY <1>6, <1>7, <2>2
    <3>2. /\ ~Segmented(s.rx[j]) /\ s.rx[j].state = "WAIT" /\ s.rx[k].allocating
          /\ Before(s.list, j, k)
          /\ s.rx[k].state = "WAIT" => s.rx[j].timer <= s.rx[k].timer
      BY <1>1, <1>2, <2>1, <2>2, <3>1 DEF TurnsInv
    <3>3. Before(t.list, j, k)
      BY <1>6, <3>2 DEF Before
    <3>. QED BY <2>1, <3>1, <3>2, <3>3
  <2>3. CASE k = i
    <3>1. ~Segmented(s.rx[j]) /\ s.rx[j].state # "ALLOCATE"
      BY <1>2, <1>3, <2>1, <2>3 DEF Cleared
    <3>2. Sound(s.rx[j])
      BY <1>1, <2>1 DEF ReceiversInv, Pending
    <3>3. s.rx[j].state = "WAIT"
      BY <3>1, <3>2 DEF Sound
    <3>4. PICK m \in DOMAIN s.list : s.list[m] = j
      BY <1>1, <2>1, ListedFacts
    <3>5. Before(t.list, j, i)
      BY <1>6, <3>4 DEF Before
    <3>. QED BY <1>2, <1>3, <2>1, <2>3, <3>1, <3>3, <3>5
  <2>. QED BY <1>6, <2>2, <2>3
<1>. QED BY <1>2, <1>6, <1>9, <1>10, <1>11, <1>12, <1>13, <1>14, <1>15 DEF HandlerInv

\* The sender of address a begins a message.
LEMMA FoundBegins ==
  ASSUME NEW s \in HandlerState, NEW a \in Addresses, NEW i \in Ids, NEW n \in FrameCounts,
         NEW t, t = [s EXCEPT !.sender[a] = [id |-> i, frames |-> n, next |-> 1, credit |-> 0]]
  PROVE  Begins(s, t, a, i, n)
<1>. DEFINE q == [id |-> i, frames |-> n, next |-> 1, credit |-> 0]
            x == [s.sender EXCEPT ![a] = q]
<1>1. s.sender \in [Addresses -> Sender]
  BY DEF HandlerState
<1>2. q \in Sender
  <2>1. i \in 0 .. MaxMessages /\ 1 \in 0 .. MaxFrames
    BY MaxFramesFacts, ConstantFacts DEF Ids
  <2>. QED BY <2>1 DEF Sender
<1>3. q.id = i /\ q.frames = n /\ q.next = 1
  OBVIOUS
<1>4. t = [s EXCEPT !.sender = x]
  OBVIOUS
<1>. HIDE DEF q
<1>5. x \in [Addresses -> Sender] /\ x[a] = q /\ \A b \in Addresses : b # a => x[b] = s.sender[b]
  BY <1>1, <1>2
<1>. HIDE DEF x
<1>6. t \in HandlerState
  BY <1>4, <1>5 DEF HandlerState
<1>7. /\ t.sender = x /\ t.list = s.list /\ t.rx = s.rx /\ t.updated = s.updated /\ t.free = s.free
      /\ t.processing = s.processing /\ t.delivered = s.delivered /\ t.untold = s.untold
      /\ t.released = s.released /\ t.stop = s.stop
  BY <1>4 DEF HandlerState
<1>. QED BY <1>3, <1>5, <1>6, <1>7 DEF Begins

\* createMessageReceiver(): what a new receiver is.
LEMMA NewReceiverFacts ==
  ASSUME NEW a \in Addresses, NEW n \in FrameCounts, NEW b \in BOOLEAN
  PROVE  /\ NewReceiver(a, n, b) \in Receiver /\ Joining(NewReceiver(a, n, b), a, n)
         /\ NewReceiver(a, n, b).blocked = b
<1>1. 1 \in 1 .. MaxFrames
  BY MaxFramesFacts
<1>2. "ALLOCATE" \in States /\ "NONE" \in Timeouts /\ <<>> \in Seq(Frame)
  BY DEF States, Timeouts
<1>3. NewReceiver(a, n, b) \in Receiver
  BY <1>1, <1>2 DEF NewReceiver, Receiver
<1>. QED BY <1>3 DEF Joining, NewReceiver

\* It joins the list.
LEMMA FoundJoins ==
  ASSUME NEW s \in HandlerState, NEW i \in Ids, NEW r \in Receiver,
         NEW t, t = [s EXCEPT !.list = Append(@, i), !.rx[i] = r]
  PROVE  Joins(s, t, i, r)
<1>. DEFINE l == Append(s.list, i)
            x == [s.rx EXCEPT ![i] = r]
<1>1. s.list \in Seq(Ids) /\ s.rx \in [Ids -> Receiver]
  BY DEF HandlerState
<1>2. l \in Seq(Ids)
  BY <1>1
<1>3. x \in [Ids -> Receiver] /\ x[i] = r /\ \A k \in Ids \ {i} : x[k] = s.rx[k]
  BY <1>1
<1>4. t = [s EXCEPT !.list = l, !.rx = x]
  OBVIOUS
<1>5. l = Append(s.list, i)
  OBVIOUS
<1>. HIDE DEF l, x
<1>6. t \in HandlerState
  BY <1>2, <1>3, <1>4 DEF HandlerState
<1>7. /\ t.list = l /\ t.rx = x /\ t.updated = s.updated /\ t.free = s.free
      /\ t.processing = s.processing /\ t.delivered = s.delivered /\ t.sender = s.sender
      /\ t.untold = s.untold /\ t.released = s.released /\ t.stop = s.stop
  BY <1>4 DEF HandlerState
<1>. QED BY <1>3, <1>5, <1>6, <1>7 DEF Joins

\* A single frame of address a that is pending blocks receiver r of the address.
Blocking(s, a, r) == \A k \in Listed(s) : Pending(s, k) /\ s.rx[k].address = a => r.blocked

\* From t to u receiver i has asked for a message.
Asked(t, u, i) == \E e : u = Allocate(t, i, FALSE, e)

\* No receiver is about to ask for a message.
ServedAll(s) == \A k \in Listed(s) : s.rx[k].state # "ALLOCATE"

\* Message i of n frames of address a is the next one, and its sender has begun it.
MayJoin(s, R, N, a, i, n) ==
  /\ HandlerInv(s, R, N) /\ Cleared(s, a) /\ i = N + 1 /\ ~(n > 1 /\ a \in Functional)
  /\ s.sender[a].id = i /\ s.sender[a].frames = n /\ s.sender[a].next = 1

\* A receiver that has joined asks for a message.
LEMMA JoinedAllocates ==
  ASSUME NEW s, NEW R, NEW N \in Nat, NEW a \in Addresses, NEW i \in Ids, NEW n \in FrameCounts,
         MayJoin(s, R, N, a, i, n), NEW r \in Receiver, Joining(r, a, n), Blocking(s, a, r),
         NEW t, Joins(s, t, i, r), NEW u, Asked(t, u, i)
  PROVE  HandlerInv(u, R, i) /\ u.list = t.list /\ ServedAll(u)
<1>1. /\ HandlerInv(s, R, N) /\ Cleared(s, a) /\ i = N + 1 /\ ~(n > 1 /\ a \in Functional)
       /\ s.sender[a].id = i /\ s.sender[a].frames = n /\ s.sender[a].next = 1
  BY DEF MayJoin
<1>3. HandlerInv(t, R, i)
  BY <1>1, JoinsKeeps
<1>4. s \in HandlerState /\ IsInjective(s.list) /\ NumbersInv(s, N)
  BY <1>1 DEF HandlerInv
<1>5. i \notin Listed(s) /\ \A k \in Listed(s) : k <= i
  BY <1>1, <1>4 DEF NumbersInv
<1>6. /\ Listed(t) = Listed(s) \cup {i}
      /\ \A k \in Listed(s) : k # i /\ t.rx[k] = s.rx[k]
  BY <1>4, <1>5, JoinsFacts
<1>7. t \in HandlerState /\ t.rx[i] = r /\ t.sender = s.sender
  BY DEF Joins
<1>8. /\ r.address = a /\ r.frameCount = n /\ r.frameIndex = 1 /\ r.state = "ALLOCATE"
      /\ r.allocating /\ ~r.message
  BY DEF Joining
<1>9. i \in Listed(t) /\ t.rx[i].state # "DONE" /\ Pending(t, i)
  BY <1>6, <1>7, <1>8 DEF Pending
<1>10. Asks(t.rx[i], i, t.sender[t.rx[i].address], R)
  BY <1>1, <1>7, <1>8 DEF Asks
<1>11. AllocateOutcome(t, u, i, R, FALSE)
  <2>1. PICK e : u = Allocate(t, i, FALSE, e)
    BY DEF Asked
  <2>. QED BY <1>7, <1>10, <2>1, AllocateResult
<1>12. /\ Result(t, u, i, R)
       /\ r.blocked => u.delivered = t.delivered /\ (u.rx[i].state = "DONE" \/ u.rx[i].allocating)
  BY <1>7, <1>11 DEF AllocateOutcome
<1>13. IsLatest(t, i)
  <2>1. i <= i
    BY ConstantFacts DEF Ids
  <2>. QED BY <1>5, <1>6, <2>1 DEF IsLatest
<1>14. ~r.blocked => Turn(t, i)
  <2>1. ~(i < i)
    BY ConstantFacts DEF Ids
  <2>. QED BY <1>6, <1>7, <1>8, <2>1 DEF Turn, Pending, Blocking
<1>15. InTurn(t, u, i)
  <2>1. t.rx[i] = r
    BY <1>7
  <2>. QED BY <1>12, <1>13, <1>14 DEF InTurn
<1>16. HandlerInv(u, R, i)
  <2>1. i \in Nat
    BY ConstantFacts DEF Ids
  <2>2. Result(t, u, i, R)
    BY <1>12
  <2>. QED BY ONLY <1>3, <1>9, <1>15, <2>1, <2>2, ResultKeeps
<1>17. /\ Listed(u) = Listed(t) /\ u.list = t.list
       /\ \A k \in Listed(t) : k # i => Same(u.rx[k], t.rx[k])
  <2>1. Result(t, u, i, R) /\ t \in HandlerState /\ i \in Listed(t) /\ t.rx[i].state # "DONE"
    BY <1>7, <1>9, <1>12
  <2>. QED BY ONLY <2>1, ResultPending
<1>18. u.rx[i].state # "ALLOCATE"
  BY <1>12 DEF Result, Goes, Ends
<1>19. \A k \in Listed(u) : u.rx[k].state # "ALLOCATE"
  <2>1. \A k \in Listed(s) : s.rx[k].state # "ALLOCATE"
    BY <1>1 DEF Cleared
  <2>2. ASSUME NEW k \in Listed(s) PROVE u.rx[k].state # "ALLOCATE"
    <3>1. k # i /\ t.rx[k] = s.rx[k] /\ k \in Listed(t)
      BY <1>6
    <3>2. Same(u.rx[k], t.rx[k])
      BY <1>17, <3>1
    <3>. QED BY <2>1, <3>1, <3>2 DEF Same
  <2>. QED BY <1>6, <1>17, <1>18, <2>2
<1>. QED BY <1>16, <1>17, <1>19 DEF ServedAll

\* Another message may be sent.
LEMMA NextNumber ==
  ASSUME NEW N \in Nat, NEW M \in Nat, N < M
  PROVE  N + 1 \in 1 .. M /\ N + 1 \in 0 .. M
OBVIOUS

\* A single frame or a first frame arrives.
LEMMA FirstDataFrameKeeps ==
  ASSUME ReceiverInv, NEW a \in Addresses, NEW n \in FrameCounts, FirstDataFrame(a, n)
  PROVE  ReceiverInv'
<1>. DEFINE i == count + 1
            s0 == [Found EXCEPT !.sender[a] = [id |-> i, frames |-> n, next |-> 1, credit |-> 0]]
            s1 == HandlePending(s0, a)
            b == \E k \in Live : rx[k].address = a /\ ~Segmented(rx[k])
            s2 == [s1 EXCEPT !.list = Append(@, i), !.rx[i] = NewReceiver(a, n, b)]
            functional == n > 1 /\ a \in Functional
            full == ~functional /\ Len(list) = PoolSize
<1>1. FoundState /\ TypeOK /\ ~overrun
  BY FoundFacts DEF ReceiverInv
<1>2. /\ count < MaxMessages /\ count' = count + 1 /\ queued' = queued /\ open' = open
      /\ sinceCyclic' = sinceCyclic /\ refused' = IF full THEN refused \cup {a} ELSE refused
  BY DEF FirstDataFrame
<1>3. PICK s \in IF functional \/ full THEN {s0}
                 ELSE {Allocate(s2, i, FALSE, e) : e \in Answers({i})} : Become(s)
  BY DEF FirstDataFrame
<1>4. count \in Nat /\ i \in Ids /\ count' \in 0 .. MaxMessages /\ count' = i
  <2>1. count \in Nat
    BY <1>1 DEF FoundState
  <2>2. MaxMessages \in Nat /\ count < MaxMessages
    BY <1>2, ConstantFacts
  <2>3. count + 1 \in 1 .. MaxMessages /\ count + 1 \in 0 .. MaxMessages
    BY <2>1, <2>2, NextNumber
  <2>4. i = count + 1 /\ count' = count + 1
    BY <1>2
  <2>. QED BY ONLY <2>1, <2>3, <2>4 DEF Ids
<1>5. /\ queued' \in BOOLEAN /\ refused' \subseteq Addresses
      /\ sinceCyclic' \in 0 .. MaxLate /\ open' \in BOOLEAN
  BY <1>1, <1>2 DEF TypeOK
<1>6. /\ HandlerInv(Found, refused, count) /\ Settled(Found) /\ Found \in HandlerState
      /\ Found.list = list /\ Found.rx = rx /\ Listed(Found) = Live /\ Len(list) <= PoolSize
      /\ DeliveredInv(Found, refused) /\ ContentInv(Found, refused)
  BY <1>1 DEF FoundState, HandlerInv
<1>7. Begins(Found, s0, a, i, n)
  BY <1>4, <1>6, FoundBegins
<1>8. s1 = HandlePending(s0, a) /\ s2 = [s1 EXCEPT !.list = Append(@, i), !.rx[i] = NewReceiver(a, n, b)]
      /\ b \in BOOLEAN /\ i = count + 1
  OBVIOUS
<1>9. b <=> \E k \in Live : rx[k].address = a /\ ~Segmented(rx[k])
  OBVIOUS
<1>. HIDE DEF s0, s1, s2, b, i
<1>10. /\ s0 \in HandlerState /\ s0.list = list /\ s0.rx = rx /\ s0.delivered = Found.delivered
       /\ s0.sender[a].id = i /\ s0.sender[a].frames = n /\ s0.sender[a].next = 1
  BY <1>6, <1>7 DEF Begins
<1>11. HandlerInv(s0, refused \cup {a}, count) /\ Settled(s0)
  BY <1>4, <1>6, <1>7, BeginsKeeps
<1>12. CASE functional \/ full
  <2>1. s = s0
    BY <1>3, <1>12
  <2>2. HandlerInv(s0, refused', count)
    <3>1. CASE full
      BY <1>2, <1>11, <3>1
    <3>2. CASE ~full
      <4>1. functional /\ refused' = refused
        BY <1>2, <1>12, <3>2
      <4>2. \A k \in Listed(Found) : Segmented(Found.rx[k]) => Found.rx[k].address # a
        BY <1>6, <4>1 DEF ContentInv, Settled, Pending
      <4>3. HandlerInv(s0, refused, count)
        BY <1>4, <1>6, <1>7, <4>2, BeginsKeeps
      <4>. QED BY <4>1, <4>3
    <3>. QED BY <3>1, <3>2
  <2>3. HandlerInv(s0, refused', count')
    BY <1>2, <1>4, <2>2, OneMore
  <2>4. \A k \in Listed(s0) : s0.rx[k].state # "ALLOCATE"
    BY <1>11 DEF Settled
  <2>5. Len(s0.list) <= PoolSize
    BY <1>6, <1>10
  <2>. QED BY <1>1, <1>3, <1>4, <1>5, <2>1, <2>3, <2>4, <2>5, HandlerEnds
<1>13. CASE ~(functional \/ full)
  <2>1. Asked(s2, s, i)
    BY <1>3, <1>13 DEF Asked
  <2>2. refused' = refused /\ ~(n > 1 /\ a \in Functional) /\ Len(list) # PoolSize
    BY <1>2, <1>13
  <2>3. DeliveredInv(s0, refused)
    BY <1>6, <1>10 DEF DeliveredInv
  <2>4. /\ HandlerInv(s1, refused, count) /\ Cleared(s1, a) /\ s1.list = s0.list /\ s1.sender = s0.sender
        /\ \A k \in Listed(s0) : Pending(s1, k) => Same(s1.rx[k], s0.rx[k])
    BY <1>4, <1>8, <1>11, <2>3, HandlePendingKeeps
  <2>5. Listed(s1) = Live /\ Listed(s0) = Live
    BY <1>10, <2>4 DEF Listed, Live
  <2>6. s1 \in HandlerState
    BY <2>4 DEF HandlerInv
  <2>. DEFINE r == NewReceiver(a, n, b)
  <2>7. r \in Receiver /\ Joining(r, a, n) /\ r.blocked = b
    BY <1>8, NewReceiverFacts
  <2>8. Joins(s1, s2, i, r)
    BY <1>4, <1>8, <2>6, <2>7, FoundJoins
  <2>. HIDE DEF r
  <2>9. Blocking(s1, a, r)
    BY <1>9, <1>10, <2>4, <2>5, <2>7 DEF Cleared, Same, Segmented, Blocking
  <2>10. s1.sender[a].id = i /\ s1.sender[a].frames = n /\ s1.sender[a].next = 1
    BY <1>10, <2>4
  <2>11. HandlerInv(s, refused, i) /\ s.list = s2.list /\ ServedAll(s)
    <3>1. count \in Nat /\ i \in Ids /\ a \in Addresses /\ n \in FrameCounts
      BY <1>4
    <3>2. MayJoin(s1, refused, count, a, i, n)
      BY <1>8, <2>2, <2>4, <2>10 DEF MayJoin
    <3>. QED BY ONLY <2>1, <2>7, <2>8, <2>9, <3>1, <3>2, JoinedAllocates
  <2>12. HandlerInv(s, refused', count')
    BY <1>4, <2>2, <2>11
  <2>13. Len(s.list) <= PoolSize
    <3>1. s.list = Append(list, i) /\ list \in Seq(Ids)
      BY <1>1, <1>10, <2>4, <2>8, <2>11 DEF Joins, TypeOK
    <3>2. Len(s.list) = Len(list) + 1 /\ Len(list) \in Nat
      BY <3>1
    <3>. QED BY <1>6, <2>2, <3>2, ConstantFacts
  <2>. QED BY <1>1, <1>3, <1>4, <1>5, <2>11, <2>12, <2>13, HandlerEnds DEF ServedAll
<1>. QED BY <1>12, <1>13

-------------------------------------------------------------------------------
\* The theorems.

\* Every step keeps the invariant.
LEMMA NextKeeps ==
  ASSUME ReceiverInv, [Next]_vars
  PROVE  ReceiverInv'
<1>1. CASE UNCHANGED vars
  BY <1>1, StutterKeeps
<1>2. ASSUME NEW a \in Addresses, NEW n \in FrameCounts, FirstDataFrame(a, n) PROVE ReceiverInv'
  BY <1>2, FirstDataFrameKeeps
<1>3. ASSUME NEW a \in Addresses, SendConsecutive(a) PROVE ReceiverInv'
  BY <1>3, SendConsecutiveKeeps
<1>4. ASSUME NEW a \in Addresses, DuplicateConsecutive(a) PROVE ReceiverInv'
  BY <1>4, DuplicateConsecutiveKeeps
<1>5. ASSUME NEW i \in Ids, TransportMessageProcessed(i) PROVE ReceiverInv'
  BY <1>5, TransportMessageProcessedKeeps
<1>6. CASE ProcessMessageReceivers
  BY <1>6, ProcessMessageReceiversKeeps
<1>7. CASE CyclicTask
  BY <1>7, CyclicTaskKeeps
<1>8. CASE Shutdown
  BY <1>8, ShutdownKeeps
<1>9. CASE Tick
  BY <1>9, TickKeeps
<1>. QED BY <1>1, <1>2, <1>3, <1>4, <1>5, <1>6, <1>7, <1>8, <1>9 DEF Next

\* ReceiverInv is an invariant of the receiver, and with it the types of its variables
\* (DoCanReceiver.h, DoCanMessageReceiver.h).
THEOREM ReceiverInvariant == Spec => []ReceiverInv
<1>1. Init => ReceiverInv
  BY InitHolds
<1>2. ReceiverInv /\ [Next]_vars => ReceiverInv'
  BY NextKeeps
<1>. QED BY <1>1, <1>2, PTL DEF Spec

\* The types of the variables (DoCanReceiver.h, DoCanMessageReceiver.h).
THEOREM ReceiverTypes == Spec => []TypeOK
<1>1. ReceiverInv => TypeOK
  BY DEF ReceiverInv
<1>. QED BY <1>1, ReceiverInvariant, PTL

\* Every transport message is with the provider, attached to one receiver or with the upper layer:
\* release() of every reception gives it back once (DoCanReceiver.h).
THEOREM ReceiverConservesBuffers == Spec => []BuffersConserved
<1>1. ASSUME ReceiverInv PROVE BuffersConserved
  <2>1. FoundState
    BY <1>1, FoundFacts
  <2>2. CountsInv(Found)
    BY <2>1 DEF FoundState, HandlerInv
  <2>3. Holding(Found) = {i \in Live : rx[i].message}
    BY <2>1 DEF FoundState, Holding
  <2>. QED BY <2>1, <2>2, <2>3 DEF FoundState, CountsInv, BuffersConserved
<1>. QED BY <1>1, ReceiverInvariant, PTL

\* releaseRemoveLock() removes each released receiver and never passes the end of the list.
THEOREM ReceiverRemovesFinished == Spec => []FinishedLeave
<1>1. ReceiverInv => FinishedLeave
  BY DEF ReceiverInv, FinishedLeave
<1>. QED BY <1>1, ReceiverInvariant, PTL

\* The loop of cyclicTask() passes over no timer that has run out: the receivers stand in the order
\* of their timers or are sorted next, and each has a timer, unless one is stuck in SEND.
THEOREM ReceiverNoticesTimeouts == Spec => []TimeoutsNoticed
<1>1. ASSUME ReceiverInv PROVE TimeoutsNoticed
  <2>1. FoundState
    BY <1>1, FoundFacts
  <2>2. /\ ReceiversInv(Found) /\ TimersInv(Found) /\ Found \in HandlerState /\ Settled(Found)
        /\ Found.list = list /\ Found.rx = rx /\ Found.updated = timersUpdated /\ Listed(Found) = Live
    BY <2>1 DEF FoundState, HandlerInv
  <2>. SUFFICES ASSUME \A i \in Live : ~Stuck(i)
                PROVE  (timersUpdated \/ InOrderOfTimers) /\ \A i \in Live : rx[i].timerSet
    BY DEF TimeoutsNoticed
  <2>3. ASSUME NEW i \in Live PROVE rx[i].state = "WAIT" /\ rx[i].timerSet /\ rx[i].timer \in Int
    <3>1. Sound(rx[i]) /\ rx[i].state # "ALLOCATE"
      BY <2>2 DEF ReceiversInv, Settled
    <3>2. rx[i].state = "WAIT"
      BY <3>1 DEF Sound, Stuck
    <3>3. i \in Ids /\ rx \in [Ids -> Receiver]
      BY <2>2, ListedFacts DEF HandlerState
    <3>4. rx[i] \in Receiver
      BY <3>3
    <3>. QED BY <3>1, <3>2, <3>4 DEF Sound, Receiver
  <2>4. \A m \in DOMAIN list : list[m] \in Live
    BY <2>2, ListedFacts
  <2>5. ASSUME ~timersUpdated PROVE InOrderOfTimers
    <3>. SUFFICES ASSUME NEW m \in DOMAIN list, NEW n \in DOMAIN list, m < n
                  PROVE  ~Less(rx[list[n]], rx[list[m]])
      BY DEF InOrderOfTimers
    <3>. DEFINE r == rx[list[n]]
                q == rx[list[m]]
    <3>1. /\ r.state = "WAIT" /\ r.timerSet /\ r.timer \in Int
          /\ q.state = "WAIT" /\ q.timerSet /\ q.timer \in Int
      BY <2>3, <2>4
    <3>2. q.timer <= r.timer
      BY <2>2, <2>5, <3>1 DEF TimersInv
    <3>. HIDE DEF q, r
    <3>3. ~Less(r, q)
      BY <3>1, <3>2 DEF Less
    <3>. QED BY <3>3 DEF q, r
  <2>. QED BY <2>3, <2>5
<1>. QED BY <1>1, ReceiverInvariant, PTL

\* A message is handed over once, in the order of the first frames of its address, and with the data
\* of its own frames (consecutiveFrameReceived(), startProcessingTransportMessage()).
THEOREM ReceiverDeliversAsSent == Spec => []DeliveredAsSent
<1>1. ASSUME ReceiverInv PROVE DeliveredAsSent
  <2>1. FoundState
    BY <1>1, FoundFacts
  <2>2. /\ DeliveredInv(Found, refused) /\ OrderInv(Found) /\ Found \in HandlerState
        /\ Found.delivered = delivered /\ Found.untold = untold
    BY <2>1 DEF FoundState, HandlerInv
  <2>3. delivered \in Seq(Message)
    BY <2>2 DEF HandlerState
  <2>4. DOMAIN delivered = 1 .. Len(delivered) /\ Len(delivered) \in Nat
    BY <2>3
  <2>5. ASSUME NEW k \in DOMAIN delivered, NEW l \in 1 .. k - 1
        PROVE  l \in DOMAIN delivered /\ l < k
    BY <2>4
  <2>6. ASSUME NEW k \in DOMAIN delivered
        PROVE  \/ delivered[k].address \in refused
               \/ \A n \in DOMAIN delivered[k].content :
                    delivered[k].content[n] = [of |-> delivered[k].id, index |-> n - 1]
    BY <2>2 DEF DeliveredInv, Exact
  <2>7. ASSUME NEW k \in DOMAIN delivered, NEW l \in 1 .. k - 1,
               delivered[l].address = delivered[k].address
        PROVE  IF delivered[k].address \in untold THEN delivered[l].id # delivered[k].id
               ELSE delivered[l].id < delivered[k].id
    BY <2>2, <2>5, <2>7 DEF OrderInv
  <2>. QED BY <2>6, <2>7 DEF DeliveredAsSent
<1>. QED BY <1>1, ReceiverInvariant, PTL
===============================================================================
