-------------------------------- MODULE Timer --------------------------------
(***************************************************************************)
(* libs/bsw/timer: the list of timeouts of one context, sorted by the time *)
(* left.  Times are 32-bit microsecond counters that wrap around; Modulus  *)
(* stands for 2^32.  The absolute due times in `due' exist only in the     *)
(* model: the properties compare what the code does with wrapped counters  *)
(* to what it should do.                                                   *)
(***************************************************************************)
EXTENDS Integers, Sequences, SequencesExt

CONSTANTS Timeouts,   \* the Timeout objects of the context
          Modulus,    \* 2^32: the values of a timestamp
          MaxDelay,   \* the longest delay or period anybody asks for
          MaxLate,    \* how long the context may leave a due timeout waiting
          MaxClock    \* bound: the run ends at this time

Half == Modulus \div 2

\* A timeout further than half the range away compares as if it had expired: the
\* callers keep below that (35 minutes).
ASSUME TimerAssumption == /\ Modulus \in Nat /\ Half * 2 = Modulus
                          /\ MaxDelay \in 1 .. Half - 1
                          /\ MaxLate \in 0 .. Half
                          /\ MaxClock \in Nat

VARIABLES timeoutList,  \* _timeoutList
          time, cycle,  \* Timeout::_time, Timeout::_cycleTime
          clock,        \* the absolute time
          due           \* the absolute time at which a linked timeout expires

timerVars == <<timeoutList, time, cycle, due>>

Linked(t) == Contains(timeoutList, t)

now == clock % Modulus

\* diff(): static_cast<int32_t>(a - b).
Diff(a, b) == LET d == (a - b) % Modulus
              IN IF d >= Half THEN d - Modulus ELSE d

\* Mutant: the loop compares with the wrong sign.
InsertPositionReversed(list, absolute, ref) ==
  LET later == {i \in DOMAIN list : Diff(time[list[i]], ref) < Diff(absolute, ref)}
  IN IF later = {} THEN Len(list) + 1
     ELSE CHOOSE i \in later : \A j \in later : i <= j

\* The loop in addTimeout(): the place of a timeout is before the first one that
\* has more to go, seen from the time `ref' the caller has read.
InsertPosition(list, absolute, ref) ==
  LET later == {i \in DOMAIN list : Diff(time[list[i]], ref) > Diff(absolute, ref)}
  IN IF later = {} THEN Len(list) + 1
     ELSE CHOOSE i \in later : \A j \in later : i <= j

\* addTimeout() of a timeout that is not linked, with the absolute time it means.
\* The result, "expires before all others", is FrontInserted.
AddTimeout(t, absolute, absoluteDue, cycleTime) ==
  /\ ~Linked(t)
  /\ time' = [time EXCEPT ![t] = absolute]
  /\ cycle' = [cycle EXCEPT ![t] = cycleTime]
  /\ due' = [due EXCEPT ![t] = absoluteDue]
  /\ timeoutList' = InsertAt(timeoutList, InsertPosition(timeoutList, absolute, now), t)

FrontInserted(absolute) == InsertPosition(timeoutList, absolute, now) = 1

\* set() and setCyclic().
Set(t, delay) == AddTimeout(t, (delay + now) % Modulus, clock + delay, 0)
SetCyclic(t, period) == AddTimeout(t, (period + now) % Modulus, clock + period, period)

\* cancel(): nothing happens to a timeout that is not linked.
Cancel(t) == /\ timeoutList' = RemoveFirst(timeoutList, t)
             /\ UNCHANGED <<time, cycle, due>>

\* The locked part of processNextTimeout(): is the first timeout due?
FrontDue == timeoutList # <<>> /\ Diff(time[Head(timeoutList)], now) <= 0

\* Mutant: the next period is counted from the time of the processing.
RescheduledFromNow(t) == (cycle[t] + now) % Modulus

\* rescheduleCyclicTimeout(): the next expiry is one period after the last one,
\* however late that was processed.
Rescheduled(t) == (cycle[t] + time[t]) % Modulus

\* Mutant: getNextDelta() without the test for a timeout in the past.
NextDeltaUnchecked == (time[Head(timeoutList)] - now) % Modulus

\* getNextDelta(): the time to wait for the first timeout.
NextDelta == IF Diff(time[Head(timeoutList)], now) < 0 THEN 0
             ELSE (time[Head(timeoutList)] - now) % Modulus
TimerTypeOK == /\ timeoutList \in Seq(Timeouts) /\ IsInjective(timeoutList)
               /\ time \in [Timeouts -> 0 .. Modulus - 1]
               /\ cycle \in [Timeouts -> 0 .. MaxDelay]
               /\ clock \in 0 .. MaxClock
               /\ due \in [Timeouts -> Nat]

TimerInit == /\ timeoutList = <<>>
             /\ time = [t \in Timeouts |-> 0] /\ cycle = [t \in Timeouts |-> 0]
             /\ due = [t \in Timeouts |-> 0]
             /\ clock = 0

\* Time goes on, but no timeout is left waiting for more than MaxLate.
TickAllowed == clock < MaxClock /\ \A t \in Timeouts : Linked(t) => clock < due[t] + MaxLate
Tick == TickAllowed /\ clock' = clock + 1 /\ UNCHANGED timerVars
------------------------------------------------------------------------------
\* The part that uses a timer from one context only: processNextTimeout() is not
\* interrupted.  TaskContext interleaves it with other contexts.

\* processNextTimeout(): the first timeout, if due, leaves the list; a cyclic one
\* is linked again.
ProcessNextTimeout ==
  /\ FrontDue
  /\ LET t    == Head(timeoutList)
         rest == Tail(timeoutList)
         at   == InsertPosition(rest, Rescheduled(t), now)
     IN IF cycle[t] > 0
        THEN /\ timeoutList' = InsertAt(rest, at, t)
             /\ time' = [time EXCEPT ![t] = Rescheduled(t)]
             /\ due' = [due EXCEPT ![t] = @ + cycle[t]]
             /\ UNCHANGED cycle
        ELSE timeoutList' = rest /\ UNCHANGED <<time, cycle, due>>
  /\ UNCHANGED clock

TimerNext ==
  \/ Tick
  \/ ProcessNextTimeout
  \/ \E t \in Timeouts : /\ \/ \E d \in 0 .. MaxDelay : Set(t, d)
                            \/ \E d \in 1 .. MaxDelay : SetCyclic(t, d)
                            \/ Linked(t) /\ Cancel(t)
                         /\ UNCHANGED clock

TimerSpec == TimerInit /\ [][TimerNext]_<<timerVars, clock>>

\* The wrapped timestamps of the linked timeouts stand for the true time left, over
\* every wrap of the counter: nothing expires early and nothing late is forgotten.
TimeLeftIsExact ==
  \A t \in Timeouts : Linked(t) => Diff(time[t], now) = due[t] - clock

\* getNextDelta() is no longer than the true time until something has to be done, and zero
\* when a timeout is overdue.
NextDeltaIsExact ==
  timeoutList # <<>> =>
    \A t \in Timeouts : Linked(t) => NextDelta <= (IF due[t] > clock THEN due[t] - clock ELSE 0)

\* Both: what the list stores and what the task is told to wait.
TimesAreExact == TimeLeftIsExact /\ NextDeltaIsExact

\* The list is in the order of the true due times, although every insertion compares
\* times relative to its own `now'.
SortedByDue ==
  \A i, j \in DOMAIN timeoutList : i < j => due[timeoutList[i]] <= due[timeoutList[j]]
==============================================================================
