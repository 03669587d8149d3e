--------------------------------- MODULE Fifo ---------------------------------
(***************************************************************************)
(* What libs/bsw/io promises of a queue between one writer and one reader: *)
(* messages come out whole and in the order they went in.  How many fit is *)
(* left open.                                                              *)
(***************************************************************************)
EXTENDS Sequences

CONSTANT Messages

VARIABLE queue  \* the committed messages the reader has not released

Init == queue = <<>>

\* commit() of an allocation.
Commit == \E m \in Messages : queue' = Append(queue, m)

\* release() of the first message.
Release == queue # <<>> /\ queue' = Tail(queue)

Next == Commit \/ Release

Spec == Init /\ [][Next]_queue
===============================================================================
