-------------------------- MODULE MCDoCanTransmitter --------------------------
(* Messages for TLC: long ones are segmented, the short one is a single frame. *)
EXTENDS DoCanTransmitter, TLC

CONSTANTS long1, long2, short, a, b

Frames == [m \in Messages |-> CASE m = long1 -> 3 [] m = long2 -> 2 [] m = short -> 1]

\* All messages of a node have addresses of their own.
OwnAddresses == long1 :> a @@ long2 :> b @@ short :> short
===============================================================================
