--------------------------- MODULE MCDoCanReceiver ----------------------------
(* Addresses for TLC: a is a tester, b the functional address. *)
EXTENDS DoCanReceiver

CONSTANTS a, b

\* The provider has no message for two frames.
TwoFrames == {<<a, 2>>, <<b, 2>>}
===============================================================================
