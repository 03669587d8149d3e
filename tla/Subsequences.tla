----------------------------- MODULE Subsequences -----------------------------
(***************************************************************************)
(* Parts of a sequence, chosen by a set: what SelectSeq and SelectInSeq do *)
(* for a test, in a form that proofs can reason about (SequenceFacts).     *)
(***************************************************************************)
EXTENDS Naturals, Sequences

\* The elements of s that are in S, in their order.
Chosen(s, S) ==
  LET chosen[i \in 0 .. Len(s)] == IF i = 0 THEN <<>>
                                   ELSE IF s[i] \in S THEN Append(chosen[i - 1], s[i])
                                   ELSE chosen[i - 1]
  IN chosen[Len(s)]

\* The first element of s that is in S, if there is one.
First(s, S) ==
  {s[i] : i \in {k \in DOMAIN s : s[k] \in S /\ \A h \in 1 .. k - 1 : s[h] \notin S}}
===============================================================================
