---------------------------- MODULE MCTaskContext ----------------------------
(* One context for TLC: two timeouts with their callers.                     *)
EXTENDS TaskContext

CONSTANTS t1, t2

\* t1 belongs to a task of lower priority, t2 to the context itself.
LowAndOwn == t1 :> "low" @@ t2 :> "own"

\* All belong to a task of higher priority.
AllHigh == [t \in Timeouts |-> "high"]
==============================================================================
