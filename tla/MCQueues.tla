------------------------------ MODULE MCQueues ------------------------------
(***************************************************************************)
(* The two queues the loop serves, side by side: they share no state, part *)
(* says which one moves, and the other stays where it starts.              *)
(*                                                                         *)
(* Timers: two ids, so that the third scheduling reuses one; a clock with  *)
(* two units to the millisecond, so that deadlines fall inside the         *)
(* millisecond a pending callback waits out; time for an interval to fire  *)
(* twice.  Ops: two handles and four op ids, for an unref'd handle and a   *)
(* referenced one at once, two ops under one key, a handle closed and      *)
(* opened again with an op of its first life still out.                    *)
(***************************************************************************)
EXTENDS TimerQueue, OpRuntime, TLC

CONSTANTS k1, k2

VARIABLE part   \* the queue that moves

MCDelays == {0}
MCHandleKey == {k1, k2}
HandleSymmetry == Permutations(MCHandleKey)

QueuesInit == part \in {"timers", "ops"} /\ Init /\ OpsInit

QueuesNext ==
    \/ part = "timers" /\ Next /\ UNCHANGED <<part, opVars>>
    \/ part = "ops" /\ OpsNext /\ UNCHANGED <<part, vars>>

QueuesSpec == QueuesInit /\ [][QueuesNext]_<<part, vars, opVars>>
=============================================================================
