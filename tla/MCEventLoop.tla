---------------------------- MODULE MCEventLoop ----------------------------
(* Every run of a program that makes up to MaxCalls calls.  Ids and op ids *)
(* suffice for all of them.                                                *)
EXTENDS EventLoop

MCDelays == {1}
=============================================================================
