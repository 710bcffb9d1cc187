---------------------------- MODULE MCTimerQueue ---------------------------
(* Ids suffice, so that none is reused.                                    *)
EXTENDS TimerQueue

MCDelays == {0}
=============================================================================
