----------------------------- MODULE NodeTimers -----------------------------
(***************************************************************************)
(* What the timers of one isolate promise JavaScript and the event loop,   *)
(* with no queues, ids, lazy cancels, purges or counters: a set of timers  *)
(* of which one that is cleared is gone at once, pending callbacks, and    *)
(* whether they keep the process alive.  TimerQueue implements it, and so  *)
(* does the whole loop (EventLoop).                                        *)
(*                                                                         *)
(* A pending callback that an immediate queued promises little: the code   *)
(* does not keep what its documentation says of it (TimerQueue's           *)
(* PendingBeforeNextCheckPhase).                                           *)
(***************************************************************************)
EXTENDS Integers, Sequences

CONSTANT Ms      \* clock units in a millisecond

VARIABLES
    clock,       \* the time
    now,         \* the time at the start of the loop's turn
    seq,         \* how often a timer was set or rearmed
    timers,      \* the timers and immediates there are
    pending,     \* pending callbacks, first in first out
    running,     \* the kind of callback that runs
    alive        \* the loop has a reason to go on

vars == <<clock, now, seq, timers, pending, running, alive>>

NoInterval == -1
Kind == {"timer", "immediate"}

Before(t, u) == t.at < u.at \/ (t.at = u.at /\ t.seq < u.seq)
First(t, S) == \A u \in S : u = t \/ Before(t, u)
OfKind(k) == {t \in timers : t.kind = k}

KeepsAlive == (\E t \in timers : t.is_ref) \/ pending # << >>

Init ==
    /\ clock = 0 /\ now = 0 /\ seq = 0
    /\ timers = {} /\ pending = << >>
    /\ running = "none"
    /\ alive = FALSE

-----------------------------------------------------------------------------
(* The clock, which the loop reads when a turn starts.                     *)
Tick == clock' > clock /\ UNCHANGED <<now, seq, timers, pending, running>>
StartTurn ==
    /\ running = "none"
    /\ now' = clock
    /\ UNCHANGED <<clock, seq, timers, pending, running>>

(* JavaScript's calls.  A delay is a millisecond or more.                  *)
New(t) ==
    /\ t \notin timers /\ timers' = timers \cup {t}
    /\ seq' = seq + 1 /\ t.seq = seq + 1
    /\ t.is_ref
    /\ UNCHANGED <<clock, now, pending, running>>

SetTimeout(t) ==
    /\ t.kind = "timer" /\ New(t)
    /\ t.at >= clock + Ms
    /\ t.interval # NoInterval => t.at = clock + t.interval
SetImmediate(t) ==
    /\ t.kind = "immediate" /\ New(t)
    /\ t.at = clock /\ t.interval = NoInterval

Clear(t) == timers' = timers \ {t} /\ UNCHANGED <<clock, now, seq, pending, running>>

SetRef(t, value) ==
    /\ timers' = (timers \ {t}) \cup {[t EXCEPT !.is_ref = value]}
    /\ UNCHANGED <<clock, now, seq, pending, running>>

(* A callback that a timer queues waits for the timers due with it.        *)
PhaseOf(kind) == CASE kind = "none"      -> "open"
                   [] kind = "timer"     -> "timers"
                   [] kind = "immediate" -> "immediates"

QueuePending(p) ==
    /\ pending' = Append(pending, p)
    /\ p.born = seq /\ p.from = PhaseOf(running)
    /\ p.from = "timers" => p.until >= now
    /\ UNCHANGED <<clock, now, seq, timers, running>>

-----------------------------------------------------------------------------
(* The loop takes one callback.                                            *)

(* What a pending callback lets run before it: one the main script or I/O  *)
(* queued, nothing; one a timer queued, timers that were set before it.    *)
Passes(p, t) ==
    CASE p.from = "open"       -> FALSE
      [] p.from = "timers"     -> t.kind = "timer" /\ t.seq <= p.born
      [] p.from = "immediates" -> TRUE

(* It is due, the first of its kind, and with nothing pending of all.      *)
Turn(t) ==
    /\ running = "none" /\ running' = t.kind
    /\ t.at <= now
    /\ First(t, OfKind(t.kind))
    /\ IF pending = << >> THEN First(t, timers) ELSE Passes(Head(pending), t)
    /\ UNCHANGED <<clock, now, pending>>

RunOnce(t) ==
    /\ Turn(t)
    /\ t.kind = "timer" => t.interval = NoInterval
    /\ timers' = timers \ {t}
    /\ UNCHANGED seq
RunInterval(t) ==
    /\ Turn(t)
    /\ t.interval # NoInterval
    /\ timers' = (timers \ {t}) \cup {[t EXCEPT !.at = now + t.interval, !.seq = seq + 1]}
    /\ seq' = seq + 1

RunPending ==
    /\ running = "none" /\ pending # << >>
    /\ Head(pending).from = "timers" =>
          ~ \E t \in OfKind("timer") : t.at <= now /\ t.at <= Head(pending).until
    /\ pending' = Tail(pending)
    /\ UNCHANGED <<clock, now, seq, timers, running>>

CallbackDone ==
    /\ running # "none" /\ running' = "none"
    /\ UNCHANGED <<clock, now, seq, timers, pending>>

-----------------------------------------------------------------------------
Step ==
    \/ Tick \/ StartTurn
    \/ \E t \in timers' : SetTimeout(t) \/ SetImmediate(t)
    \/ \E t \in timers : \/ Clear(t) \/ RunOnce(t) \/ RunInterval(t)
                         \/ \E value \in BOOLEAN : SetRef(t, value)
    \/ \E k \in DOMAIN pending' : QueuePending(pending'[k])
    \/ RunPending \/ CallbackDone

Next == Step /\ alive' = KeepsAlive'

Spec == Init /\ [][Next]_vars
=============================================================================
