----------------------------- MODULE TimerQueue ----------------------------
(***************************************************************************)
(* The timers of one isolate: TimerQueue in                                *)
(* crates/oam_engine/src/timers.rs.  setTimeout, setInterval, setImmediate *)
(* and timerPending (libuv's pending phase) share one queue; the event     *)
(* loop pops one callback a turn, runs it, and calls callback_done.        *)
(*                                                                         *)
(* JavaScript may call any of the queue's operations at any time: from the *)
(* main script or an I/O callback (running = Idle) or from the timer or    *)
(* immediate that is running.  The clock never goes back and may stand     *)
(* still between two reads of it, all that std::time::Instant promises.    *)
(*                                                                         *)
(* Both queues are sets of entries here.  heap is a min-heap on            *)
(* (deadline, seq); immediates is a FIFO whose entries carry increasing    *)
(* times and seqs, so its front is its (queued, seq) minimum too.  Entries *)
(* of cancelled timers stay until something looks at the front (Skim).     *)
(***************************************************************************)
EXTENDS Integers, Sequences, FiniteSets, PartialMaps

CONSTANTS
    IdMax,       \* u32::MAX: timer ids run 1 .. IdMax and wrap
    Ms,          \* clock units in a millisecond; 10^6 in the code
    PurgeAt,     \* cancel looks for dead entries above this; 64 in the code
    Delays,      \* the delays, in ms, that JS asks for
    MaxClock,    \* bound on the clock
    MaxSeq,      \* bound on seq beyond which nothing is scheduled
    MaxPending   \* bound on the callbacks in pending

ASSUME TimerAssumption ==
    /\ IdMax \in Nat /\ IdMax > 0
    /\ Ms \in Nat /\ Ms > 0
    /\ PurgeAt \in Nat
    /\ Delays \subseteq Nat
    /\ MaxPending \in Nat

Ids == 1 .. IdMax

VARIABLES
    clock,       \* Instant::now()
    now,         \* the time the loop read at the start of its turn
    next_id,     \* the id to try next
    seq,         \* schedulings and rearmings so far
    heap,        \* setTimeout and setInterval entries
    immediates,  \* setImmediate entries
    active,      \* id -> its timer, a partial map
    ref_count,   \* ref'd timers in active
    pending,     \* timerPending callbacks, first in first out
    running,     \* the timer or immediate whose callback runs
    check        \* history: when the last check phase began

vars == <<clock, now, next_id, seq, heap, immediates, active, ref_count,
          pending, running, check>>

-----------------------------------------------------------------------------
(* An entry of either queue: due at `at`, or queued then.                  *)
Entry == [at : Nat, seq : Nat, id : Ids]

(* seq, kept for the properties alone, names the entry that is this        *)
(* timer's own.                                                            *)
NoInterval == -1
Timer == [interval : Nat \cup {NoInterval}, is_ref : BOOLEAN, seq : Nat]

(* What a pending callback still waits for, with the instant up to which   *)
(* it waits.  from, phase and born are kept for the properties alone: what *)
(* queued it, when the check phase had begun and how many timers and       *)
(* immediates there had been.                                              *)
Gate == {"open", "timers", "immediates"}
Pending == [gate : Gate, until : Int, born : Nat, from : Gate, phase : Int]

(* The callback that runs, with its turn's time and a timer's deadline.    *)
Idle == [kind |-> "none", now |-> 0, deadline |-> 0]
Running == [kind : {"none", "timer", "immediate"}, now : Nat, deadline : Nat]

Least(a, b) == IF a < b THEN a ELSE b
Greatest(a, b) == IF a > b THEN a ELSE b

Before(e, f) == e.at < f.at \/ (e.at = f.at /\ e.seq < f.seq)

LiveIn(queue) == {e \in queue : e.id \in DOMAIN active}

\* front_timer, front_immediate: the first live entry ...
IsFront(queue, e) ==
    e \in LiveIn(queue) /\ \A f \in LiveIn(queue) : f = e \/ Before(e, f)
\* ... found by discarding the dead ones before it.
Skim(queue) == {e \in queue : \E f \in LiveIn(queue) : f = e \/ Before(f, e)}

DueBy(queue, t) == \E e \in LiveIn(queue) : e.at <= t

refs(act) == {i \in DOMAIN act : act[i].is_ref}
has_ref_timers == ref_count > 0 \/ pending # << >>

-----------------------------------------------------------------------------
Init ==
    /\ clock = 0
    /\ now = 0
    /\ next_id = 1
    /\ seq = 0
    /\ heap = {}
    /\ immediates = {}
    /\ active = [i \in {} |-> i]
    /\ ref_count = 0
    /\ pending = << >>
    /\ running = Idle
    /\ check = -1

Tick ==
    /\ clock < MaxClock
    /\ clock' = clock + 1
    /\ UNCHANGED <<now, next_id, seq, heap, immediates, active, ref_count,
                   pending, running, check>>

(* The loop starts a turn and reads the clock.                             *)
StartTurn ==
    /\ running = Idle
    /\ now # clock
    /\ now' = clock
    /\ UNCHANGED <<clock, next_id, seq, heap, immediates, active, ref_count,
                   pending, running, check>>

\* A bug: the id wraps to zero.
NextIdZero(id) == IF id = IdMax THEN 0 ELSE id + 1

(* id.wrapping_add(1).max(1)                                               *)
NextId(id) == IF id = IdMax THEN 1 ELSE id + 1

(* How far id is from next_id, in the order insert tries ids.              *)
Tries(id) == IF id >= next_id THEN id - next_id ELSE id - next_id + IdMax

\* A bug: the lowest free id is handed out, so that a cancelled timer's id is
\* reused while its entry is still queued.
TakesLowestId(id) ==
    /\ id \notin DOMAIN active
    /\ \A j \in Ids \ DOMAIN active : id <= j

TakesFreeId(id) ==
    /\ id \notin DOMAIN active
    /\ \A j \in Ids \ DOMAIN active : Tries(id) <= Tries(j)

Insert(id, interval) ==
    /\ seq < MaxSeq
    /\ TakesFreeId(id)
    /\ next_id' = NextId(id)
    /\ seq' = seq + 1
    /\ ref_count' = ref_count + 1
    /\ active' = Put(active, id,
                     [interval |-> interval, is_ref |-> TRUE, seq |-> seq + 1])

\* schedule_from_args: delays below a millisecond are a millisecond.
Clamped(ms) == (IF ms > 1 THEN ms ELSE 1) * Ms

(* setTimeout, setInterval.                                                *)
Schedule(ms, repeating, id) ==
    /\ Insert(id, IF repeating THEN Clamped(ms) ELSE NoInterval)
    /\ heap' = heap \cup {[at |-> clock + Clamped(ms), seq |-> seq + 1, id |-> id]}
    /\ UNCHANGED <<clock, now, immediates, pending, running, check>>

(* setImmediate.                                                           *)
ScheduleImmediate(id) ==
    /\ Insert(id, NoInterval)
    /\ immediates' = immediates \cup {[at |-> clock, seq |-> seq + 1, id |-> id]}
    /\ UNCHANGED <<clock, now, heap, pending, running, check>>

(* clearTimeout, clearInterval, clearImmediate.  Dead entries are purged   *)
(* when there are many and they outnumber the live.                        *)
Purges(act) ==
    LET entries == Cardinality(heap) + Cardinality(immediates)
    IN  entries > PurgeAt /\ entries > Cardinality(DOMAIN act) * 2

\* A bug: the purge keeps the entries of the cancelled and drops the rest.
PurgedLive(queue, act) ==
    IF Purges(act) THEN {e \in queue : e.id \notin DOMAIN act} ELSE queue

Purged(queue, act) ==
    IF Purges(act) THEN {e \in queue : e.id \in DOMAIN act} ELSE queue

Cancel(id) ==
    /\ id \in DOMAIN active
    /\ active' = Drop(active, {id})
    /\ ref_count' = IF active[id].is_ref THEN ref_count - 1 ELSE ref_count
    /\ heap' = Purged(heap, active')
    /\ immediates' = Purged(immediates, active')
    /\ UNCHANGED <<clock, now, next_id, seq, pending, running, check>>

\* A bug: unref of a timer that is unref'd already counts again.
SetRefAgain(id, value) ==
    /\ id \in DOMAIN active
    /\ active' = [active EXCEPT ![id].is_ref = value]
    /\ ref_count' = IF value THEN ref_count + 1 ELSE ref_count - 1
    /\ UNCHANGED <<clock, now, next_id, seq, heap, immediates, pending,
                   running, check>>

(* Timeout.ref, Timeout.unref: counted only when the flag changes.         *)
SetRef(id, value) ==
    /\ id \in DOMAIN active
    /\ active[id].is_ref # value
    /\ active' = [active EXCEPT ![id].is_ref = value]
    /\ ref_count' = IF value THEN ref_count + 1 ELSE ref_count - 1
    /\ UNCHANGED <<clock, now, next_id, seq, heap, immediates, pending,
                   running, check>>

\* A bug: a whole millisecond, which a timer set now can fall in.
TimersUntilFull == Greatest(running.now, running.deadline + Ms)

(* timerPending: the gate is what is left of the phase that runs.  The     *)
(* timers within the millisecond of the running one's deadline are due     *)
(* with it.                                                                *)
TimersUntil == Greatest(running.now, running.deadline + Ms - 1)

GateOf == CASE running.kind = "none"      -> "open"
            [] running.kind = "timer"     -> "timers"
            [] running.kind = "immediate" -> "immediates"

UntilOf == CASE running.kind = "none"      -> 0
             [] running.kind = "timer"     -> TimersUntil
             [] running.kind = "immediate" -> running.now

TimerPending ==
    /\ Len(pending) < MaxPending
    /\ pending' = Append(pending, [gate |-> GateOf, until |-> UntilOf,
                                   born |-> seq, from |-> GateOf,
                                   phase |-> check])
    /\ UNCHANGED <<clock, now, next_id, seq, heap, immediates, active,
                   ref_count, running, check>>

-----------------------------------------------------------------------------
(* pop_due.                                                                *)

gate == Head(pending).gate
until == Head(pending).until

(* The front pending callback waits for the immediate or the timer that is *)
(* left of its phase.  Its gate moves on from the immediates to the timers *)
(* due by then.                                                            *)
WaitsForImmediate ==
    pending # << >> /\ gate = "immediates" /\ DueBy(immediates, until)

\* A bug: the wait is for what is due at the gate's instant, though the
\* clock has not reached it.
TimersAheadEarly ==
    gate = "timers" /\ DueBy(heap, until)

TimersAhead ==
    \/ gate = "timers" /\ DueBy(heap, Least(until, now))
    \/ gate = "immediates" /\ DueBy(heap, now)

WaitsForTimer == pending # << >> /\ ~WaitsForImmediate /\ TimersAhead

\* With no pending callback, the earlier of the two fronts that is due.
TimerIsDue == pending = << >> /\ DueBy(heap, now)
ImmediateIsDue == pending = << >> /\ DueBy(immediates, now)

PopTimer(e) ==
    /\ heap' = LET rest == Skim(heap) \ {e} IN
               IF active[e.id].interval # NoInterval
               THEN rest \cup {[at |-> now + active[e.id].interval,
                                seq |-> seq + 1, id |-> e.id]}
               ELSE rest
    /\ IF active[e.id].interval # NoInterval
       THEN /\ seq' = seq + 1
            /\ active' = [active EXCEPT ![e.id].seq = seq + 1]
            /\ UNCHANGED ref_count
       ELSE /\ active' = Drop(active, {e.id})
            /\ ref_count' = IF active[e.id].is_ref THEN ref_count - 1
                                                   ELSE ref_count
            /\ UNCHANGED seq
    /\ running' = [kind |-> "timer", now |-> now, deadline |-> e.at]

PopImmediate(e) ==
    /\ immediates' = Skim(immediates) \ {e}
    /\ active' = Drop(active, {e.id})
    /\ ref_count' = IF active[e.id].is_ref THEN ref_count - 1 ELSE ref_count
    /\ running' = [kind |-> "immediate", now |-> now, deadline |-> 0]
    /\ check' = IF e.at <= check THEN check ELSE clock

(* The front pending callback has waited out its phase.                    *)
PopDuePending ==
    /\ running = Idle
    /\ pending # << >>
    /\ ~WaitsForImmediate
    /\ ~TimersAhead
    /\ pending' = Tail(pending)
    /\ heap' = IF gate = "open" THEN heap ELSE Skim(heap)
    /\ immediates' = IF gate = "immediates" THEN Skim(immediates) ELSE immediates
    /\ UNCHANGED <<clock, now, next_id, seq, active, ref_count, running,
                   check>>

PopDueTimer(e) ==
    /\ running = Idle
    /\ IsFront(heap, e)
    /\ \/ WaitsForTimer
       \/ TimerIsDue /\ ~ \E f \in LiveIn(immediates) : f.at <= now /\ Before(f, e)
    /\ PopTimer(e)
    /\ immediates' = IF pending = << >> \/ gate = "immediates"
                     THEN Skim(immediates) ELSE immediates
    /\ pending' = IF pending # << >> /\ gate = "immediates"
                  THEN [pending EXCEPT ![1].gate = "timers", ![1].until = now]
                  ELSE pending
    /\ UNCHANGED <<clock, now, next_id, check>>

PopDueImmediate(e) ==
    /\ running = Idle
    /\ IsFront(immediates, e)
    /\ \/ WaitsForImmediate
       \/ ImmediateIsDue /\ e.at <= now
            /\ ~ \E f \in LiveIn(heap) : f.at <= now /\ Before(f, e)
    /\ PopImmediate(e)
    /\ heap' = IF pending = << >> THEN Skim(heap) ELSE heap
    /\ UNCHANGED <<clock, now, next_id, seq, pending>>

(* pop_due with nothing due, peek_due, next_deadline: they look at both    *)
(* fronts, unless a pending callback waits.                                *)
LookAtFronts ==
    /\ running = Idle
    /\ pending = << >>
    /\ heap' = Skim(heap)
    /\ immediates' = Skim(immediates)
    /\ UNCHANGED <<clock, now, next_id, seq, active, ref_count, pending,
                   running, check>>

(* The callback and the ticks and microtasks after it are over.            *)
CallbackDone ==
    /\ running # Idle
    /\ running' = Idle
    /\ UNCHANGED <<clock, now, next_id, seq, heap, immediates, active,
                   ref_count, pending, check>>

PopDue ==
    \/ PopDuePending
    \/ \E e \in heap : PopDueTimer(e)
    \/ \E e \in immediates : PopDueImmediate(e)

Next ==
    \/ Tick
    \/ StartTurn
    \/ \E id \in Ids :
          \/ \E ms \in Delays, repeating \in BOOLEAN : Schedule(ms, repeating, id)
          \/ ScheduleImmediate(id)
          \/ Cancel(id)
          \/ \E value \in BOOLEAN : SetRef(id, value)
    \/ TimerPending
    \/ PopDue
    \/ LookAtFronts
    \/ CallbackDone

Spec == Init /\ [][Next]_vars

-----------------------------------------------------------------------------
TypeOK ==
    /\ clock \in Nat
    /\ now \in Nat
    /\ next_id \in Ids
    /\ seq \in Nat
    /\ heap \subseteq Entry
    /\ immediates \subseteq Entry
    /\ DOMAIN active \subseteq Ids
    /\ \A i \in DOMAIN active : active[i] \in Timer
    /\ ref_count \in Int
    /\ pending \in Seq(Pending)
    /\ running \in Running
    /\ check \in Int

(***************************************************************************)
(* ref_count is the number of live ref'd timers, "kept in sync by schedule *)
(* / cancel / pop_due / set_ref": the loop neither exits over a ref'd      *)
(* timer nor stays for one that is gone.                                   *)
(***************************************************************************)
RefCountExact == ref_count = Cardinality(refs(active))

(***************************************************************************)
(* Every live timer still has its own entry in a queue, whatever was       *)
(* cancelled, skimmed and purged around it: it will be found when due.  A  *)
(* ref'd timer without one would keep the loop alive forever, unfired.     *)
(***************************************************************************)
NoTimerLost ==
    \A i \in DOMAIN active :
        \E e \in heap \cup immediates : e.id = i /\ e.seq = active[i].seq

(* An entry whose id is live is that timer's own.                          *)
EntriesAreOwn ==
    \A e \in heap \cup immediates :
        e.id \in DOMAIN active => e.seq = active[e.id].seq

(***************************************************************************)
(* What is left of a cancelled timer is dead ("Cancelled ids are skipped   *)
(* lazily (absent from `active`)") until the ids have gone once round:     *)
(* otherwise a timer fires on the schedule of another.                     *)
(***************************************************************************)
EntriesAreOwnUntilWrap == seq <= IdMax => EntriesAreOwn

RanTimer(e) ==
    /\ e \in LiveIn(heap) \ heap'
    /\ running = Idle /\ running'.kind = "timer"
RanImmediate(e) ==
    /\ e \in LiveIn(immediates) \ immediates'
    /\ running = Idle /\ running'.kind = "immediate"

(***************************************************************************)
(* A timer never runs before its deadline, though a pending callback's     *)
(* gate reaches almost a millisecond past the deadline of the timer that   *)
(* queued it.                                                              *)
(***************************************************************************)
TimersNeverEarly == [][\A e \in heap : RanTimer(e) => e.at <= clock]_vars

(***************************************************************************)
(* A pending callback queued by the main script, an I/O callback or a      *)
(* timer runs before every timer and immediate set after it ("before any   *)
(* timer or immediate", "after the other timers due in that timers phase,  *)
(* and before any immediate").                                             *)
(***************************************************************************)
PendingNotOvertaken ==
    [][pending # << >> /\ Head(pending).from # "immediates" =>
         \A e \in heap \cup immediates :
            RanTimer(e) \/ RanImmediate(e) => e.seq <= Head(pending).born]_vars

(***************************************************************************)
(* A pending callback queued by an immediate runs "after the other         *)
(* immediates queued before that check phase began [...] and before the    *)
(* immediates queued during it" (timerPending's documentation).            *)
(***************************************************************************)
PendingBeforeNextCheckPhase ==
    [][pending # << >> /\ Head(pending).from = "immediates" =>
         \A e \in immediates :
            RanImmediate(e) => e.at <= Head(pending).phase]_vars
-----------------------------------------------------------------------------
(* What JavaScript and the loop see of the queues: the live entries, each  *)
(* with its timer's flags, and no gates.                                   *)
AsSeen(e, kind) ==
    [kind |-> kind, at |-> e.at, seq |-> e.seq,
     interval |-> active[e.id].interval, is_ref |-> active[e.id].is_ref]
SeenTimers ==
    {AsSeen(e, "timer") : e \in LiveIn(heap)}
        \cup {AsSeen(e, "immediate") : e \in LiveIn(immediates)}
SeenPending ==
    [k \in 1 .. Len(pending) |->
        [born |-> pending[k].born, from |-> pending[k].from,
         until |-> IF pending[k].from = "timers" THEN pending[k].until ELSE 0]]

Node == INSTANCE NodeTimers
            WITH timers <- SeenTimers, pending <- SeenPending,
                 running <- running.kind, alive <- has_ref_timers

(***************************************************************************)
(* The queue implements NodeTimers, until the ids have gone once round:    *)
(* whatever stays behind of cancelled timers, is skimmed or purged, what   *)
(* runs is due and the first of its kind, a pending callback is passed     *)
(* only by what it may wait for, no timer goes or comes by itself, and the *)
(* counter says whether a ref'd one is left.                               *)
(***************************************************************************)
BehavesAsNode == Node!Init /\ [][seq' <= IdMax => Node!Next]_(Node!vars)
=============================================================================
