-------------------------- MODULE EventLoopProofs --------------------------
(***************************************************************************)
(* Proofs about EventLoop, for any program (number of calls), with or      *)
(* without a debugger.                                                     *)
(*                                                                         *)
(* The loop is composed of TimerQueue and OpRuntime, and so is the         *)
(* invariant: TP!IInv and OP!IInv are the ones TimerQueueProofs and        *)
(* OpRuntimeProofs show inductive, and each of the loop's steps is one of  *)
(* the components' or leaves them alone.  The rest is about where the loop *)
(* is, and relates pc and site to what was decided before.                 *)
(***************************************************************************)
EXTENDS EventLoop, FiniteSetTheorems, WellFoundedInduction, TLAPS

TP == INSTANCE TimerQueueProofs
OP == INSTANCE OpRuntimeProofs

(* JavaScript or the tick queue runs for one of these.                     *)
For(sites) == pc \in {"js", "drain"} /\ site \in sites

(* The loop's own part of the type invariant.                              *)
LoopTypes ==
    /\ pc \in Steps /\ site \in Sites /\ frame \in Frames
    /\ ticks \in Nat /\ calls \in Nat /\ ticks + calls <= MaxCalls
    /\ last_ran \in [kind : {"entry", "timer", "immediate", "other"},
                     began : Nat \cup {Never}]
    /\ deadline \in Nat \cup {NoDeadline}
    /\ v8 \in {"none", "background", "ready"}
    /\ cdp \in Nat \cup {NoDebugger} /\ outside \in Nat /\ outside <= MaxOutside
    /\ Inspector => cdp + outside <= MaxOutside
    /\ phase \in Nat \cup {NoPhase}

Flags ==
    /\ progressed \in BOOLEAN /\ emitted \in BOOLEAN /\ rejected \in BOOLEAN
    /\ ran \in BOOLEAN /\ quiet \in BOOLEAN

(* A timer's or an immediate's callback runs only where callback_done is   *)
(* still to come, and for the debugger only when there is one.             *)
Places ==
    /\ running # Timers!Idle => For({"timer"}) \/ pc \in {"after", "exited", "failed"}
    /\ For({"cdp", "cdpwait"}) => Inspector

(* Where the loop may be when the entry has rejected.                      *)
Rejecting ==
    rejected /\ ~Inspector =>
        pc \in {"js", "drain", "top", "pop", "after", "tasks", "ranTask", "exited", "failed"}

(* Since the last beforeExit something ran, and the latch is still set:    *)
(* the turn is not over, or V8 still owes a task.                          *)
Latched ==
    emitted /\ ~quiet =>
        \/ v8 # "none"
        \/ progressed /\ pc \in {"tasks", "poll"}
        \/ For({"timer", "task"})
        \/ pc \in {"after", "ranTask", "exited", "failed"}

(* Nothing ran, and the latch is not set: a wake for a task of V8's reset  *)
(* it, and the task runs before the loop is idle again.                    *)
Reset ==
    quiet /\ ~emitted =>
        /\ v8 = "ready"
        /\ \/ For({"poll", "wait", "pre", "cdp"})
           \/ pc \in {"top", "turn", "tickPoint", "pop", "tasks", "exited", "failed"}

Wakes == \E i \in 1 .. Len(channel) : channel[i] = OpIdMax

Quiet ==
    /\ progressed => ~quiet
    /\ pc = "idle" => ~progressed
    /\ For({"timer", "task"}) \/ pc \in {"after", "ranTask"} => ~quiet
    /\ Wakes => v8 = "ready" \/ ~quiet
    /\ pc = "idle" /\ v8 = "none" => ~Wakes
    /\ pc = "slice" => v8 # "none"

(* Between two polls: the timers phase that runs, and what is set in it is *)
(* due after it.                                                           *)
First(e) ==
    /\ e \in Timers!LiveIn(heap)
    /\ \A f \in Timers!LiveIn(heap) \cup Timers!LiveIn(immediates) :
          f = e \/ Timers!Before(e, f)

PhaseGoesOn ==
    /\ last_ran.kind = "timer" /\ pending = << >>
    /\ \E e \in heap : First(e) /\ e.at <= last_ran.began

Phases ==
    /\ last_ran.began <= now
    /\ phase # NoPhase /\ ~Inspector =>
          \/ For({"timer", "task"})
          \/ pc \in {"after", "ranTask", "tasks", "poll", "exited", "failed"}
          \/ pc \in {"top", "turn", "tickPoint", "pop"} /\ PhaseGoesOn
    /\ phase # NoPhase /\ ~Inspector /\ last_ran.kind = "timer" =>
          \A e \in heap : e.seq > phase => e.at > last_ran.began

LoopInv ==
    /\ TP!IInv
    /\ OP!IInv
    /\ LoopTypes /\ Flags
    /\ Places
    /\ Rejecting
    /\ Latched /\ Reset /\ Quiet
    /\ Phases

USE EventLoopAssumption

-----------------------------------------------------------------------------
(* The components' assumptions are the loop's.                             *)
LEMMA ComponentsAssumed == TP!TimerAssumption /\ OP!OpIdMaxAssumption
  BY DEF TP!TimerAssumption, OP!OpIdMaxAssumption

(* The components count as the loop does.                                  *)
LEMMA SameCounts ==
    \A S : /\ Timers!Cardinality(S) = Cardinality(S) /\ TP!Cardinality(S) = Cardinality(S)
           /\ Ops!Cardinality(S) = Cardinality(S) /\ OP!Cardinality(S) = Cardinality(S)
  BY DEF Cardinality, Timers!Cardinality, TP!Cardinality, Ops!Cardinality, OP!Cardinality

(* What the timers' invariant says of the state.                           *)
LEMMA QueueFacts ==
    ASSUME TP!IInv
    PROVE  /\ clock \in Nat /\ now \in Nat /\ now <= clock /\ seq \in Nat
           /\ heap \subseteq [at : Nat, seq : Nat, id : 1 .. IdMax]
           /\ immediates \subseteq [at : Nat, seq : Nat, id : 1 .. IdMax]
           /\ \A e, f \in heap \cup immediates : e.seq = f.seq => e = f
           /\ \A e \in heap : e.seq <= seq
           /\ Timers!TypeOK /\ Timers!RefCountExact /\ Timers!NoTimerLost
  <1>1. /\ clock \in Nat /\ now \in Nat /\ now <= clock /\ seq \in Nat
    BY DEF TP!IInv, TP!PhaseInv, TP!PhaseType, TP!TimesAgree, TP!QueueInv, TP!QueueType
  <1>2. /\ heap \subseteq [at : Nat, seq : Nat, id : 1 .. IdMax]
        /\ immediates \subseteq [at : Nat, seq : Nat, id : 1 .. IdMax]
    BY DEF TP!IInv, TP!QueueInv, TP!QueueType, TP!Entry, TP!Ids
  <1>3. /\ \A e, f \in heap \cup immediates : e.seq = f.seq => e = f
        /\ \A e \in heap : e.seq <= seq
    BY DEF TP!IInv, TP!QueueInv, TP!SeqsUnique
  <1>4. Timers!TypeOK
    BY TP!Types DEF TP!TypeOK, Timers!TypeOK, TP!Entry, Timers!Entry, TP!Ids, Timers!Ids,
          TP!Timer, Timers!Timer, TP!NoInterval, Timers!NoInterval, TP!Pending, Timers!Pending,
          TP!Gate, Timers!Gate, TP!Running, Timers!Running
  <1>5. Timers!RefCountExact
    <2>1. TP!refs(active) = Timers!refs(active)
      BY DEF TP!refs, Timers!refs
    <2> QED BY <2>1, SameCounts DEF TP!IInv, TP!QueueInv, TP!RefCountExact, Timers!RefCountExact
  <1>6. Timers!NoTimerLost
    BY Zenon DEF TP!IInv, TP!QueueInv, TP!NoTimerLost, Timers!NoTimerLost
  <1> QED BY <1>1, <1>2, <1>3, <1>4, <1>5, <1>6

(* Steps that leave the timers, or the ops, alone.                         *)
LEMMA TimersKept == ASSUME TP!IInv, UNCHANGED timerVars PROVE TP!IInv'
  BY TP!StutterInv DEF timerVars, TP!vars

LEMMA OpsKept == ASSUME OP!IInv, UNCHANGED opVars PROVE OP!IInv'
  BY OP!StutterInv DEF opVars, OP!opVars

(* The loop's looks at the queues discard what is dead.                    *)
LEMMA SkimsOnly ==
    ASSUME TP!IInv, heap' \in {heap, Timers!Skim(heap)},
           immediates' \in {immediates, Timers!Skim(immediates)},
           running' = running \/ running' = Timers!Idle,
           UNCHANGED <<clock, now, next_id, seq, active, ref_count, pending, check>>
    PROVE  /\ TP!IInv'
           /\ Timers!LiveIn(heap)' = Timers!LiveIn(heap)
           /\ Timers!LiveIn(immediates)' = Timers!LiveIn(immediates)
           /\ heap' \subseteq heap
  <1>1. /\ Timers!Skim(heap) = TP!Skim(heap) /\ Timers!Skim(immediates) = TP!Skim(immediates)
        /\ Timers!Idle = TP!Idle
    BY DEF Timers!Skim, TP!Skim, Timers!LiveIn, TP!LiveIn, Timers!Before, TP!Before,
           Timers!Idle, TP!Idle
  <1>2. TP!Skims
    BY <1>1 DEF TP!Skims, TP!Skim, TP!LiveIn
  <1>3. TP!IInv'
    BY <1>1, <1>2, TP!LooksInv
  <1>4. /\ Timers!LiveIn(heap)' = Timers!LiveIn(heap)
        /\ Timers!LiveIn(immediates)' = Timers!LiveIn(immediates)
        /\ heap' \subseteq heap
    BY DEF Timers!LiveIn, Timers!Skim
  <1> QED BY <1>3, <1>4

LEMMA LookSkims ==
    ASSUME TP!IInv, Look, UNCHANGED now
    PROVE  /\ TP!IInv'
           /\ Timers!LiveIn(heap)' = Timers!LiveIn(heap)
           /\ Timers!LiveIn(immediates)' = Timers!LiveIn(immediates)
           /\ heap' \subseteq heap
  BY SkimsOnly DEF Look

(* The calls JavaScript makes, the clock and pop_due: the same in both     *)
(* instances.                                                              *)
LEMMA CallsBridge ==
    ASSUME NEW id \in 1 .. IdMax,
           \/ \E ms \in Delays, repeating \in BOOLEAN : Timers!Schedule(ms, repeating, id)
           \/ Timers!ScheduleImmediate(id)
           \/ Timers!Cancel(id)
           \/ Timers!SetRef(id, FALSE)
    PROVE  /\ id \in TP!Ids
           /\ \/ \E ms \in Delays, repeating \in BOOLEAN : TP!Schedule(ms, repeating, id)
              \/ TP!ScheduleImmediate(id)
              \/ TP!Cancel(id)
              \/ TP!SetRef(id, FALSE)
  <1>0. id \in TP!Ids
    BY DEF TP!Ids
  <1>1. ASSUME NEW ms \in Delays, NEW repeating \in BOOLEAN, Timers!Schedule(ms, repeating, id)
        PROVE  TP!Schedule(ms, repeating, id)
    BY <1>1 DEF Timers!Schedule, TP!Schedule, Timers!Insert, TP!Insert, Timers!TakesFreeId,
          TP!TakesFreeId, Timers!Tries, TP!Tries, Timers!Ids, TP!Ids, Timers!NextId, TP!NextId,
          Timers!Put, TP!Put, Timers!Clamped, TP!Clamped, Timers!NoInterval, TP!NoInterval
  <1>2. Timers!ScheduleImmediate(id) => TP!ScheduleImmediate(id)
    BY DEF Timers!ScheduleImmediate, TP!ScheduleImmediate, Timers!Insert, TP!Insert,
          Timers!TakesFreeId, TP!TakesFreeId, Timers!Tries, TP!Tries, Timers!Ids, TP!Ids,
          Timers!NextId, TP!NextId, Timers!Put, TP!Put, Timers!NoInterval, TP!NoInterval
  <1>3. ASSUME Timers!Cancel(id) PROVE TP!Cancel(id)
    <2>1. /\ Timers!Drop(active, {id}) = TP!Drop(active, {id})
          /\ \A act : Timers!Purges(act) <=> TP!Purges(act)
      BY SameCounts DEF Timers!Drop, TP!Drop, Timers!Purges, TP!Purges
    <2>2. \A queue, act : Timers!Purged(queue, act) = TP!Purged(queue, act)
      BY <2>1, Zenon DEF Timers!Purged, TP!Purged
    <2> QED BY <1>3, <2>1, <2>2 DEF Timers!Cancel, TP!Cancel
  <1>4. Timers!SetRef(id, FALSE) => TP!SetRef(id, FALSE)
    BY DEF Timers!SetRef, TP!SetRef
  <1> QED BY <1>0, <1>1, <1>2, <1>3, <1>4

LEMMA CallsInv ==
    ASSUME TP!IInv, NEW id \in 1 .. IdMax,
           \/ \E ms \in Delays, repeating \in BOOLEAN : Timers!Schedule(ms, repeating, id)
           \/ Timers!ScheduleImmediate(id)
           \/ Timers!Cancel(id)
           \/ Timers!SetRef(id, FALSE)
    PROVE  TP!IInv'
  BY CallsBridge, TP!ScheduleInv, TP!ScheduleImmediateInv, TP!CancelInv, TP!SetRefInv

LEMMA TimerPendingBridge == Timers!TimerPending => TP!TimerPending
  BY DEF Timers!TimerPending, TP!TimerPending, Timers!GateOf, TP!GateOf, Timers!UntilOf,
         TP!UntilOf, Timers!TimersUntil, TP!TimersUntil, Timers!Greatest, TP!Greatest

LEMMA TimerPendingInv == ASSUME TP!IInv, Timers!TimerPending PROVE TP!IInv'
  BY TimerPendingBridge, TP!TimerPendingInv

LEMMA TickBridge == Timers!Tick => TP!Tick
  BY DEF Timers!Tick, TP!Tick

LEMMA TickInv == ASSUME TP!IInv, Timers!Tick PROVE TP!IInv'
  BY TickBridge, TP!TickInv

LEMMA TurnInv ==
    ASSUME TP!IInv, running = Timers!Idle, now' = clock,
           UNCHANGED <<clock, next_id, seq, heap, immediates, active, ref_count, pending,
                       running, check>>
    PROVE  TP!IInv'
  <1>1. CASE now = clock
    BY <1>1, TimersKept DEF timerVars
  <1>2. CASE now # clock
    BY <1>2, TP!StartTurnInv DEF TP!StartTurn, TP!Idle, Timers!Idle
  <1> QED BY <1>1, <1>2

(* The actions of pop_due are the same in both instances.                  *)
LEMMA PopDueBridge ==
    ASSUME TP!IInv
    PROVE  /\ Timers!PopDuePending => TP!PopDuePending
           /\ \A e : Timers!PopDueTimer(e) => TP!PopDueTimer(e)
           /\ \A e : Timers!PopDueImmediate(e) => TP!PopDueImmediate(e)
  <1>1. /\ \A q : Timers!LiveIn(q) = TP!LiveIn(q)
        /\ Timers!Idle = TP!Idle /\ Timers!gate = TP!gate /\ Timers!until = TP!until
        /\ Timers!NoInterval = TP!NoInterval
        /\ \A f, S : Timers!Drop(f, S) = TP!Drop(f, S)
    BY DEF Timers!LiveIn, TP!LiveIn, Timers!Idle, TP!Idle, Timers!gate, TP!gate, Timers!until,
           TP!until, Timers!NoInterval, TP!NoInterval, Timers!Drop, TP!Drop
  <1>2. \A e, f : Timers!Before(e, f) <=> TP!Before(e, f)
    BY DEF Timers!Before, TP!Before
  <1>3. \A q : Timers!Skim(q) = TP!Skim(q)
    BY <1>1, <1>2 DEF Timers!Skim, TP!Skim
  <1>4. \A q, e : Timers!IsFront(q, e) <=> TP!IsFront(q, e)
    BY <1>1, <1>2 DEF Timers!IsFront, TP!IsFront
  <1>5. \A q, t : Timers!DueBy(q, t) <=> TP!DueBy(q, t)
    BY <1>1 DEF Timers!DueBy, TP!DueBy
  <1>6. /\ Timers!WaitsForImmediate <=> TP!WaitsForImmediate
        /\ Timers!TimersAhead <=> TP!TimersAhead
        /\ Timers!WaitsForTimer <=> TP!WaitsForTimer
        /\ Timers!TimerIsDue <=> TP!TimerIsDue
        /\ Timers!ImmediateIsDue <=> TP!ImmediateIsDue
    BY <1>1, <1>5 DEF Timers!WaitsForImmediate, TP!WaitsForImmediate, Timers!TimersAhead,
          TP!TimersAhead, Timers!WaitsForTimer, TP!WaitsForTimer, Timers!TimerIsDue,
          TP!TimerIsDue, Timers!ImmediateIsDue, TP!ImmediateIsDue, Timers!Least, TP!Least
  <1>7. Timers!PopDuePending => TP!PopDuePending
    BY <1>1, <1>3, <1>6 DEF Timers!PopDuePending, TP!PopDuePending
  <1>8. ASSUME NEW e, Timers!PopDueTimer(e) PROVE TP!PopDueTimer(e)
    <2>1. TP!PopTimer(e)
      BY <1>1, <1>3, <1>8 DEF Timers!PopDueTimer, Timers!PopTimer, TP!PopTimer
    <2> QED BY <1>1, <1>2, <1>3, <1>4, <1>6, <1>8, <2>1 DEF Timers!PopDueTimer, TP!PopDueTimer
  <1>9. ASSUME NEW e, Timers!PopDueImmediate(e) PROVE TP!PopDueImmediate(e)
    <2>1. TP!PopImmediate(e)
      BY <1>1, <1>3, <1>9 DEF Timers!PopDueImmediate, Timers!PopImmediate, TP!PopImmediate
    <2> QED BY <1>1, <1>2, <1>3, <1>4, <1>6, <1>9, <2>1
            DEF Timers!PopDueImmediate, TP!PopDueImmediate
  <1> QED BY <1>7, <1>8, <1>9

LEMMA PopDueInv == ASSUME TP!IInv, Timers!PopDue PROVE TP!IInv'
  <1>1. TP!PopDuePending \/ (\E e \in heap : TP!PopDueTimer(e))
          \/ (\E e \in immediates : TP!PopDueImmediate(e))
    BY PopDueBridge DEF Timers!PopDue
  <1> QED BY <1>1, TP!PopDuePendingInv, TP!PopDueTimerInv, TP!PopDueImmediateInv

(* The ops.                                                                *)
LEMMA SpawnInv == ASSUME OP!IInv, Ops!SpawnOp \/ Ops!SpawnOpUnref PROVE OP!IInv'
  <1>1. ASSUME NEW referenced \in BOOLEAN, Ops!Spawn(referenced), UNCHANGED <<handles, op_handles>>
        PROVE  OP!IInv'
    BY <1>1, OP!SpawnPlainInv DEF Ops!Spawn, OP!Spawn
  <1> QED BY <1>1 DEF Ops!SpawnOp, Ops!SpawnOpUnref

LEMMA CompletesInv == ASSUME OP!IInv, NEW id \in op_running, Ops!Complete(id) PROVE OP!IInv'
  BY OP!CompleteInv DEF Ops!Complete, OP!Complete

LEMMA SentinelInv ==
    ASSUME OP!IInv, NEW id \in {0, OpIdMax}, channel' = Append(channel, id),
           UNCHANGED <<op_next_id, op_running, inflight, unref_ops, handles, op_handles, parked>>
    PROVE  OP!IInv'
  BY OP!SentinelInv DEF OP!Sentinels, OP!SIGNAL_OP_ID, OP!PLATFORM_TASK_OP_ID

LEMMA SettleBridge == ASSUME Ops!Settle PROVE OP!Settle
  <1>1. /\ Ops!Sentinels = OP!Sentinels
        /\ \A f, S : Ops!Drop(f, S) = OP!Drop(f, S)
        /\ \A f, k, v : Ops!Put(f, k, v) = OP!Put(f, k, v)
    BY DEF Ops!Sentinels, OP!Sentinels, Ops!SIGNAL_OP_ID, OP!SIGNAL_OP_ID,
           Ops!PLATFORM_TASK_OP_ID, OP!PLATFORM_TASK_OP_ID, Ops!Drop, OP!Drop, Ops!Put, OP!Put
  <1>2. \A k, h : Ops!Pruned(k, h) = OP!Pruned(k, h)
    BY <1>1 DEF Ops!Pruned, OP!Pruned
  <1> QED BY <1>1, <1>2
      DEF Ops!Settle, OP!Settle, Ops!NoteSettled, OP!NoteSettled, Ops!Unfile, OP!Unfile

LEMMA SettlesInv == ASSUME OP!IInv, Ops!Settle PROVE OP!IInv'
  BY SettleBridge, OP!SettleInv

(* What the ops' invariant says of the state.                              *)
LEMMA OpFacts ==
    ASSUME OP!IInv
    PROVE  /\ channel \in Seq(0 .. OpIdMax)
           /\ op_running \subseteq 1 .. OpIdMax - 1
           /\ Ops!OpsTypeOK /\ Ops!InflightExact
  <1>1. Ops!OpsTypeOK
    BY DEF OP!IInv, OP!OpsTypeOK, Ops!OpsTypeOK, OP!OpId, Ops!OpId, OP!HandleRef, Ops!HandleRef
  <1>2. Ops!InflightExact
    <2>1. Ops!Live = OP!Live
      BY DEF Ops!Live, OP!Live, Ops!Queued, OP!Queued, Ops!Sentinels, OP!Sentinels,
             Ops!SIGNAL_OP_ID, OP!SIGNAL_OP_ID, Ops!PLATFORM_TASK_OP_ID, OP!PLATFORM_TASK_OP_ID
    <2> QED BY <2>1, SameCounts DEF OP!IInv, OP!InflightExact, Ops!InflightExact
  <1> QED BY <1>1, <1>2 DEF Ops!OpsTypeOK, Ops!OpId

-----------------------------------------------------------------------------
(* The first entry of the two queues.                                      *)

LEMMA LeastNat ==
    ASSUME NEW S \in SUBSET Nat, S # {}
    PROVE  \E t \in S : \A u \in S : t <= u
  <1>1. PICK t \in S : \A u \in S : ~(<<u, t>> \in OpToRel(<, Nat))
    BY NatLessThanWellFounded, WFMin
  <1>2. \A u \in S : ~(u < t)
    <2>1. SUFFICES ASSUME NEW u \in S, u < t PROVE FALSE
      OBVIOUS
    <2>2. <<u, t>> \in OpToRel(<, Nat)
      BY <2>1 DEF OpToRel
    <2> QED BY <1>1, <2>2
  <1> QED BY <1>2

LEMMA FirstExists ==
    ASSUME TP!IInv, NEW S \in SUBSET (heap \cup immediates), S # {}
    PROVE  \E e \in S : \A f \in S : f = e \/ Timers!Before(e, f)
  <1>1. /\ \A e \in S : e.at \in Nat /\ e.seq \in Nat
        /\ \A e, f \in S : e.seq = f.seq => e = f
    BY QueueFacts
  <1> DEFINE ats == {e.at : e \in S}
  <1>2. ats \in SUBSET Nat /\ ats # {}
    BY <1>1
  <1>3. PICK t \in ats : \A u \in ats : t <= u
    BY <1>2, LeastNat
  <1> DEFINE T == {e \in S : e.at = t}
             seqs == {e.seq : e \in T}
  <1>4. seqs \in SUBSET Nat /\ seqs # {}
    BY <1>1, <1>3
  <1>5. PICK n \in seqs : \A u \in seqs : n <= u
    BY <1>4, LeastNat
  <1>6. PICK e \in T : e.seq = n
    BY <1>5
  <1>7. ASSUME NEW f \in S PROVE f = e \/ Timers!Before(e, f)
    <2>1. e.at <= f.at
      BY <1>3, <1>6, <1>7
    <2>2. f.at = e.at => e.seq <= f.seq
      BY <1>5, <1>6, <1>7
    <2> QED BY <1>1, <1>6, <1>7, <2>1, <2>2 DEF Timers!Before
  <1> QED BY <1>6, <1>7

(* Only one entry is before every other.                                   *)
LEMMA FirstIsOne ==
    ASSUME TP!IInv, NEW e \in heap \cup immediates, NEW f \in heap \cup immediates,
           Timers!Before(e, f)
    PROVE  ~Timers!Before(f, e)
  BY QueueFacts DEF Timers!Before

(* next_deadline: the first entry's time, and none only with none.         *)
LEMMA NextDeadlineIs ==
    ASSUME TP!IInv
    PROVE  /\ NextDeadline \in Nat \cup {NoDeadline}
           /\ NextDeadline = NoDeadline =>
                 pending = << >> /\ Timers!LiveIn(heap) \cup Timers!LiveIn(immediates) = {}
  <1> DEFINE live == Timers!LiveIn(heap) \cup Timers!LiveIn(immediates)
             P(e) == \A f \in live : f = e \/ Timers!Before(e, f)
  <1>1. CASE pending # << >> \/ live = {}
    BY <1>1 DEF NextDeadline, NoDeadline
  <1>2. CASE pending = << >> /\ live # {}
    <2>1. live \in SUBSET (heap \cup immediates)
      BY DEF Timers!LiveIn
    <2>2. \E e \in live : P(e)
      BY <1>2, <2>1, FirstExists
    <2>3. (CHOOSE e \in live : P(e)) \in live
      BY <2>2
    <2>4. NextDeadline = (CHOOSE e \in live : P(e)).at
      BY <1>2 DEF NextDeadline
    <2>5. NextDeadline \in Nat
      BY <2>1, <2>3, <2>4, QueueFacts
    <2> QED BY <2>5 DEF NoDeadline
  <1> QED BY <1>1, <1>2

(* peek_due, when a timer of the phase that runs is first.                 *)
LEMMA PeekDueIs ==
    ASSUME TP!IInv, pending = << >>, Fronts # {}
    PROVE  \E e \in Fronts : /\ \A f \in Fronts : f = e \/ Timers!Before(e, f)
                             /\ PeekDue = [kind |-> IF e \in heap THEN "timer" ELSE "immediate",
                                           at |-> e.at]
  <1> DEFINE P(e) == \A f \in Fronts : f = e \/ Timers!Before(e, f)
             c == CHOOSE e \in Fronts : P(e)
  <1>1. Fronts \in SUBSET (heap \cup immediates)
    BY DEF Fronts, Timers!LiveIn
  <1>2. \E e \in Fronts : P(e)
    BY <1>1, FirstExists
  <1>3. c \in Fronts /\ P(c)
    BY <1>2
  <1>4. PeekDue = [kind |-> IF c \in heap THEN "timer" ELSE "immediate", at |-> c.at]
    BY DEF PeekDue
  <1> HIDE DEF c
  <1> QED BY <1>3, <1>4

LEMMA SamePhaseGoesOn ==
    ASSUME TP!IInv, LoopTypes, Phases, SamePhaseDue
    PROVE  PhaseGoesOn
  <1>1. last_ran.kind = "timer" /\ PeekDue.kind = "timer" /\ PeekDue.at <= last_ran.began
    BY DEF SamePhaseDue
  <1>2. pending = << >> /\ Fronts # {}
    BY <1>1 DEF PeekDue
  <1>3. PICK e \in Fronts : /\ \A f \in Fronts : f = e \/ Timers!Before(e, f)
                            /\ PeekDue = [kind |-> IF e \in heap THEN "timer" ELSE "immediate",
                                          at |-> e.at]
    BY <1>2, PeekDueIs
  <1>4. e \in heap /\ e.at <= last_ran.began /\ e.at <= now
    BY <1>1, <1>3 DEF Fronts
  <1>5. First(e)
    <2>1. e \in Timers!LiveIn(heap)
      BY <1>3, <1>4 DEF Fronts, Timers!LiveIn
    <2>2. ASSUME NEW f \in Timers!LiveIn(heap) \cup Timers!LiveIn(immediates)
          PROVE  f = e \/ Timers!Before(e, f)
      <3>1. CASE f.at <= now
        BY <1>3, <2>2, <3>1 DEF Fronts
      <3>2. CASE ~(f.at <= now)
        <4>1. f.at \in Nat /\ e.at \in Nat /\ now \in Nat
          BY <1>4, <2>2, QueueFacts DEF Timers!LiveIn
        <4> QED BY <1>4, <3>2, <4>1 DEF Timers!Before
      <3> QED BY <3>1, <3>2
    <2> QED BY <2>1, <2>2 DEF First
  <1> QED BY <1>1, <1>2, <1>4, <1>5 DEF PhaseGoesOn

(* In a phase that goes on no tick runs before the next timer ...          *)
LEMMA PhaseNoTicks ==
    ASSUME TP!IInv, LoopTypes, Phases, PhaseGoesOn
    PROVE  ~CheckPhaseFirst /\ PeekDue.kind = "timer"
  <1>1. PICK e \in heap : First(e) /\ e.at <= last_ran.began
    BY DEF PhaseGoesOn
  <1>2. e \in Fronts
    <2>1. e.at \in Nat /\ now \in Nat /\ last_ran.began \in Int /\ last_ran.began <= now
      BY QueueFacts DEF LoopTypes, Phases, Never
    <2>2. e.at <= now
      BY <1>1, <2>1
    <2> QED BY <1>1, <2>2 DEF Fronts, First
  <1>3. PICK c \in Fronts : /\ \A f \in Fronts : f = c \/ Timers!Before(c, f)
                            /\ PeekDue = [kind |-> IF c \in heap THEN "timer" ELSE "immediate",
                                          at |-> c.at]
    BY <1>2, PeekDueIs DEF PhaseGoesOn
  <1>4. c = e
    <2>1. c = e \/ Timers!Before(c, e)
      BY <1>2, <1>3
    <2>2. c = e \/ Timers!Before(e, c)
      BY <1>1, <1>3 DEF First, Fronts
    <2>3. c \in heap \cup immediates
      BY <1>3 DEF Fronts, Timers!LiveIn
    <2> QED BY <2>1, <2>2, <2>3, FirstIsOne
  <1>5. PeekDue.kind = "timer" /\ PeekDue.at <= last_ran.began
    BY <1>1, <1>3, <1>4
  <1>6. ~(PeekDue.at > last_ran.began)
    <2>1. PeekDue.at \in Nat /\ last_ran.began \in Int
      BY <1>3, <1>4, QueueFacts DEF LoopTypes, Never
    <2> QED BY <1>5, <2>1
  <1> QED BY <1>5, <1>6 DEF CheckPhaseFirst, PhaseGoesOn

(* ... and pop_due returns it.                                             *)
LEMMA PhasePops ==
    ASSUME TP!IInv, LoopTypes, Phases, PhaseGoesOn, Timers!PopDue
    PROVE  \E e \in heap : /\ Timers!PopDueTimer(e) /\ First(e) /\ e.at <= last_ran.began
                           /\ Timers!RanTimer(e)
  <1>1. PICK e \in heap : First(e) /\ e.at <= last_ran.began
    BY DEF PhaseGoesOn
  <1>2. pending = << >> /\ e \in Timers!LiveIn(heap)
    BY <1>1 DEF PhaseGoesOn, First
  <1>3. e.at <= now
    <2>1. e.at \in Nat /\ now \in Nat /\ last_ran.began \in Int /\ last_ran.began <= now
      BY QueueFacts DEF LoopTypes, Phases, Never
    <2> QED BY <1>1, <2>1
  <1>4. ASSUME NEW f \in immediates, Timers!PopDueImmediate(f) PROVE FALSE
    <2>1. f \in Timers!LiveIn(immediates) /\ ~Timers!Before(e, f)
      BY <1>2, <1>3, <1>4 DEF Timers!PopDueImmediate, Timers!IsFront, Timers!WaitsForImmediate
    <2>2. f = e
      BY <1>1, <2>1 DEF First
    <2> QED BY <1>1, <1>4, <2>2, QueueFacts DEF TP!IInv, TP!QueueInv, TP!SeqsUnique
  <1>5. PICK f \in heap : Timers!PopDueTimer(f)
    BY <1>2, <1>4 DEF Timers!PopDue, Timers!PopDuePending
  <1>6. f = e
    <2>1. f = e \/ Timers!Before(f, e)
      BY <1>2, <1>5 DEF Timers!PopDueTimer, Timers!IsFront
    <2>2. f = e \/ Timers!Before(e, f)
      BY <1>1, <1>5 DEF Timers!PopDueTimer, Timers!IsFront, First
    <2> QED BY <2>1, <2>2, FirstIsOne
  <1>7. e \notin heap'
    <2>1. ASSUME NEW g \in heap' PROVE g # e
      <3>1. e.seq \in Nat /\ e.seq <= seq /\ seq \in Nat
        BY QueueFacts
      <3>2. g \in Timers!Skim(heap) \ {e} \/ g.seq = seq + 1
        BY <1>5, <1>6, <2>1 DEF Timers!PopDueTimer, Timers!PopTimer
      <3> QED BY <3>1, <3>2
    <2> QED BY <2>1
  <1>8. running = Timers!Idle /\ running'.kind = "timer"
    BY <1>5 DEF Timers!PopDueTimer, Timers!PopTimer
  <1> QED BY <1>1, <1>2, <1>5, <1>6, <1>7, <1>8 DEF Timers!RanTimer

-----------------------------------------------------------------------------
(* JavaScript and the tick queue.                                          *)

LEMMA QueuesKept ==
    ASSUME LoopInv, UNCHANGED <<timerVars, opVars>>
    PROVE  /\ TP!IInv' /\ OP!IInv'
           /\ Wakes' <=> Wakes
           /\ last_ran' = last_ran => (PhaseGoesOn' <=> PhaseGoesOn)
           /\ UNCHANGED <<now, clock, heap, running, channel>>
  <1>1. TP!IInv' /\ OP!IInv'
    BY TimersKept, OpsKept DEF LoopInv
  <1>2. UNCHANGED <<now, clock, heap, running, channel, immediates, active, pending>>
    BY DEF timerVars, opVars
  <1>3. Wakes' <=> Wakes
    BY <1>2 DEF Wakes
  <1>4. last_ran' = last_ran => (PhaseGoesOn' <=> PhaseGoesOn)
    BY <1>2 DEF PhaseGoesOn, First, Timers!LiveIn, Timers!Before
  <1> QED BY <1>1, <1>2, <1>3, <1>4

(* The ticks queued and the calls left are MaxCalls at most.               *)
LEMMA Budget ==
    ASSUME NEW t \in Nat, NEW c \in Nat, NEW u \in Nat, t + c <= MaxCalls
    PROVE  /\ u <= t => u + c <= MaxCalls
           /\ c > 0 /\ u <= t + 1 => u + (c - 1) <= MaxCalls
  OBVIOUS

(* A callback or a drain ends.                                             *)
LEMMA AfterIs ==
    ASSUME LoopInv, pc \in {"js", "drain"}
    PROVE  /\ After \in {"after", "pop", "ranTask", "turn", "waitTimer", "top"}
           /\ site = "timer" <=> After = "after"
           /\ site = "pre" <=> After = "pop"
           /\ site = "task" <=> After = "ranTask"
           /\ After \in {"turn", "waitTimer"} => Inspector
           /\ After = "turn" => site = "cdp"
           /\ After = "waitTimer" => site = "cdpwait"
  <1>1. site \in {"cdp", "cdpwait"} => Inspector
    BY DEF LoopInv, Places, For
  <1> QED BY <1>1 DEF After

(* Where the isolate's thread goes when it leaves JavaScript or a drain    *)
(* for the same site, for what comes after it, or for good.                *)
Moves ==
    \/ pc' \in {"js", "drain"} /\ site' = site
    \/ pc' = After /\ site' = "none"
    \/ pc' = "failed" /\ site' = "none"

LEMMA MovesInv ==
    ASSUME LoopInv, pc \in {"js", "drain"}, Moves, frame' \in Frames,
           ticks' \in Nat, ticks' <= ticks, rejected' \in BOOLEAN, rejected' => rejected \/ pc' = "js",
           UNCHANGED <<timerVars, opVars, turnVars, v8, cdp, outside, calls>>
    PROVE  LoopInv'
  <1>1. /\ TP!IInv' /\ OP!IInv' /\ (Wakes' <=> Wakes) /\ (PhaseGoesOn' <=> PhaseGoesOn)
        /\ UNCHANGED <<now, clock, heap, running, channel>>
    BY QueuesKept DEF turnVars
  <1>2. /\ UNCHANGED <<last_ran, progressed, emitted, deadline, ran, quiet, phase>>
        /\ (Inspector' <=> Inspector)
    BY DEF turnVars, Inspector
  <1>3. LoopTypes'
    <2>1. pc' \in Steps /\ site' \in Sites
      BY AfterIs DEF LoopInv, LoopTypes, Moves, Steps, Sites
    <2>2. calls' \in Nat /\ ticks' + calls' <= MaxCalls
      <3>1. ticks \in Nat /\ calls \in Nat /\ ticks + calls <= MaxCalls
        BY DEF LoopInv, LoopTypes
      <3> QED BY <3>1, Budget
    <2>3. Inspector' => cdp' + outside' <= MaxOutside
      BY <1>2 DEF LoopInv, LoopTypes
    <2> QED BY <1>2, <2>1, <2>2, <2>3 DEF LoopInv, LoopTypes
  <1>4. Flags'
    BY <1>2 DEF LoopInv, Flags
  <1>5. Places'
    BY <1>1, <1>2, AfterIs DEF LoopInv, Places, Moves, For
  <1>6. Rejecting'
    BY <1>2, AfterIs DEF LoopInv, Rejecting, Moves
  <1>7. Latched' /\ Reset'
    BY <1>2, AfterIs DEF LoopInv, Latched, Reset, Moves, For
  <1>8. Quiet'
    BY <1>1, <1>2, AfterIs DEF LoopInv, Quiet, Moves, For
  <1>9. Phases'
    BY <1>1, <1>2, AfterIs DEF LoopInv, Phases, Moves, For
  <1> QED BY <1>1, <1>3, <1>4, <1>5, <1>6, <1>7, <1>8, <1>9 DEF LoopInv

LEMMA ResumeMoves ==
    ASSUME Resume, pc \in {"js", "drain"}
    PROVE  Moves /\ frame' = "none" /\ pc' # "js"
  BY DEF Resume, Moves, Drain, GoTo, After

LEMMA ReturnInv == ASSUME LoopInv, Return PROVE LoopInv'
  <1>1. Moves /\ frame' = "none"
    BY ResumeMoves DEF Return, InJs, Moves, Drain
  <1>2. "none" \in Frames /\ ticks \in Nat /\ rejected \in BOOLEAN
    BY DEF Frames, LoopInv, LoopTypes, Flags
  <1> QED BY <1>1, <1>2, MovesInv DEF Return, InJs, JsUnchanged

LEMMA ThrowFatalInv == ASSUME LoopInv, ThrowFatal PROVE LoopInv'
  <1>1. Moves /\ frame' = "none"
    BY DEF ThrowFatal, GoTo, Moves
  <1>2. "none" \in Frames /\ ticks \in Nat /\ rejected \in BOOLEAN
    BY DEF Frames, LoopInv, LoopTypes, Flags
  <1> QED BY <1>1, <1>2, MovesInv DEF ThrowFatal, InJs, JsUnchanged

LEMMA RejectEntryInv == ASSUME LoopInv, RejectEntry PROVE LoopInv'
  <1>1. Moves /\ frame' \in Frames /\ pc' = "js"
    BY DEF RejectEntry, InJs, Moves, LoopInv, LoopTypes
  <1>2. rejected' \in BOOLEAN
    BY Zenon DEF RejectEntry
  <1>3. ticks' \in Nat /\ ticks' <= ticks
    BY DEF RejectEntry, LoopInv, LoopTypes
  <1> QED BY <1>1, <1>2, <1>3, MovesInv DEF RejectEntry, InJs, JsUnchanged

LEMMA DrainStepInv == ASSUME LoopInv, DrainStep PROVE LoopInv'
  <1>1. Moves /\ frame' \in Frames
    BY DEF DrainStep, Moves, GoTo, Run, Frames
  <1>2. ticks' \in Nat /\ ticks' <= ticks
    BY DEF DrainStep, TicksLeft, HasTicks, LoopInv, LoopTypes
  <1>3. rejected \in BOOLEAN
    BY DEF LoopInv, Flags
  <1> QED BY <1>1, <1>2, <1>3, MovesInv DEF DrainStep, JsUnchanged

(* A throw that is taken: it ends a body, or a drain, and a beforeExit     *)
(* listener's lets the event be emitted again.                             *)
LEMMA ThrowHandledInv == ASSUME LoopInv, ThrowHandled PROVE LoopInv'
  <1>0. pc = "js" /\ Moves /\ frame' \in Frames
    BY ResumeMoves DEF ThrowHandled, InJs, Moves, GoTo, Drain, Run, Frames
  <1>1. /\ TP!IInv' /\ OP!IInv' /\ (Wakes' <=> Wakes) /\ (PhaseGoesOn' <=> PhaseGoesOn)
        /\ UNCHANGED <<now, clock, heap, running, channel>>
    BY QueuesKept DEF ThrowHandled
  <1>2. /\ UNCHANGED <<last_ran, progressed, deadline, ran, phase, v8, cdp, outside, calls, ticks,
                       rejected>>
        /\ (Inspector' <=> Inspector)
    BY DEF ThrowHandled, Inspector
  <1>3. /\ emitted' \in BOOLEAN /\ quiet' \in BOOLEAN
    BY Zenon DEF ThrowHandled
  <1>4. \/ emitted' = emitted /\ quiet' = quiet
        \/ ~emitted' /\ ~quiet'
    <2>1. emitted \in BOOLEAN /\ quiet \in BOOLEAN
      BY DEF LoopInv, Flags
    <2> QED BY <2>1, Zenon DEF ThrowHandled
  <1>5. LoopTypes'
    <2>1. pc' \in Steps /\ site' \in Sites
      BY <1>0, AfterIs DEF LoopInv, LoopTypes, Moves, Steps, Sites
    <2> QED BY <1>0, <1>2, <2>1 DEF LoopInv, LoopTypes
  <1>6. Flags'
    BY <1>2, <1>3 DEF LoopInv, Flags
  <1>7. Places'
    BY <1>0, <1>1, <1>2, AfterIs DEF LoopInv, Places, Moves, For
  <1>8. Rejecting'
    BY <1>0, <1>2, AfterIs DEF LoopInv, Rejecting, Moves
  <1>9. Latched' /\ Reset'
    BY <1>0, <1>2, <1>4, AfterIs DEF LoopInv, Latched, Reset, Moves, For
  <1>10. Quiet'
    BY <1>0, <1>1, <1>2, <1>4, AfterIs DEF LoopInv, Quiet, Moves, For
  <1>11. Phases'
    BY <1>0, <1>1, <1>2, AfterIs DEF LoopInv, Phases, Moves, For
  <1> QED BY <1>1, <1>5, <1>6, <1>7, <1>8, <1>9, <1>10, <1>11 DEF LoopInv

(* A call from JavaScript.  What a timer set now is due for comes after    *)
(* the phase that runs.                                                    *)
LEMMA CallInv ==
    ASSUME LoopInv, Call, TP!IInv', OP!IInv', ticks' \in Nat, ticks' <= ticks + 1,
           UNCHANGED <<running, now, channel>>,
           \A e \in heap' : e \in heap \/ (e.at \in Nat /\ e.at > now),
           v8' = v8 \/ (v8 = "none" /\ v8' = "background")
    PROVE  LoopInv'
  <1>1. /\ pc = "js" /\ UNCHANGED <<pc, site, frame, rejected, cdp, outside>>
        /\ UNCHANGED <<last_ran, progressed, emitted, deadline, ran, quiet, phase>>
        /\ (Inspector' <=> Inspector) /\ (Wakes' <=> Wakes)
        /\ calls > 0 /\ calls' = calls - 1
    BY DEF Call, InJs, turnVars, Inspector, Wakes
  <1>2. LoopTypes'
    <2>1. calls' \in Nat /\ ticks' + calls' <= MaxCalls
      <3>1. ticks \in Nat /\ calls \in Nat /\ ticks + calls <= MaxCalls
        BY DEF LoopInv, LoopTypes
      <3>2. calls - 1 \in Nat
        BY <1>1, <3>1
      <3> QED BY <1>1, <3>1, <3>2, Budget
    <2> QED BY <1>1, <2>1 DEF LoopInv, LoopTypes
  <1>3. Flags'
    BY <1>1 DEF LoopInv, Flags
  <1>4. Places' /\ Rejecting'
    BY <1>1 DEF LoopInv, Places, Rejecting, For
  <1>5. Latched' /\ Reset'
    BY <1>1 DEF LoopInv, Latched, Reset, For
  <1>6. Quiet'
    BY <1>1 DEF LoopInv, Quiet, For
  <1>7. Phases'
    <2>1. last_ran.began \in Int /\ now \in Nat
      BY QueueFacts DEF LoopInv, LoopTypes, Never
    <2>2. \A e \in heap' : e \in heap \/ e.at > last_ran.began
      BY <2>1 DEF LoopInv, Phases
    <2> QED BY <1>1, <2>2 DEF LoopInv, Phases, For
  <1> QED BY <1>2, <1>3, <1>4, <1>5, <1>6, <1>7 DEF LoopInv

LEMMA CallTimersInv == ASSUME LoopInv, CallTimers PROVE LoopInv'
  <1>1. PICK id \in 1 .. IdMax :
          \/ \E ms \in Delays, repeating \in BOOLEAN : Timers!Schedule(ms, repeating, id)
          \/ Timers!ScheduleImmediate(id)
          \/ Timers!Cancel(id)
          \/ Timers!SetRef(id, FALSE)
    BY DEF CallTimers
  <1>2. TP!IInv'
    BY <1>1, CallsInv DEF LoopInv
  <1>3. OP!IInv'
    BY OpsKept DEF LoopInv, CallTimers
  <1>4. UNCHANGED <<running, now>>
    BY <1>1 DEF Timers!Schedule, Timers!ScheduleImmediate, Timers!Cancel, Timers!SetRef
  <1>5. \A e \in heap' : e \in heap \/ (e.at \in Nat /\ e.at > now)
    <2>1. clock \in Nat /\ now \in Nat /\ now <= clock
      BY QueueFacts DEF LoopInv
    <2>2. ASSUME NEW ms \in Delays, NEW repeating \in BOOLEAN, Timers!Schedule(ms, repeating, id)
          PROVE  \A e \in heap' : e \in heap \/ (e.at \in Nat /\ e.at > now)
      <3>1. heap' = heap \cup {[at |-> clock + Timers!Clamped(ms), seq |-> seq + 1, id |-> id]}
        BY <2>2 DEF Timers!Schedule
      <3>2. TP!Clamped(ms) \in Nat /\ TP!Clamped(ms) >= Ms
        BY TP!ClampedDelay
      <3>3. Timers!Clamped(ms) = TP!Clamped(ms)
        BY DEF Timers!Clamped, TP!Clamped
      <3>4. clock + Timers!Clamped(ms) \in Nat /\ clock + Timers!Clamped(ms) > now
        BY <2>1, <3>2, <3>3
      <3> QED BY <3>1, <3>4
    <2>3. CASE heap' \subseteq heap
      BY <2>3
    <2> QED BY <1>1, <2>2, <2>3
            DEF Timers!ScheduleImmediate, Timers!Cancel, Timers!Purged, Timers!SetRef
  <1>6. Call /\ UNCHANGED <<channel, ticks, v8>>
    BY DEF CallTimers, opVars
  <1>7. ticks' \in Nat /\ ticks' <= ticks + 1
    BY <1>6 DEF LoopInv, LoopTypes
  <1> QED BY <1>2, <1>3, <1>4, <1>5, <1>6, <1>7, CallInv

LEMMA CallsElseInv ==
    ASSUME LoopInv, CallTimerPending \/ CallOps \/ NextTick \/ CallCompile
    PROVE  LoopInv'
  <1>1. TP!IInv'
    <2>1. CASE Timers!TimerPending
      BY <2>1, TimerPendingInv DEF LoopInv
    <2>2. CASE UNCHANGED timerVars
      BY <2>2, TimersKept DEF LoopInv
    <2> QED BY <2>1, <2>2 DEF CallTimerPending, CallOps, NextTick, CallCompile
  <1>2. OP!IInv'
    <2>1. CASE Ops!SpawnOp \/ Ops!SpawnOpUnref
      BY <2>1, SpawnInv DEF LoopInv
    <2>2. CASE UNCHANGED opVars
      BY <2>2, OpsKept DEF LoopInv
    <2> QED BY <2>1, <2>2 DEF CallTimerPending, CallOps, NextTick, CallCompile
  <1>3. UNCHANGED <<running, now, heap>>
    BY DEF CallTimerPending, CallOps, NextTick, CallCompile, timerVars, Timers!TimerPending
  <1>4. UNCHANGED channel
    BY DEF CallTimerPending, CallOps, NextTick, CallCompile, opVars, Ops!SpawnOp,
           Ops!SpawnOpUnref, Ops!Spawn
  <1>5. /\ Call /\ ticks' \in Nat /\ ticks' <= ticks + 1
        /\ v8' = v8 \/ (v8 = "none" /\ v8' = "background")
    BY DEF CallTimerPending, CallOps, NextTick, CallCompile, LoopInv, LoopTypes
  <1> QED BY <1>1, <1>2, <1>3, <1>4, <1>5, CallInv

-----------------------------------------------------------------------------
(* The turn.                                                               *)

LEMMA TopInv == ASSUME LoopInv, Top PROVE LoopInv'
  <1>1. /\ TP!IInv' /\ OP!IInv' /\ (Wakes' <=> Wakes) /\ (PhaseGoesOn' <=> PhaseGoesOn)
        /\ UNCHANGED <<now, clock, heap, running, channel>>
    BY QueuesKept DEF Top
  <1>2. /\ UNCHANGED <<last_ran, emitted, deadline, v8, ran, quiet, phase, ticks, rejected,
                       outside, calls>>
        /\ pc = "top" /\ ~progressed'
    BY DEF Top, TurnUnchanged
  <1>3. progressed' \in BOOLEAN
    BY Zenon DEF Top
  <1>4. \/ rejected /\ pc' = "exited" /\ frame' = "none" /\ site' = "none" /\ cdp' = cdp
        \/ ~rejected /\ ~Inspector /\ pc' = "turn" /\ frame' = "none" /\ site' = "none"
           /\ cdp' = cdp
        \/ ~rejected /\ Inspector /\ pc' \in {"js", "drain"} /\ frame' \in {"hook", "none"}
           /\ site' = "cdp" /\ cdp' = 0
    BY DEF Top, Break, GoTo, Run, Drain
  <1>5. Inspector' <=> Inspector
    BY <1>4 DEF Inspector, NoDebugger
  <1>6. LoopTypes'
    <2>1. pc' \in Steps /\ site' \in Sites /\ frame' \in Frames
      BY <1>4 DEF Steps, Sites, Frames
    <2>2. cdp' \in Nat \cup {NoDebugger} /\ (Inspector' => cdp' + outside' <= MaxOutside)
      BY <1>2, <1>4, <1>5 DEF LoopInv, LoopTypes
    <2> QED BY <1>2, <2>1, <2>2 DEF LoopInv, LoopTypes
  <1>7. Flags'
    BY <1>2, <1>3 DEF LoopInv, Flags
  <1>8. Places' /\ Rejecting'
    BY <1>1, <1>2, <1>4, <1>5 DEF LoopInv, Places, Rejecting, For
  <1>9. Latched' /\ Reset'
    BY <1>2, <1>4 DEF LoopInv, Latched, Reset, For
  <1>10. Quiet'
    BY <1>1, <1>2, <1>4 DEF LoopInv, Quiet, For
  <1>11. Phases'
    BY <1>1, <1>2, <1>4, <1>5 DEF LoopInv, Phases, For
  <1> QED BY <1>1, <1>6, <1>7, <1>8, <1>9, <1>10, <1>11 DEF LoopInv

LEMMA StartTurnInv == ASSUME LoopInv, StartTurn PROVE LoopInv'
  <1>1. /\ UNCHANGED <<clock, next_id, seq, heap, immediates, active, ref_count, pending, running,
                       check, opVars, turnVars, v8, cdp, ticks, rejected, outside, calls>>
        /\ pc = "turn" /\ now' = clock /\ pc' \in {"tickPoint", "tasks"} /\ site' = "none"
        /\ frame' = "none"
    BY DEF StartTurn, GoTo, TurnUnchanged
  <1>2. running = Timers!Idle
    BY <1>1 DEF LoopInv, Places, For
  <1>3. TP!IInv' /\ OP!IInv'
    BY <1>1, <1>2, TurnInv, OpsKept DEF LoopInv
  <1>4. /\ (Wakes' <=> Wakes) /\ (Inspector' <=> Inspector) /\ (PhaseGoesOn' <=> PhaseGoesOn)
        /\ UNCHANGED <<last_ran, progressed, emitted, deadline, ran, quiet, phase>>
    BY <1>1 DEF Wakes, opVars, turnVars, Inspector, PhaseGoesOn, First, Timers!LiveIn,
                Timers!Before
  <1>6. LoopTypes'
    <2>1. pc' \in Steps /\ site' \in Sites /\ frame' \in Frames
      BY <1>1 DEF Steps, Sites, Frames
    <2> QED BY <1>1, <1>4, <2>1 DEF LoopInv, LoopTypes
  <1>7. Flags'
    BY <1>1, <1>4 DEF LoopInv, Flags
  <1>8. Places' /\ Rejecting'
    BY <1>1, <1>2, <1>4 DEF LoopInv, Places, Rejecting, For
  <1>9. Latched' /\ Reset'
    BY <1>1, <1>4 DEF LoopInv, Latched, Reset, For
  <1>10. Quiet'
    BY <1>1, <1>4 DEF LoopInv, Quiet, For
  <1>11. Phases'
    <2>1. last_ran.began <= now'
      <3>1. last_ran.began \in Int /\ now \in Nat /\ clock \in Nat /\ now <= clock
        BY QueueFacts DEF LoopInv, LoopTypes, Never
      <3> QED BY <1>1, <3>1 DEF LoopInv, Phases
    <2> QED BY <1>1, <1>4, <2>1 DEF LoopInv, Phases, For
  <1> QED BY <1>3, <1>6, <1>7, <1>8, <1>9, <1>10, <1>11 DEF LoopInv

LEMMA PlatformTasksInv == ASSUME LoopInv, PlatformTasks PROVE LoopInv'
  <1>1. /\ TP!IInv' /\ OP!IInv' /\ (Wakes' <=> Wakes) /\ (PhaseGoesOn' <=> PhaseGoesOn)
        /\ UNCHANGED <<now, clock, heap, running, channel>>
    BY QueuesKept DEF PlatformTasks
  <1>2. /\ UNCHANGED <<last_ran, progressed, emitted, deadline, phase, ticks, rejected, outside,
                       calls, cdp>>
        /\ pc = "tasks" /\ (Inspector' <=> Inspector)
    BY DEF PlatformTasks, TurnUnchanged, Inspector
  <1>3. \/ rejected /\ pc' = "exited" /\ site' = "none" /\ frame' = "none"
           /\ UNCHANGED <<v8, ran, quiet>>
        \/ v8 = "ready" /\ pc' = "js" /\ site' = "task" /\ frame' = "hook"
           /\ v8' = "none" /\ ran' = TRUE /\ quiet' = FALSE
        \/ v8 # "ready" /\ ~rejected /\ pc' = "poll" /\ site' = "none" /\ frame' = "none"
           /\ UNCHANGED <<v8, ran, quiet>>
    BY DEF PlatformTasks, Break, GoTo, Run
  <1>4. ran' \in BOOLEAN /\ quiet' \in BOOLEAN
    <2>1. ran \in BOOLEAN /\ quiet \in BOOLEAN
      BY DEF LoopInv, Flags
    <2> QED BY <1>3, <2>1, Zenon
  <1>5. (quiet' => quiet) /\ (pc' = "js" => ~quiet') /\ (pc' # "js" => quiet' = quiet)
    BY <1>3
  <1>6. LoopTypes'
    <2>1. pc' \in Steps /\ site' \in Sites /\ frame' \in Frames
          /\ v8' \in {"none", "background", "ready"}
      BY <1>3 DEF Steps, Sites, Frames, LoopInv, LoopTypes
    <2> QED BY <1>2, <2>1 DEF LoopInv, LoopTypes
  <1>7. Flags'
    BY <1>2, <1>4 DEF LoopInv, Flags
  <1>8. Places' /\ Rejecting'
    BY <1>1, <1>2, <1>3 DEF LoopInv, Places, Rejecting, For
  <1>9. Latched' /\ Reset'
    BY <1>2, <1>3, <1>5 DEF LoopInv, Latched, Reset, For
  <1>10. Quiet'
    BY <1>1, <1>2, <1>3, <1>5 DEF LoopInv, Quiet, For
  <1>11. Phases'
    BY <1>1, <1>2, <1>3 DEF LoopInv, Phases, For
  <1> QED BY <1>1, <1>6, <1>7, <1>8, <1>9, <1>10, <1>11 DEF LoopInv

LEMMA RanTaskInv == ASSUME LoopInv, RanTask PROVE LoopInv'
  <1>1. /\ TP!IInv' /\ OP!IInv' /\ (Wakes' <=> Wakes)
        /\ UNCHANGED <<now, clock, heap, running, channel>>
    BY QueuesKept DEF RanTask
  <1>2. /\ UNCHANGED <<emitted, deadline, phase, ticks, rejected, outside, calls, cdp, v8, ran,
                       quiet>>
        /\ pc = "ranTask" /\ (Inspector' <=> Inspector) /\ last_ran' = Other /\ progressed'
    BY DEF RanTask, TurnUnchanged, Inspector
  <1>3. progressed' \in BOOLEAN
    BY Zenon DEF RanTask
  <1>4. /\ site' = "none" /\ frame' = "none"
        /\ (rejected /\ pc' = "exited") \/ (~rejected /\ pc' = "poll")
    BY DEF RanTask, PastTask, GoTo
  <1>5. last_ran' \in [kind : {"entry", "timer", "immediate", "other"}, began : Nat \cup {Never}]
        /\ last_ran'.kind = "other" /\ last_ran'.began = -1
    BY <1>2 DEF Other, Ran, Never
  <1>6. LoopTypes'
    <2>1. pc' \in Steps /\ site' \in Sites /\ frame' \in Frames
      BY <1>4 DEF Steps, Sites, Frames
    <2> QED BY <1>2, <1>5, <2>1 DEF LoopInv, LoopTypes
  <1>7. Flags'
    BY <1>2, <1>3 DEF LoopInv, Flags
  <1>8. Places' /\ Rejecting'
    BY <1>1, <1>2, <1>4 DEF LoopInv, Places, Rejecting, For
  <1>9. Latched' /\ Reset'
    BY <1>2, <1>4 DEF LoopInv, Latched, Reset, For
  <1>10. Quiet'
    BY <1>1, <1>2, <1>4 DEF LoopInv, Quiet, For
  <1>11. Phases'
    <2>1. last_ran'.began <= now'
      BY <1>1, <1>5, QueueFacts DEF LoopInv
    <2> QED BY <1>1, <1>2, <1>4, <1>5, <2>1 DEF LoopInv, Phases, For
  <1> QED BY <1>1, <1>6, <1>7, <1>8, <1>9, <1>10, <1>11 DEF LoopInv

-----------------------------------------------------------------------------
(* The looks and the waits.                                                *)

LEMMA LookKeeps ==
    ASSUME LoopInv, Look, UNCHANGED <<now, opVars>>
    PROVE  /\ TP!IInv' /\ OP!IInv'
           /\ last_ran' = last_ran => (PhaseGoesOn => PhaseGoesOn')
           /\ heap' \subseteq heap
           /\ UNCHANGED <<now, running, channel>>
  <1>1. /\ TP!IInv'
        /\ Timers!LiveIn(heap)' = Timers!LiveIn(heap)
        /\ Timers!LiveIn(immediates)' = Timers!LiveIn(immediates)
        /\ heap' \subseteq heap
    BY LookSkims DEF LoopInv
  <1>2. OP!IInv' /\ UNCHANGED <<now, running, channel, pending>>
    BY OpsKept DEF LoopInv, opVars, Look
  <1>3. ASSUME last_ran' = last_ran, PhaseGoesOn PROVE PhaseGoesOn'
    <2>1. PICK e \in heap : First(e) /\ e.at <= last_ran.began
      BY <1>3 DEF PhaseGoesOn
    <2>2. e \in Timers!LiveIn(heap)'
      BY <1>1, <2>1 DEF First
    <2>3. First(e)' /\ e \in heap'
      BY <1>1, <2>1, <2>2 DEF First, Timers!LiveIn, Timers!Before
    <2> QED BY <1>2, <1>3, <2>1, <2>3 DEF PhaseGoesOn
  <1> QED BY <1>1, <1>2, <1>3

(* The loop is idle or waits, and goes somewhere else with nothing run.    *)
LEMMA WaitGoesInv ==
    ASSUME LoopInv, pc \in {"idle", "slice", "waitOp", "waitTimer"},
           TP!IInv', OP!IInv', UNCHANGED <<now, running, channel>>,
           UNCHANGED <<last_ran, progressed, emitted, quiet, ran, v8, ticks, rejected, outside,
                       calls>>,
           \/ pc' \in {"slice", "waitOp", "waitTimer", "exited", "top"} /\ site' = "none"
           \/ pc' = "drain" /\ site' \in {"deferred", "stranded"}
           \/ pc' \in {"js", "drain"} /\ site' = "cdpwait" /\ Inspector,
           pc' = "slice" => v8 # "none", frame' \in Frames, deadline' \in Nat \cup {NoDeadline},
           phase' \in {phase, NoPhase}, cdp' = cdp \/ (Inspector /\ cdp' = 0)
    PROVE  LoopInv'
  <1>1. (Inspector' <=> Inspector) /\ (Wakes' <=> Wakes)
    BY DEF Inspector, Wakes, NoDebugger
  <1>2. LoopTypes'
    <2>1. pc' \in Steps /\ site' \in Sites
      BY DEF Steps, Sites
    <2>2. cdp' \in Nat \cup {NoDebugger} /\ (Inspector' => cdp' + outside' <= MaxOutside)
      BY <1>1 DEF LoopInv, LoopTypes
    <2>3. phase' \in Nat \cup {NoPhase}
      BY DEF LoopInv, LoopTypes
    <2> QED BY <2>1, <2>2, <2>3 DEF LoopInv, LoopTypes
  <1>3. Flags'
    BY DEF LoopInv, Flags
  <1>4. Places' /\ Rejecting'
    BY <1>1 DEF LoopInv, Places, Rejecting, For
  <1>5. Latched' /\ Reset'
    BY DEF LoopInv, Latched, Reset, For
  <1>6. Quiet'
    BY <1>1 DEF LoopInv, Quiet, For
  <1>7. Phases'
    <2>1. phase = NoPhase \/ Inspector
      BY DEF LoopInv, Phases, For
    <2> QED BY <1>1, <2>1 DEF LoopInv, Phases
  <1> QED BY <1>2, <1>3, <1>4, <1>5, <1>6, <1>7 DEF LoopInv

LEMMA DrainDeferredInv == ASSUME LoopInv, DrainDeferred PROVE LoopInv'
  <1>1. "none" \in Frames /\ deadline \in Nat \cup {NoDeadline}
    BY DEF Frames, LoopInv, LoopTypes
  <1> QED BY <1>1, WaitGoesInv, QueuesKept DEF DrainDeferred, Drain, turnVars, TurnUnchanged

LEMMA TimesOutInv == ASSUME LoopInv, TimesOut PROVE LoopInv'
  <1>1. "none" \in Frames
    BY DEF Frames
  <1> QED BY <1>1, WaitGoesInv, QueuesKept DEF TimesOut, GoTo, TurnUnchanged

LEMMA WaitDispatchesInv == ASSUME LoopInv, WaitDispatches PROVE LoopInv'
  <1>1. {"none", "hook"} \subseteq Frames /\ deadline \in Nat \cup {NoDeadline}
    BY DEF Frames, LoopInv, LoopTypes
  <1> QED BY <1>1, WaitGoesInv, QueuesKept
          DEF WaitDispatches, Run, Drain, turnVars, TurnUnchanged

LEMMA IdleGoesInv ==
    ASSUME LoopInv, DrainStranded \/ WaitForV8 \/ Exit \/ Wait
    PROVE  LoopInv'
  <1>1. /\ Look /\ UNCHANGED <<now, opVars>>
        /\ UNCHANGED <<last_ran, progressed, emitted, quiet, ran, v8, ticks, rejected, outside,
                       calls, phase, cdp>>
    BY DEF DrainStranded, WaitForV8, Exit, Wait, IdleUnchanged, TurnUnchanged
  <1>2. TP!IInv' /\ OP!IInv' /\ UNCHANGED <<now, running, channel>>
    BY <1>1, LookKeeps
  <1>3. /\ pc = "idle"
        /\ \/ pc' \in {"slice", "waitOp", "waitTimer", "exited", "top"} /\ site' = "none"
           \/ pc' = "drain" /\ site' \in {"deferred", "stranded"}
        /\ pc' = "slice" => v8 # "none"
        /\ frame' \in Frames
    BY DEF DrainStranded, WaitForV8, Exit, Wait, GoTo, Drain, Frames
  <1>4. deadline' \in Nat \cup {NoDeadline}
    <2>1. deadline \in Nat \cup {NoDeadline} /\ NextDeadline \in Nat \cup {NoDeadline}
      BY NextDeadlineIs DEF LoopInv, LoopTypes
    <2> QED BY <2>1 DEF DrainStranded, WaitForV8, Exit, Wait, Until
  <1> QED BY <1>1, <1>2, <1>3, <1>4, WaitGoesInv

LEMMA EmitBeforeExitInv == ASSUME LoopInv, EmitBeforeExit PROVE LoopInv'
  <1>1. /\ Look /\ UNCHANGED <<now, opVars>>
        /\ UNCHANGED <<last_ran, progressed, ran, v8, ticks, rejected, outside, calls, phase, cdp,
                       deadline>>
        /\ pc = "idle" /\ pc' = "js" /\ site' = "beforeExit" /\ frame' = "hook" /\ v8 = "none"
        /\ emitted' = TRUE /\ quiet' = TRUE
    BY DEF EmitBeforeExit, IdleUnchanged, TurnUnchanged, Run
  <1>2. /\ TP!IInv' /\ OP!IInv' /\ UNCHANGED <<now, running, channel>>
        /\ (Inspector' <=> Inspector) /\ (Wakes' <=> Wakes)
    BY <1>1, LookKeeps DEF Inspector, Wakes
  <1>3. emitted' \in BOOLEAN /\ quiet' \in BOOLEAN
    BY <1>1, Zenon
  <1>4. emitted' /\ quiet' /\ ~progressed /\ ~Wakes
    BY <1>1 DEF LoopInv, Quiet
  <1>5. LoopTypes'
    <2>1. pc' \in Steps /\ site' \in Sites /\ frame' \in Frames
      BY <1>1 DEF Steps, Sites, Frames
    <2> QED BY <1>1, <1>2, <2>1 DEF LoopInv, LoopTypes
  <1>6. Flags'
    BY <1>1, <1>3 DEF LoopInv, Flags
  <1>7. Places' /\ Rejecting'
    BY <1>1, <1>2 DEF LoopInv, Places, Rejecting, For
  <1>8. Latched' /\ Reset'
    BY <1>4 DEF Latched, Reset
  <1>9. Quiet'
    BY <1>1, <1>2, <1>4 DEF Quiet, For
  <1>10. Phases'
    <2>1. phase = NoPhase \/ Inspector
      BY <1>1 DEF LoopInv, Phases, For
    <2> QED BY <1>1, <1>2, <2>1 DEF LoopInv, Phases
  <1> QED BY <1>2, <1>5, <1>6, <1>7, <1>8, <1>9, <1>10 DEF LoopInv

(* Before the next callback.                                               *)
LEMMA TurnLooksInv ==
    ASSUME LoopInv, TickPoint \/ PopNothing
    PROVE  LoopInv'
  <1>1. /\ UNCHANGED <<opVars, now, last_ran, progressed, emitted, deadline, ran, quiet, phase, v8,
                       cdp, ticks, rejected, outside, calls>>
        /\ Look \/ UNCHANGED timerVars
    BY DEF TickPoint, PopNothing, turnVars, TurnUnchanged, timerVars
  <1>2. /\ TP!IInv' /\ OP!IInv' /\ UNCHANGED <<now, running, channel>>
        /\ (PhaseGoesOn => PhaseGoesOn') /\ heap' \subseteq heap
        /\ (Inspector' <=> Inspector) /\ (Wakes' <=> Wakes)
    <2>1. CASE Look
      BY <1>1, <2>1, LookKeeps DEF Inspector, Wakes
    <2>2. CASE UNCHANGED timerVars
      BY <1>1, <2>2, QueuesKept DEF Inspector, Wakes
    <2> QED BY <1>1, <2>1, <2>2
  <1>3. /\ frame' = "none"
        /\ \/ pc = "tickPoint" /\ pc' = "drain" /\ site' = "pre" /\ CheckPhaseFirst
           \/ pc = "tickPoint" /\ pc' = "pop" /\ site' = "none"
           \/ pc = "pop" /\ pc' = "tasks" /\ site' = "none"
    BY DEF TickPoint, PopNothing, Drain, GoTo
  <1>4. LoopTypes'
    <2>1. pc' \in Steps /\ site' \in Sites /\ frame' \in Frames
      BY <1>3 DEF Steps, Sites, Frames
    <2> QED BY <1>1, <1>2, <2>1 DEF LoopInv, LoopTypes
  <1>5. Flags'
    BY <1>1 DEF LoopInv, Flags
  <1>6. Places' /\ Rejecting'
    BY <1>1, <1>2, <1>3 DEF LoopInv, Places, Rejecting, For
  <1>7. Latched' /\ Reset'
    BY <1>1, <1>3 DEF LoopInv, Latched, Reset, For
  <1>8. Quiet'
    BY <1>1, <1>2, <1>3 DEF LoopInv, Quiet, For
  <1>9. Phases'
    <2>1. phase # NoPhase /\ ~Inspector => PhaseGoesOn /\ pc' # "drain"
      <3>1. phase # NoPhase /\ ~Inspector => PhaseGoesOn
        BY <1>3 DEF LoopInv, Phases, For
      <3> QED BY <1>3, <3>1, PhaseNoTicks DEF LoopInv
    <2> QED BY <1>1, <1>2, <1>3, <2>1 DEF LoopInv, Phases
  <1> QED BY <1>2, <1>4, <1>5, <1>6, <1>7, <1>8, <1>9 DEF LoopInv

(* callback_done.  The loop goes to its top without a poll only while the  *)
(* phase goes on.                                                          *)
LEMMA AfterCallbackInv == ASSUME LoopInv, AfterCallback PROVE LoopInv'
  <1>1. /\ UNCHANGED <<clock, now, next_id, seq, active, ref_count, pending, check, opVars,
                       last_ran, deadline, v8, cdp, ran, quiet, phase, ticks, rejected, outside,
                       calls>>
        /\ pc = "after" /\ running' = Timers!Idle /\ progressed' = TRUE
        /\ pc' = PastCallback /\ site' = "none" /\ frame' = "none"
        /\ heap' \in {heap, Timers!Skim(heap)}
        /\ immediates' \in {immediates, Timers!Skim(immediates)}
    BY DEF AfterCallback, TurnUnchanged, GoTo
  <1>2. /\ TP!IInv'
        /\ Timers!LiveIn(heap)' = Timers!LiveIn(heap)
        /\ Timers!LiveIn(immediates)' = Timers!LiveIn(immediates)
        /\ heap' \subseteq heap
    BY <1>1, SkimsOnly DEF LoopInv
  <1>3. OP!IInv' /\ (Wakes' <=> Wakes) /\ (Inspector' <=> Inspector)
    BY <1>1, OpsKept DEF LoopInv, opVars, Wakes, Inspector
  <1>4. \/ rejected /\ pc' = "exited"
        \/ ~rejected /\ pc' = "top" /\ PhaseGoesOn
        \/ ~rejected /\ pc' = "tasks"
    <2>1. SamePhaseDue => PhaseGoesOn
      BY SamePhaseGoesOn DEF LoopInv
    <2> QED BY <1>1, <2>1 DEF PastCallback
  <1>5. PhaseGoesOn => PhaseGoesOn'
    <2>1. SUFFICES ASSUME PhaseGoesOn PROVE PhaseGoesOn'
      OBVIOUS
    <2>2. PICK e \in heap : First(e) /\ e.at <= last_ran.began
      BY <2>1 DEF PhaseGoesOn
    <2>3. e \in Timers!LiveIn(heap)'
      BY <1>2, <2>2 DEF First
    <2>4. First(e)' /\ e \in heap'
      BY <1>2, <2>2, <2>3 DEF First, Timers!LiveIn, Timers!Before
    <2> QED BY <1>1, <2>1, <2>2, <2>4 DEF PhaseGoesOn
  <1>6. progressed' \in BOOLEAN /\ emitted' \in BOOLEAN
    BY Zenon DEF AfterCallback
  <1>7. /\ progressed' /\ ~quiet'
        /\ emitted' => pc' # "top"
    <2>1. progressed' /\ ~quiet'
      BY <1>1 DEF LoopInv, Quiet
    <2>2. emitted' => pc' # "top"
      BY <1>1, Zenon DEF AfterCallback
    <2> QED BY <2>1, <2>2
  <1>8. LoopTypes'
    <2>1. pc' \in Steps /\ site' \in Sites /\ frame' \in Frames
      BY <1>1, <1>4 DEF Steps, Sites, Frames
    <2> QED BY <1>1, <1>3, <2>1 DEF LoopInv, LoopTypes
  <1>9. Flags'
    BY <1>1, <1>6 DEF LoopInv, Flags
  <1>10. Places' /\ Rejecting'
    BY <1>1, <1>3, <1>4 DEF LoopInv, Places, Rejecting, For
  <1>11. Latched' /\ Reset'
    BY <1>4, <1>7 DEF Latched, Reset
  <1>12. Quiet'
    BY <1>4, <1>7 DEF Quiet
  <1>13. Phases'
    BY <1>1, <1>2, <1>3, <1>4, <1>5 DEF LoopInv, Phases
  <1> QED BY <1>2, <1>3, <1>8, <1>9, <1>10, <1>11, <1>12, <1>13 DEF LoopInv

(* The poll finds nothing.                                                 *)
LEMMA PollNothingInv == ASSUME LoopInv, Poll, channel = << >> PROVE LoopInv'
  <1>1. /\ UNCHANGED <<timerVars, opVars>>
        /\ UNCHANGED <<last_ran, ran, quiet, progressed, deadline, v8, cdp, ticks, rejected,
                       outside, calls>>
        /\ pc = "poll" /\ phase' = NoPhase /\ site' = "none" /\ frame' = "none"
        /\ \/ progressed /\ pc' = "top" /\ ~emitted'
           \/ ~progressed /\ pc' = "idle" /\ (emitted' <=> emitted)
    BY DEF Poll, GoTo, TurnUnchanged
  <1>2. /\ TP!IInv' /\ OP!IInv' /\ (Wakes' <=> Wakes)
        /\ UNCHANGED <<now, clock, heap, running, channel>>
    BY <1>1, QueuesKept
  <1>3. (Inspector' <=> Inspector) /\ ~Wakes
    BY <1>1 DEF Inspector, Wakes
  <1>4. emitted' \in BOOLEAN
    BY Zenon DEF Poll
  <1>5. LoopTypes'
    <2>1. pc' \in Steps /\ site' \in Sites /\ frame' \in Frames
      BY <1>1 DEF Steps, Sites, Frames
    <2> QED BY <1>1, <1>3, <2>1 DEF LoopInv, LoopTypes
  <1>6. Flags'
    BY <1>1, <1>4 DEF LoopInv, Flags
  <1>7. Places' /\ Rejecting'
    BY <1>1, <1>2, <1>3 DEF LoopInv, Places, Rejecting, For
  <1>8. Latched' /\ Reset'
    BY <1>1 DEF LoopInv, Latched, Reset, Quiet, For
  <1>9. Quiet'
    BY <1>1, <1>2, <1>3 DEF LoopInv, Quiet, For
  <1>10. Phases'
    BY <1>1, <1>2 DEF LoopInv, Phases
  <1> QED BY <1>2, <1>5, <1>6, <1>7, <1>8, <1>9, <1>10 DEF LoopInv

(* A completion is settled: from the poll, from a wait, from a slice.      *)
LEMMA SettleForInv ==
    ASSUME LoopInv, NEW s \in {"poll", "wait", "slice"}, SettleFor(s), channel # << >>,
           s = "poll" => pc = "poll" /\ ~emitted' /\ emitted' \in BOOLEAN,
           s = "wait" => pc \in {"waitOp", "waitTimer"} /\ ~emitted' /\ emitted' \in BOOLEAN,
           s = "slice" => pc = "slice" /\ UNCHANGED emitted,
           phase' = NoPhase, last_ran' = last_ran \/ last_ran' = Other,
           deadline' = deadline \/ deadline' = NoDeadline,
           UNCHANGED <<timerVars, progressed, v8, cdp, ticks, rejected, outside, calls>>
    PROVE  LoopInv'
  <1>1. TP!IInv' /\ OP!IInv' /\ UNCHANGED <<now, running, heap>>
    BY TimersKept, SettlesInv DEF LoopInv, SettleFor, timerVars
  <1>2. (Inspector' <=> Inspector) /\ (rejected => Inspector)
    BY DEF Inspector, LoopInv, Rejecting
  <1>3. PICK id \in 0 .. OpIdMax :
          /\ id = channel[1] /\ channel' = Tail(channel)
          /\ site' = s /\ pc' \in {"js", "drain"} /\ frame' \in {"none", "hook", "body"}
          /\ quiet' = (quiet /\ id = OpIdMax)
          /\ ran' = (ran \/ id # OpIdMax)
    <2>1. channel \in Seq(0 .. OpIdMax)
      BY OpFacts DEF LoopInv
    <2>2. Head(channel) \in 0 .. OpIdMax /\ Head(channel) = channel[1]
      BY <2>1
    <2>3. channel' = Tail(channel)
      BY DEF SettleFor, Ops!Settle
    <2> QED BY <2>2, <2>3 DEF SettleFor, Run, Drain, Ops!PLATFORM_TASK_OP_ID
  <1>4. quiet' \in BOOLEAN /\ ran' \in BOOLEAN
    BY <1>3, Zenon
  <1>5. (quiet' => quiet /\ id = OpIdMax) /\ (Wakes' => Wakes) /\ (quiet' => Wakes)
    <2>1. channel \in Seq(0 .. OpIdMax) /\ Len(channel) \in Nat /\ Len(channel) > 0
      BY OpFacts DEF LoopInv
    <2>2. /\ Len(Tail(channel)) = Len(channel) - 1
          /\ \A i \in 1 .. Len(channel) - 1 : Tail(channel)[i] = channel[i + 1]
      BY <2>1
    <2>3. quiet' => quiet /\ id = OpIdMax
      BY <1>3
    <2> QED BY <1>3, <2>1, <2>2, <2>3 DEF Wakes
  <1>6. LoopTypes'
    <2>1. pc' \in Steps /\ site' \in Sites /\ frame' \in Frames
      BY <1>3 DEF Steps, Sites, Frames
    <2>2. /\ last_ran' \in [kind : {"entry", "timer", "immediate", "other"},
                            began : Nat \cup {Never}]
          /\ deadline' \in Nat \cup {NoDeadline}
      BY DEF LoopInv, LoopTypes, Other, Ran
    <2> QED BY <1>2, <2>1, <2>2 DEF LoopInv, LoopTypes
  <1>7. Flags'
    BY <1>4 DEF LoopInv, Flags
  <1>8. Places' /\ Rejecting'
    BY <1>1, <1>2, <1>3 DEF LoopInv, Places, Rejecting, For
  <1>9. quiet' => v8 = "ready"
    BY <1>5 DEF LoopInv, Quiet
  <1>10. Latched' /\ Reset'
    BY <1>3, <1>5, <1>9 DEF LoopInv, Latched, Reset, Quiet, For
  <1>11. Quiet'
    BY <1>3, <1>5, <1>9 DEF LoopInv, Quiet, For
  <1>12. Phases'
    <2>1. last_ran'.began <= now
      BY QueueFacts DEF LoopInv, Phases, Other, Ran, Never
    <2> QED BY <1>1, <2>1 DEF Phases
  <1> QED BY <1>1, <1>6, <1>7, <1>8, <1>10, <1>11, <1>12 DEF LoopInv

LEMMA PollInv == ASSUME LoopInv, Poll PROVE LoopInv'
  <1>1. CASE channel # << >>
    <2>1. emitted' \in BOOLEAN
      BY <1>1, Zenon DEF Poll
    <2> QED BY <1>1, <2>1, SettleForInv DEF Poll, TurnUnchanged
  <1> QED BY <1>1, PollNothingInv

LEMMA WaitSettlesInv == ASSUME LoopInv, WaitSettles \/ SliceSettles PROVE LoopInv'
  <1>1. CASE WaitSettles
    <2>1. emitted' \in BOOLEAN
      BY <1>1, Zenon DEF WaitSettles
    <2> QED BY <1>1, <2>1, SettleForInv DEF WaitSettles, WaitEnds, Received, TurnUnchanged
  <1>2. CASE SliceSettles
    BY <1>2, SettleForInv DEF SliceSettles, WaitEnds, Received, TurnUnchanged
  <1> QED BY <1>1, <1>2

(* What pop_due leaves: an interval is re-armed past the turn's time.      *)
LEMMA PopDueLeaves ==
    ASSUME TP!IInv, Timers!PopDue
    PROVE  /\ running'.kind \in {"timer", "immediate", "none"}
           /\ now' = now
           /\ \A e \in heap' : e \in heap \/ (e.at \in Nat /\ e.at > now)
  <1>1. CASE Timers!PopDuePending
    BY <1>1 DEF Timers!PopDuePending, Timers!Skim, Timers!Idle
  <1>2. ASSUME NEW e \in immediates, Timers!PopDueImmediate(e)
        PROVE  /\ running'.kind = "immediate" /\ now' = now
               /\ heap' \subseteq heap
    BY <1>2 DEF Timers!PopDueImmediate, Timers!PopImmediate, Timers!Skim
  <1>3. ASSUME NEW e \in heap, Timers!PopDueTimer(e)
        PROVE  /\ running'.kind = "timer" /\ now' = now
               /\ \A f \in heap' : f \in heap \/ (f.at \in Nat /\ f.at > now)
    <2>1. running'.kind = "timer" /\ now' = now
      BY <1>3 DEF Timers!PopDueTimer, Timers!PopTimer
    <2>2. e.id \in DOMAIN active
      BY <1>3 DEF Timers!PopDueTimer, Timers!IsFront, Timers!LiveIn
    <2>3. active[e.id].interval = Timers!NoInterval
            \/ (active[e.id].interval \in Nat /\ active[e.id].interval >= Ms)
      BY <2>2 DEF TP!IInv, TP!QueueInv, TP!QueueType, TP!Timer, TP!LongEnough, TP!NoInterval,
            Timers!NoInterval
    <2>4. ASSUME NEW f \in heap', f \notin heap PROVE f.at \in Nat /\ f.at > now
      <3>1. /\ f.at = now + active[e.id].interval
            /\ active[e.id].interval # Timers!NoInterval
        BY <1>3, <2>4 DEF Timers!PopDueTimer, Timers!PopTimer, Timers!Skim
      <3>2. now \in Nat
        BY QueueFacts
      <3> QED BY <2>3, <3>1, <3>2
    <2> QED BY <2>1, <2>4
  <1> QED BY <1>1, <1>2, <1>3 DEF Timers!PopDue

LEMMA PopRunsInv == ASSUME LoopInv, PopRuns PROVE LoopInv'
  <1>1. /\ pc = "pop" /\ Timers!PopDue /\ last_ran' = Popped(running'.kind)
        /\ phase' = IF running'.kind = "timer" /\ phase = NoPhase THEN seq ELSE phase
        /\ pc' = "js" /\ site' = "timer" /\ frame' = "body"
        /\ ran' = TRUE /\ quiet' = FALSE
        /\ UNCHANGED <<opVars, progressed, emitted, deadline, v8, cdp, ticks, rejected, outside,
                       calls>>
    BY DEF PopRuns, Run, TurnUnchanged
  <1>2. /\ running'.kind \in {"timer", "immediate", "none"} /\ now' = now
        /\ \A e \in heap' : e \in heap \/ (e.at \in Nat /\ e.at > now)
    BY <1>1, PopDueLeaves DEF LoopInv
  <1>3. TP!IInv' /\ OP!IInv' /\ (Inspector' <=> Inspector)
    BY <1>1, PopDueInv, OpsKept DEF LoopInv, Inspector
  <1>4. ran' \in BOOLEAN /\ quiet' \in BOOLEAN
    BY <1>1, Zenon
  <1>5. ~quiet'
    BY <1>1
  <1>6. /\ now \in Nat /\ seq \in Nat /\ last_ran.began \in Int /\ last_ran.began <= now
        /\ \A e \in heap : e.seq \in Nat /\ e.seq <= seq
    BY QueueFacts DEF LoopInv, LoopTypes, Phases, Never
  <1>7. \/ last_ran' = last_ran
        \/ /\ last_ran' \in [kind : {"timer", "immediate", "other"}, began : Nat \cup {Never}]
           /\ last_ran'.began \in {now, Never}
    BY <1>1, <1>2, <1>6 DEF Popped, Other, Ran
  <1>8. LoopTypes'
    <2>1. pc' \in Steps /\ site' \in Sites /\ frame' \in Frames
      BY <1>1 DEF Steps, Sites, Frames
    <2>2. last_ran' \in [kind : {"entry", "timer", "immediate", "other"},
                         began : Nat \cup {Never}]
      BY <1>7 DEF LoopInv, LoopTypes
    <2>3. phase' \in Nat \cup {NoPhase}
      BY <1>1, <1>6 DEF LoopInv, LoopTypes
    <2> QED BY <1>1, <1>3, <2>1, <2>2, <2>3 DEF LoopInv, LoopTypes
  <1>9. Flags'
    BY <1>1, <1>4 DEF LoopInv, Flags
  <1>10. Places' /\ Rejecting'
    BY <1>1 DEF Places, Rejecting, For
  <1>11. Latched' /\ Reset'
    BY <1>1, <1>5 DEF Latched, Reset, For
  <1>12. Quiet'
    BY <1>1, <1>5 DEF Quiet, For
  <1>13. Phases'
    <2>1. last_ran'.began \in Int /\ last_ran'.began <= now'
      BY <1>2, <1>6, <1>7 DEF Never
    <2>2. ASSUME phase' # NoPhase, ~Inspector, last_ran'.kind = "timer", NEW e \in heap',
                 e.seq > phase'
          PROVE  e.at > last_ran'.began
      <3>1. CASE e \notin heap
        BY <1>2, <1>6, <2>1, <2>2, <3>1
      <3>2. CASE e \in heap /\ phase = NoPhase
        BY <1>1, <1>6, <2>2, <3>2
      <3>3. CASE e \in heap /\ phase # NoPhase
        <4>1. PhaseGoesOn
          BY <1>1, <2>2, <3>3 DEF LoopInv, Phases, For
        <4>2. PICK f \in heap : Timers!PopDueTimer(f) /\ f.at <= last_ran.began
          BY <1>1, <4>1, PhasePops DEF LoopInv
        <4>3. running'.kind = "timer" /\ running'.deadline = f.at
          BY <4>2 DEF Timers!PopDueTimer, Timers!PopTimer
        <4>4. last_ran' = last_ran /\ phase' = phase
          BY <1>1, <3>3, <4>1, <4>2, <4>3 DEF Popped, PhaseGoesOn
        <4> QED BY <2>2, <3>3, <4>1, <4>4 DEF LoopInv, Phases, PhaseGoesOn
      <3> QED BY <3>1, <3>2, <3>3
    <2> QED BY <1>1, <1>3, <2>1, <2>2 DEF Phases, For
  <1> QED BY <1>3, <1>8, <1>9, <1>10, <1>11, <1>12, <1>13 DEF LoopInv

-----------------------------------------------------------------------------
(* Everyone else.                                                          *)

LEMMA EnvironmentInv == ASSUME LoopInv, Environment PROVE LoopInv'
  <1>1. /\ UNCHANGED <<pc, site, frame, ticks, turnVars, rejected, calls>>
        /\ UNCHANGED <<last_ran, progressed, emitted, deadline, ran, quiet, phase>>
        /\ pc \notin {"exited", "failed"}
    BY DEF Environment, OpCompletes, Signal, V8Posts, DebuggerSends, ClockTicks, loopVars,
           turnVars, Ended
  <1>2. /\ TP!IInv' /\ UNCHANGED <<now, heap, immediates, active, pending, running>>
        /\ (PhaseGoesOn' <=> PhaseGoesOn)
    <2>1. TP!IInv'
      <3>1. CASE UNCHANGED timerVars
        BY <3>1, TimersKept DEF LoopInv
      <3>2. CASE Timers!Tick
        BY <3>2, TickInv DEF LoopInv
      <3> QED BY <3>1, <3>2 DEF Environment, OpCompletes, Signal, V8Posts, DebuggerSends, ClockTicks
    <2>2. UNCHANGED <<now, heap, immediates, active, pending, running>>
      BY DEF Environment, OpCompletes, Signal, V8Posts, DebuggerSends, ClockTicks, timerVars,
             Timers!Tick
    <2> QED BY <1>1, <2>1, <2>2 DEF PhaseGoesOn, First, Timers!LiveIn, Timers!Before
  <1>3. OP!IInv' /\ (Wakes' => Wakes \/ v8' = "ready")
    <2>1. ASSUME NEW id, channel' = Append(channel, id), id # OpIdMax
          PROVE  Wakes' => Wakes
      <3>1. channel \in Seq(0 .. OpIdMax) /\ Len(channel) \in Nat
        BY OpFacts DEF LoopInv
      <3>2. /\ Len(channel') = Len(channel) + 1
            /\ \A i \in 1 .. Len(channel) : channel'[i] = channel[i]
            /\ channel'[Len(channel) + 1] = id
        BY <2>1, <3>1
      <3> QED BY <2>1, <3>1, <3>2 DEF Wakes
    <2>2. CASE OpCompletes
      <3>1. PICK id \in op_running : Ops!Complete(id)
        BY <2>2 DEF OpCompletes
      <3>2. OP!IInv' /\ id # OpIdMax
        BY <3>1, CompletesInv, OpFacts DEF LoopInv
      <3> QED BY <2>1, <3>1, <3>2 DEF Ops!Complete
    <2>3. CASE Signal
      <3>1. OP!IInv' /\ channel' = Append(channel, 0)
        BY <2>3, SentinelInv DEF LoopInv, Signal, Ops!SendSentinel, Ops!SIGNAL_OP_ID
      <3> QED BY <2>1, <3>1
    <2>4. CASE V8Posts
      BY <2>4, SentinelInv DEF LoopInv, V8Posts, Ops!PLATFORM_TASK_OP_ID
    <2>5. CASE UNCHANGED opVars
      BY <2>5, OpsKept DEF LoopInv, opVars, Wakes
    <2> QED BY <2>2, <2>3, <2>4, <2>5 DEF Environment, DebuggerSends, ClockTicks
  <1>4. v8' = v8 \/ (v8 = "background" /\ v8' = "ready")
    BY DEF Environment, OpCompletes, Signal, V8Posts, DebuggerSends, ClockTicks, loopVars
  <1>5. /\ cdp' \in Nat \cup {NoDebugger} /\ outside' \in Nat /\ outside' <= MaxOutside
        /\ Inspector' => cdp' + outside' <= MaxOutside
        /\ Inspector' <=> Inspector
    <2>1. /\ cdp \in Nat \cup {NoDebugger} /\ outside \in Nat /\ outside <= MaxOutside
          /\ Inspector => cdp + outside <= MaxOutside
      BY DEF LoopInv, LoopTypes
    <2>2. \/ UNCHANGED <<cdp, outside>>
          \/ outside > 0 /\ outside' = outside - 1 /\ UNCHANGED cdp
          \/ outside > 0 /\ outside' = outside - 1 /\ Inspector /\ cdp' = cdp + 1
      BY DEF Environment, OpCompletes, Signal, V8Posts, DebuggerSends, ClockTicks, loopVars
    <2> QED BY <2>1, <2>2 DEF Inspector, NoDebugger
  <1>6. LoopTypes'
    <2>1. v8' \in {"none", "background", "ready"}
      BY <1>4 DEF LoopInv, LoopTypes
    <2> QED BY <1>1, <1>5, <2>1 DEF LoopInv, LoopTypes
  <1>7. Flags'
    BY <1>1 DEF LoopInv, Flags
  <1>8. Places' /\ Rejecting'
    BY <1>1, <1>2, <1>5 DEF LoopInv, Places, Rejecting, For
  <1>9. Latched' /\ Reset'
    BY <1>1, <1>4 DEF LoopInv, Latched, Reset, For
  <1>10. Quiet'
    BY <1>1, <1>3, <1>4 DEF LoopInv, Quiet, For
  <1>11. Phases'
    BY <1>1, <1>2, <1>5 DEF LoopInv, Phases, For
  <1> QED BY <1>2, <1>3, <1>6, <1>7, <1>8, <1>9, <1>10, <1>11 DEF LoopInv

LEMMA StutterInv == ASSUME LoopInv, UNCHANGED vars PROVE LoopInv'
  <1>1. /\ UNCHANGED <<timerVars, opVars>>
        /\ UNCHANGED <<pc, site, frame, ticks, last_ran, progressed, emitted, deadline, rejected,
                       v8, cdp, outside, calls, ran, quiet, phase>>
    BY DEF vars, loopVars
  <1>2. /\ TP!IInv' /\ OP!IInv' /\ (Wakes' <=> Wakes) /\ (PhaseGoesOn' <=> PhaseGoesOn)
        /\ UNCHANGED <<now, clock, heap, running, channel>>
    BY <1>1, QueuesKept
  <1>3. (Inspector' <=> Inspector) /\ \A S : For(S)' <=> For(S)
    BY <1>1 DEF Inspector, For
  <1> QED BY <1>1, <1>2, <1>3 DEF LoopInv, LoopTypes, Flags, Places, Rejecting, Latched, Reset,
             Quiet, Phases

LEMMA InitInv == Init => LoopInv
  <1> SUFFICES ASSUME Init PROVE LoopInv
    OBVIOUS
  <1>1. TP!IInv
    <2>1. TP!Init
      BY DEF Init, Timers!Init, TP!Init, Timers!Idle, TP!Idle
    <2> QED BY <2>1, TP!InitInv
  <1>2. OP!IInv
    <2>1. OP!OpsInit
      BY DEF Init, Ops!OpsInit, OP!OpsInit, Ops!EmptyMap, OP!EmptyMap
    <2> QED BY <2>1, OP!InitInv
  <1>3. /\ progressed \in BOOLEAN /\ emitted \in BOOLEAN /\ rejected \in BOOLEAN
        /\ ran \in BOOLEAN /\ quiet \in BOOLEAN
    BY Zenon DEF Init
  <1>4. /\ pc = "js" /\ site = "entry" /\ frame = "hook" /\ ticks = 0
        /\ last_ran = Ran("entry", Never) /\ deadline = NoDeadline /\ v8 = "none"
        /\ outside = MaxOutside /\ phase = NoPhase
        /\ ~progressed /\ ~emitted /\ ~rejected /\ ~ran /\ ~quiet
        /\ running = Timers!Idle /\ channel = << >> /\ now = 0
    BY DEF Init, Timers!Init, Ops!OpsInit
  <1>5. cdp \in {0, NoDebugger} /\ calls \in Nat /\ calls <= MaxCalls
    BY DEF Init
  <1>6. LoopTypes
    <2>1. pc \in Steps /\ site \in Sites /\ frame \in Frames
      BY <1>4 DEF Steps, Sites, Frames
    <2>2. /\ cdp \in Nat \cup {NoDebugger} /\ outside \in Nat /\ outside <= MaxOutside
          /\ Inspector => cdp + outside <= MaxOutside
      BY <1>4, <1>5 DEF Inspector
    <2>3. ticks \in Nat /\ ticks + calls <= MaxCalls
      BY <1>4, <1>5
    <2>4. last_ran \in [kind : {"entry", "timer", "immediate", "other"},
                        began : Nat \cup {Never}]
      BY <1>4 DEF Ran
    <2> QED BY <1>4, <1>5, <2>1, <2>2, <2>3, <2>4 DEF LoopTypes
  <1>7. Flags /\ Places /\ Rejecting /\ Latched /\ Reset
    BY <1>3, <1>4 DEF Flags, Places, Rejecting, Latched, Reset, For
  <1>8. Quiet /\ Phases
    BY <1>4 DEF Quiet, Phases, Wakes, For, Ran, Never
  <1> QED BY <1>1, <1>2, <1>6, <1>7, <1>8 DEF LoopInv

LEMMA NextInv == LoopInv /\ [Next]_vars => LoopInv'
  <1> SUFFICES ASSUME LoopInv, [Next]_vars PROVE LoopInv'
    OBVIOUS
  <1>1. CASE JavaScript
    BY <1>1, CallTimersInv, CallsElseInv, ReturnInv, ThrowHandledInv, ThrowFatalInv,
       RejectEntryInv DEF JavaScript
  <1>2. CASE DrainStep \/ Top \/ StartTurn \/ TickPoint \/ PopRuns \/ PopNothing
               \/ AfterCallback \/ PlatformTasks \/ RanTask \/ Poll
    BY <1>2, DrainStepInv, TopInv, StartTurnInv, TurnLooksInv, PopRunsInv, AfterCallbackInv,
       PlatformTasksInv, RanTaskInv, PollInv
  <1>3. CASE DrainDeferred \/ DrainStranded \/ WaitForV8 \/ EmitBeforeExit \/ Exit \/ Wait
               \/ WaitSettles \/ SliceSettles \/ TimesOut \/ WaitDispatches
    BY <1>3, DrainDeferredInv, IdleGoesInv, EmitBeforeExitInv, WaitSettlesInv, TimesOutInv,
       WaitDispatchesInv
  <1>4. CASE Environment
    BY <1>4, EnvironmentInv
  <1>5. CASE UNCHANGED vars
    BY <1>5, StutterInv
  <1> QED BY <1>1, <1>2, <1>3, <1>4, <1>5 DEF Next, Loop

-----------------------------------------------------------------------------
(* The loop's state has its types: pc and site are among the loop's, and   *)
(* no counter passes its bound.                                            *)
THEOREM LoopTypeCorrect == Spec => []TypeOK
  <1>1. LoopInv => TypeOK
    <2> SUFFICES ASSUME LoopInv PROVE TypeOK
      OBVIOUS
    <2>1. Timers!TypeOK /\ Ops!OpsTypeOK
      BY QueueFacts, OpFacts DEF LoopInv
    <2>2. LoopTypes /\ Flags
      BY DEF LoopInv
    <2>3. ticks \in 0 .. MaxCalls /\ calls \in 0 .. MaxCalls
      BY <2>2 DEF LoopTypes
    <2>4. outside \in 0 .. MaxOutside /\ cdp \in {NoDebugger} \cup (0 .. MaxOutside)
      BY <2>2 DEF LoopTypes, Inspector
    <2> QED BY <2>1, <2>2, <2>3, <2>4 DEF TypeOK, LoopTypes, Flags
  <1> QED BY <1>1, InitInv, NextInv, PTL DEF Spec

(* Without a debugger the loop neither polls nor waits with an entry that  *)
(* has rejected and not been reported.                                     *)
THEOREM RejectionReported == Spec => []RejectionStopsPolling
  <1>1. LoopInv => RejectionStopsPolling
    BY DEF LoopInv, Rejecting, RejectionStopsPolling
  <1> QED BY <1>1, InitInv, NextInv, PTL DEF Spec

(* The counters are zero only with nothing to count.                       *)
LEMMA NothingAlive ==
    ASSUME LoopInv
    PROVE  /\ ~(ref_count > 0) <=> Timers!refs(active) = {}
           /\ ~has_inflight <=> Ops!Live \subseteq unref_ops
  <1>1. \A S : IsFiniteSet(S) => (~(Cardinality(S) > 0) <=> S = {})
    BY FS_CardinalityType, FS_EmptySet
  <1>2. ~(ref_count > 0) <=> Timers!refs(active) = {}
    <2>1. DOMAIN active \subseteq 1 .. IdMax
      BY QueueFacts DEF LoopInv, Timers!TypeOK, Timers!Ids
    <2>2. IsFiniteSet(Timers!refs(active))
      <3>1. IsFiniteSet(1 .. IdMax)
        BY FS_Interval
      <3>2. Timers!refs(active) \subseteq 1 .. IdMax
        BY <2>1 DEF Timers!refs
      <3> QED BY <3>1, <3>2, FS_Subset
    <2>3. ref_count = Cardinality(Timers!refs(active))
      BY QueueFacts, SameCounts DEF LoopInv, Timers!RefCountExact
    <2> QED BY <1>1, <2>2, <2>3
  <1>3. ~has_inflight <=> Ops!Live \subseteq unref_ops
    <2>1. Ops!Live \ unref_ops \subseteq 0 .. OpIdMax
      <3>1. channel \in Seq(0 .. OpIdMax) /\ op_running \subseteq 1 .. OpIdMax - 1
        BY OpFacts DEF LoopInv
      <3>2. \A i \in 1 .. Len(channel) : channel[i] \in 0 .. OpIdMax
        BY <3>1
      <3>3. Ops!Queued \subseteq 0 .. OpIdMax
        BY <3>2 DEF Ops!Queued
      <3>4. op_running \subseteq 0 .. OpIdMax
        BY <3>1
      <3> QED BY <3>3, <3>4 DEF Ops!Live
    <2>2. IsFiniteSet(Ops!Live \ unref_ops)
      <3>1. IsFiniteSet(0 .. OpIdMax)
        BY FS_Interval
      <3> QED BY <2>1, <3>1, FS_Subset
    <2>3. inflight = Cardinality(Ops!Live \ unref_ops)
      BY OpFacts, SameCounts DEF LoopInv, Ops!InflightExact
    <2>4. ~has_inflight <=> Ops!Live \ unref_ops = {}
      BY <1>1, <2>2, <2>3 DEF has_inflight, Ops!has_inflight
    <2> QED BY <2>4
  <1> QED BY <1>2, <1>3

(* A ref'd timer always has a time the loop can wait for ...               *)
LEMMA RefdHasDeadline ==
    ASSUME LoopInv, has_ref_timers
    PROVE  NextDeadline # NoDeadline
  <1>1. SUFFICES ASSUME NextDeadline = NoDeadline PROVE FALSE
    OBVIOUS
  <1>2. pending = << >> /\ Timers!LiveIn(heap) \cup Timers!LiveIn(immediates) = {}
    BY <1>1, NextDeadlineIs DEF LoopInv
  <1>3. Timers!refs(active) # {}
    BY <1>2, NothingAlive DEF has_ref_timers, Timers!has_ref_timers
  <1>4. PICK i \in DOMAIN active : TRUE
    BY <1>3 DEF Timers!refs
  <1>5. PICK e \in heap \cup immediates : e.id = i
    BY <1>4, QueueFacts DEF LoopInv, Timers!NoTimerLost
  <1> QED BY <1>2, <1>4, <1>5 DEF Timers!LiveIn

(* ... so the loop ends by itself in one way.                              *)
LEMMA ExitsWhenDrained ==
    ASSUME LoopInv, [Next]_vars, Exits
    PROVE  /\ pc = "idle" /\ ticks = 0 /\ v8 = "none" /\ emitted
           /\ ~has_ref_timers /\ ~has_inflight
  <1>1. pc # "exited" /\ pc' = "exited" /\ ~rejected
    BY DEF Exits
  <1>2. Exit
    <2>1. pc \in {"js", "drain"} => After # "exited"
      BY AfterIs
    <2>2. ~JavaScript
      BY <1>1, <2>1 DEF JavaScript, CallTimers, CallTimerPending, CallOps, NextTick, CallCompile,
            Call, Return, ThrowHandled, ThrowFatal, RejectEntry, Resume, Drain, GoTo, Run, InJs
    <2>3. ~(DrainStep \/ Top \/ StartTurn \/ TickPoint \/ PopRuns \/ PopNothing
               \/ AfterCallback \/ PlatformTasks \/ RanTask)
      BY <1>1, <2>1 DEF DrainStep, Top, StartTurn, TickPoint, PopRuns, PopNothing, AfterCallback,
            PlatformTasks, RanTask, PastCallback, PastTask, Drain, GoTo, Run, Break
    <2>4. ~(Poll \/ DrainDeferred \/ DrainStranded \/ WaitForV8 \/ EmitBeforeExit \/ Wait
               \/ WaitSettles \/ SliceSettles \/ TimesOut \/ WaitDispatches)
      BY <1>1 DEF Poll, DrainDeferred, DrainStranded, WaitForV8, EmitBeforeExit, Wait,
            WaitSettles, SliceSettles, WaitEnds, SettleFor, TimesOut, WaitDispatches, Drain, GoTo,
            Run
    <2>5. ~Environment /\ ~UNCHANGED vars
      BY <1>1 DEF Environment, OpCompletes, Signal, V8Posts, DebuggerSends, ClockTicks, loopVars,
            vars
    <2> QED BY <2>2, <2>3, <2>4, <2>5 DEF Next, Loop
  <1>3. ~(has_ref_timers /\ NextDeadline = NoDeadline)
    BY RefdHasDeadline
  <1>4. ticks \in Nat
    BY DEF LoopInv, LoopTypes
  <1> QED BY <1>2, <1>3, <1>4 DEF Exit, HasTicks, Alive

(* The loop ends by itself only with no ref'd timer, no pending callback,  *)
(* no referenced op, no tick and no task of V8's left.                     *)
THEOREM LoopExitsDrained == Spec => ExitsDrained
  <1>1. ASSUME LoopInv, [Next]_vars, Exits
        PROVE  /\ Timers!refs(active) = {} /\ pending = << >>
               /\ Ops!Live \subseteq unref_ops
               /\ ticks = 0
               /\ v8 = "none"
    BY <1>1, ExitsWhenDrained, NothingAlive DEF has_ref_timers, Timers!has_ref_timers
  <1>2. LoopInv /\ [Next]_vars =>
          [Exits => /\ Timers!refs(active) = {} /\ pending = << >>
                    /\ Ops!Live \subseteq unref_ops
                    /\ ticks = 0
                    /\ v8 = "none"]_vars
    BY <1>1
  <1> QED BY <1>2, InitInv, NextInv, PTL DEF Spec, ExitsDrained

(* beforeExit is emitted once per drain: not again until something has run *)
(* since, and never left out.                                              *)
THEOREM BeforeExitOnce == Spec => BeforeExitOncePerDrain
  <1>1. ASSUME LoopInv, [Next]_vars, pc = "idle", pc' = "js" PROVE ~quiet
    <2>1. EmitBeforeExit
      <3>1. ~JavaScript
        BY <1>1 DEF JavaScript, CallTimers, CallTimerPending, CallOps, NextTick, CallCompile,
              Call, Return, ThrowHandled, ThrowFatal, RejectEntry, InJs
      <3>2. ~(DrainStep \/ Top \/ StartTurn \/ TickPoint \/ PopRuns \/ PopNothing
                 \/ AfterCallback \/ PlatformTasks \/ RanTask \/ Poll)
        BY <1>1 DEF DrainStep, Top, StartTurn, TickPoint, PopRuns, PopNothing, AfterCallback,
              PlatformTasks, RanTask, Poll
      <3>3. ~(DrainDeferred \/ DrainStranded \/ WaitForV8 \/ Exit \/ Wait
                 \/ WaitSettles \/ SliceSettles \/ TimesOut \/ WaitDispatches)
        BY <1>1 DEF DrainDeferred, DrainStranded, WaitForV8, Exit, Wait, WaitSettles,
              SliceSettles, WaitEnds, TimesOut, WaitDispatches, Drain, GoTo
      <3>4. ~Environment /\ ~UNCHANGED vars
        BY <1>1 DEF Environment, OpCompletes, Signal, V8Posts, DebuggerSends, ClockTicks,
              loopVars, vars
      <3> QED BY <1>1, <3>1, <3>2, <3>3, <3>4 DEF Next, Loop
    <2> QED BY <1>1, <2>1 DEF EmitBeforeExit, LoopInv, Reset, For
  <1>2. ASSUME LoopInv, [Next]_vars, Exits PROVE quiet
    BY <1>2, ExitsWhenDrained DEF LoopInv, Latched, For
  <1>3. LoopInv /\ [Next]_vars =>
          [/\ (pc = "idle" /\ pc' = "js" => ~quiet)
           /\ (Exits => quiet)]_vars
    BY <1>1, <1>2
  <1> QED BY <1>3, InitInv, NextInv, PTL DEF Spec, BeforeExitOncePerDrain

(* Without a debugger, between two polls only the timers run that were set *)
(* before the first of them ran: the timers cannot starve the ops.         *)
THEOREM TimersDoNotStarve == Spec => PollNotStarved
  <1>1. ASSUME LoopInv, [Next]_vars, pc = "pop", pc' = "js", phase # NoPhase, ~Inspector
        PROVE  \E e \in heap : Timers!RanTimer(e) /\ e.seq <= phase
    <2>1. PopRuns
      <3>1. ~JavaScript
        BY <1>1 DEF JavaScript, CallTimers, CallTimerPending, CallOps, NextTick, CallCompile,
              Call, Return, ThrowHandled, ThrowFatal, RejectEntry, InJs
      <3>2. ~(DrainStep \/ Top \/ StartTurn \/ TickPoint \/ PopNothing
                 \/ AfterCallback \/ PlatformTasks \/ RanTask \/ Poll)
        BY <1>1 DEF DrainStep, Top, StartTurn, TickPoint, PopNothing, AfterCallback,
              PlatformTasks, RanTask, Poll, GoTo
      <3>3. ~(DrainDeferred \/ DrainStranded \/ WaitForV8 \/ EmitBeforeExit \/ Exit \/ Wait
                 \/ WaitSettles \/ SliceSettles \/ TimesOut \/ WaitDispatches)
        BY <1>1 DEF DrainDeferred, DrainStranded, WaitForV8, EmitBeforeExit, Exit, Wait,
              WaitSettles, SliceSettles, WaitEnds, TimesOut, WaitDispatches
      <3>4. ~Environment /\ ~UNCHANGED vars
        BY <1>1 DEF Environment, OpCompletes, Signal, V8Posts, DebuggerSends, ClockTicks,
              loopVars, vars
      <3> QED BY <1>1, <3>1, <3>2, <3>3, <3>4 DEF Next, Loop
    <2>2. PhaseGoesOn
      BY <1>1 DEF LoopInv, Phases, For
    <2>3. PICK e \in heap : e.at <= last_ran.began /\ Timers!RanTimer(e)
      BY <1>1, <2>1, <2>2, PhasePops DEF LoopInv, PopRuns
    <2>4. ~(e.seq > phase)
      <3>1. e.at \in Nat /\ last_ran.began \in Int
        BY <1>1, QueueFacts DEF LoopInv, LoopTypes, Never
      <3> QED BY <1>1, <2>2, <2>3, <3>1 DEF LoopInv, Phases, PhaseGoesOn
    <2>5. e.seq \in Nat /\ phase \in Nat
      BY <1>1, QueueFacts DEF LoopInv, LoopTypes
    <2> QED BY <2>3, <2>4, <2>5
  <1>2. LoopInv /\ [Next]_vars =>
          [pc = "pop" /\ pc' = "js" /\ phase # NoPhase /\ ~Inspector =>
             \E e \in heap : Timers!RanTimer(e) /\ e.seq <= phase]_vars
    BY <1>1
  <1> QED BY <1>2, InitInv, NextInv, PTL DEF Spec, PollNotStarved

-----------------------------------------------------------------------------
(* What the components promise by themselves they keep under the loop,     *)
(* which skims a queue in the step that ends a callback and lets V8 send   *)
(* wakes without a bound: the counters the loop decides by are exact, no   *)
(* live timer is lost, and the promises that wait are those of live ops.   *)
THEOREM LoopKeepsCounts ==
    Spec => [](/\ Timers!RefCountExact /\ Timers!NoTimerLost
               /\ Ops!InflightExact /\ Ops!ParkedIsLive)
  <1>1. LoopInv => /\ Timers!RefCountExact /\ Timers!NoTimerLost
                   /\ Ops!InflightExact /\ Ops!ParkedIsLive
    <2> SUFFICES ASSUME LoopInv
                 PROVE  /\ Timers!RefCountExact /\ Timers!NoTimerLost
                        /\ Ops!InflightExact /\ Ops!ParkedIsLive
      OBVIOUS
    <2>1. Ops!ParkedIsLive
      BY DEF LoopInv, OP!IInv, OP!ParkedIsLive, Ops!ParkedIsLive, Ops!Live, OP!Live, Ops!Queued,
             OP!Queued, Ops!Sentinels, OP!Sentinels, Ops!SIGNAL_OP_ID, OP!SIGNAL_OP_ID,
             Ops!PLATFORM_TASK_OP_ID, OP!PLATFORM_TASK_OP_ID
    <2> QED BY <2>1, QueueFacts, OpFacts DEF LoopInv
  <1> QED BY <1>1, InitInv, NextInv, PTL DEF Spec

(* Only the loop's pop starts a timer's or an immediate's callback.        *)
LEMMA CallbackIsPopped ==
    ASSUME LoopInv, [Next]_vars, running = Timers!Idle, running'.kind # "none"
    PROVE  Timers!PopDue
  <1>1. running' # running /\ running' # Timers!Idle
    BY DEF Timers!Idle
  <1>2. ~UNCHANGED timerVars /\ ~Look
    BY <1>1 DEF timerVars, Look
  <1>3. ~JavaScript
    BY <1>1, <1>2 DEF JavaScript, CallTimers, CallTimerPending, CallOps, NextTick, CallCompile,
       Return, ThrowHandled, ThrowFatal, RejectEntry, JsUnchanged, Timers!Schedule,
       Timers!ScheduleImmediate, Timers!Cancel, Timers!SetRef, Timers!TimerPending
  <1>4. ~(DrainStep \/ Top \/ StartTurn \/ TickPoint \/ PopNothing \/ AfterCallback
            \/ PlatformTasks \/ RanTask \/ Poll)
    BY <1>1, <1>2 DEF DrainStep, JsUnchanged, Top, StartTurn, TickPoint, PopNothing,
       AfterCallback, PlatformTasks, RanTask, Poll
  <1>5. ~(DrainDeferred \/ DrainStranded \/ WaitForV8 \/ EmitBeforeExit \/ Exit \/ Wait
            \/ WaitSettles \/ SliceSettles \/ TimesOut \/ WaitDispatches)
    BY <1>2 DEF DrainDeferred, DrainStranded, WaitForV8, EmitBeforeExit, Exit, Wait, WaitSettles,
       SliceSettles, WaitEnds, TimesOut, WaitDispatches
  <1>6. ~Environment /\ ~UNCHANGED vars
    BY <1>1, <1>2 DEF Environment, OpCompletes, Signal, V8Posts, DebuggerSends, ClockTicks,
       Timers!Tick, vars
  <1> QED BY <1>3, <1>4, <1>5, <1>6 DEF Next, Loop, PopRuns

(* The queues' own steps, for what runs under the loop.                    *)
LEMMA CallbackIsTimers ==
    ASSUME LoopInv, [Next]_vars, running = Timers!Idle, running'.kind # "none"
    PROVE  TP!Next
  <1>1. TP!PopDuePending \/ (\E e \in heap : TP!PopDueTimer(e))
          \/ (\E e \in immediates : TP!PopDueImmediate(e))
    BY CallbackIsPopped, PopDueBridge DEF Timers!PopDue, LoopInv
  <1> QED BY <1>1 DEF TP!Next, TP!PopDue

LEMMA RanBridge ==
    \A e : /\ Timers!RanTimer(e) => /\ TP!RanTimer(e) /\ running = Timers!Idle
                                    /\ running'.kind # "none"
           /\ Timers!RanImmediate(e) => /\ TP!RanImmediate(e) /\ running = Timers!Idle
                                        /\ running'.kind # "none"
  BY DEF Timers!RanTimer, TP!RanTimer, Timers!RanImmediate, TP!RanImmediate, Timers!LiveIn,
         TP!LiveIn, Timers!Idle, TP!Idle

(* Under the loop, whose turn reads the clock once, no timer runs before   *)
(* its deadline.                                                           *)
THEOREM LoopNeverEarly == Spec => Timers!TimersNeverEarly
  <1>1. ASSUME LoopInv, [Next]_vars, NEW e \in heap, Timers!RanTimer(e) PROVE e.at <= clock
    <2>1. TP!IInv /\ TP!Next /\ TP!RanTimer(e)
      BY <1>1, RanBridge, CallbackIsTimers DEF LoopInv
    <2> QED BY <2>1, TP!RanIsDue
  <1>2. LoopInv /\ [Next]_vars =>
          [\A e \in heap : Timers!RanTimer(e) => e.at <= clock]_(Timers!vars)
    BY <1>1
  <1> QED BY <1>2, InitInv, NextInv, PTL DEF Spec, Timers!TimersNeverEarly

(* Under the loop a pending callback of the main script, of I/O or of a    *)
(* timer is not overtaken by what was set after it.                        *)
THEOREM LoopNotOvertaken == Spec => Timers!PendingNotOvertaken
  <1>1. ASSUME LoopInv, [Next]_vars, pending # << >>, Head(pending).from # "immediates",
               NEW e \in heap \cup immediates, Timers!RanTimer(e) \/ Timers!RanImmediate(e)
        PROVE  e.seq <= Head(pending).born
    <2>1. TP!IInv /\ TP!Next /\ (TP!RanTimer(e) \/ TP!RanImmediate(e))
      BY <1>1, RanBridge, CallbackIsTimers DEF LoopInv
    <2> QED BY <1>1, <2>1, TP!RanIsOlder
  <1>2. LoopInv /\ [Next]_vars =>
          [pending # << >> /\ Head(pending).from # "immediates" =>
             \A e \in heap \cup immediates :
                Timers!RanTimer(e) \/ Timers!RanImmediate(e) =>
                    e.seq <= Head(pending).born]_(Timers!vars)
    BY <1>1
  <1> QED BY <1>2, InitInv, NextInv, PTL DEF Spec, Timers!PendingNotOvertaken

-----------------------------------------------------------------------------
(* The loop implements NodeTimers: JavaScript's calls, the clock and       *)
(* pop_due are the queue's own steps, and everything else looks at the     *)
(* fronts, starts a turn, ends a callback or leaves the queues alone.      *)

LEMMA LookNode ==
    ASSUME heap' \in {heap, Timers!Skim(heap)},
           immediates' \in {immediates, Timers!Skim(immediates)},
           running' = running \/ running' = Timers!Idle,
           UNCHANGED <<clock, now, next_id, seq, active, ref_count, pending>>
    PROVE  TP!NodeSteps
  <1>1. /\ Timers!Skim(heap) = TP!Skim(heap) /\ Timers!Skim(immediates) = TP!Skim(immediates)
        /\ Timers!Idle = TP!Idle
    BY DEF Timers!Skim, TP!Skim, Timers!LiveIn, TP!LiveIn, Timers!Before, TP!Before,
           Timers!Idle, TP!Idle
  <1>2. TP!Skims
    BY <1>1 DEF TP!Skims, TP!Skim, TP!LiveIn
  <1> QED BY <1>1, <1>2, TP!LooksNode

LEMMA CallNode ==
    ASSUME TP!IInv, seq' <= IdMax, CallTimers \/ CallTimerPending
    PROVE  TP!NodeSteps
  <1>1. CASE CallTimers
    <2>1. PICK id \in TP!Ids :
             \/ \E ms \in Delays, repeating \in BOOLEAN : TP!Schedule(ms, repeating, id)
             \/ TP!ScheduleImmediate(id)
             \/ TP!Cancel(id)
             \/ TP!SetRef(id, FALSE)
      BY <1>1, CallsBridge DEF CallTimers
    <2> QED BY <2>1, TP!ScheduleNode, TP!ScheduleImmediateNode, TP!CancelNode, TP!SetRefNode
  <1>2. CASE CallTimerPending
    BY <1>2, TimerPendingBridge, TP!TimerPendingNode DEF CallTimerPending
  <1> QED BY <1>1, <1>2

LEMMA PopNode ==
    ASSUME TP!IInv, seq' <= IdMax, Timers!PopDue
    PROVE  TP!NodeSteps
  <1>1. TP!PopDuePending \/ (\E e \in heap : TP!PopDueTimer(e))
          \/ (\E e \in immediates : TP!PopDueImmediate(e))
    BY PopDueBridge DEF Timers!PopDue
  <1> QED BY <1>1, TP!PopDuePendingNode, TP!PopDueTimerNode, TP!PopDueImmediateNode

LEMMA LoopStepsNode == ASSUME LoopInv, [Next]_vars, seq' <= IdMax PROVE TP!NodeSteps
  <1>1. UNCHANGED timerVars => TP!NodeSteps
    BY LookNode DEF timerVars
  <1>2. Look /\ UNCHANGED now => TP!NodeSteps
    BY LookNode DEF Look
  <1>3. CASE JavaScript
    BY <1>1, <1>3, CallNode DEF LoopInv, JavaScript, CallOps, NextTick, CallCompile, Return,
       ThrowHandled, ThrowFatal, RejectEntry, JsUnchanged
  <1>4. CASE StartTurn
    <2>1. running = TP!Idle
      BY <1>4 DEF StartTurn, LoopInv, Places, For, Timers!Idle, TP!Idle
    <2>2. TP!Skims
      BY <1>4 DEF StartTurn, TP!Skims, TP!LiveIn
    <2> QED BY <1>4, <2>1, <2>2, TP!StartsNode DEF StartTurn
  <1>5. CASE AfterCallback
    BY <1>5, LookNode DEF AfterCallback
  <1>6. CASE PopRuns
    BY <1>6, PopNode DEF PopRuns, LoopInv
  <1>7. CASE DrainStep \/ Top \/ TickPoint \/ PopNothing \/ PlatformTasks \/ RanTask \/ Poll
    BY <1>1, <1>2, <1>7 DEF DrainStep, JsUnchanged, Top, TickPoint, PopNothing, PlatformTasks,
       RanTask, Poll
  <1>8. CASE DrainDeferred \/ DrainStranded \/ WaitForV8 \/ EmitBeforeExit \/ Exit \/ Wait
               \/ WaitSettles \/ SliceSettles \/ TimesOut \/ WaitDispatches
    BY <1>1, <1>2, <1>8 DEF DrainDeferred, DrainStranded, WaitForV8, EmitBeforeExit, Exit, Wait,
       IdleUnchanged, WaitSettles, SliceSettles, WaitEnds, TimesOut, WaitDispatches
  <1>9. CASE Environment
    <2>1. CASE ClockTicks
      BY <2>1, TickBridge, TP!TickNode DEF ClockTicks, LoopInv
    <2> QED BY <1>1, <1>9, <2>1 DEF Environment, OpCompletes, Signal, V8Posts, DebuggerSends
  <1>10. CASE UNCHANGED vars
    BY <1>1, <1>10 DEF vars
  <1> QED BY <1>3, <1>4, <1>5, <1>6, <1>7, <1>8, <1>9, <1>10 DEF Next, Loop

(* The whole loop, whatever JavaScript, the ops, V8 and the debugger do,   *)
(* keeps what NodeTimers promises of the timers: the formula is            *)
(* TimerQueue's BehavesAsNode, of the loop's own variables.                *)
THEOREM LoopImplementsNode == Spec => TP!BehavesAsNode
  <1>1. Init => TP!Node!Init
    <2>1. Init => TP!Init
      BY DEF Init, Timers!Init, TP!Init, Timers!Idle, TP!Idle
    <2> QED BY <2>1, TP!InitNode
  <1>2. LoopInv /\ [Next]_vars => (seq' <= IdMax => TP!NodeSteps)
    BY LoopStepsNode
  <1>3. LoopInv => TP!IInv
    BY DEF LoopInv
  <1>4. LoopInv' => TP!IInv'
    BY DEF LoopInv
  <1>5. LoopInv /\ LoopInv' /\ [Next]_vars => [seq' <= IdMax => TP!Node!Next]_(TP!Node!vars)
    BY <1>2, <1>3, <1>4, TP!NodeFollows
  <1> QED BY <1>1, <1>5, InitInv, NextInv, PTL DEF Spec, TP!BehavesAsNode

-----------------------------------------------------------------------------
(* The loop implements AsyncOps: only JavaScript's calls, the completions, *)
(* the wakes and the loop's own settlements touch the ops.                 *)

LEMMA OpsKeptPromised == ASSUME UNCHANGED opVars PROVE OP!PromisedSteps
  BY DEF opVars, OP!PromisedSteps, OP!Counting, OP!Filed, OP!Unrefd

LEMMA CallOpsPromised == ASSUME OP!IInv, CallOps PROVE OP!PromisedSteps
  <1>1. ASSUME NEW counts \in BOOLEAN, Ops!Spawn(counts), UNCHANGED <<handles, op_handles>>
        PROVE  OP!PromisedSteps
    BY <1>1, OP!SpawnPlainPromised DEF Ops!Spawn, OP!Spawn
  <1> QED BY <1>1 DEF CallOps, Ops!SpawnOp, Ops!SpawnOpUnref

LEMMA EnvironmentPromised == ASSUME Environment PROVE OP!PromisedSteps
  <1>1. ASSUME NEW id \in op_running, Ops!Complete(id) PROVE OP!PromisedSteps
    BY <1>1, OP!CompletePromised DEF Ops!Complete, OP!Complete
  <1>2. ASSUME NEW id \in {0, OpIdMax}, channel' = Append(channel, id),
               UNCHANGED <<op_next_id, op_running, inflight, unref_ops, handles, op_handles,
                           parked>>
        PROVE  OP!PromisedSteps
    BY <1>2, OP!SentinelPromised DEF OP!Sentinels, OP!SIGNAL_OP_ID, OP!PLATFORM_TASK_OP_ID
  <1>3. CASE OpCompletes
    BY <1>1, <1>3 DEF OpCompletes
  <1>4. CASE Signal
    BY <1>2, <1>4 DEF Signal, Ops!SendSentinel, Ops!SIGNAL_OP_ID
  <1>5. CASE V8Posts
    BY <1>2, <1>5 DEF V8Posts, Ops!PLATFORM_TASK_OP_ID
  <1> QED BY <1>3, <1>4, <1>5, OpsKeptPromised DEF Environment, DebuggerSends, ClockTicks

LEMMA LoopStepsPromised == ASSUME LoopInv, [Next]_vars PROVE OP!PromisedSteps
  <1>1. Ops!Settle => OP!PromisedSteps
    BY SettleBridge, OP!SettlePromised DEF LoopInv
  <1>2. CASE JavaScript
    BY <1>2, CallOpsPromised, OpsKeptPromised
       DEF LoopInv, JavaScript, CallTimers, CallTimerPending, NextTick, CallCompile, Return,
           ThrowHandled, ThrowFatal, RejectEntry, JsUnchanged
  <1>3. CASE Poll
    BY <1>1, <1>3, OpsKeptPromised DEF Poll, SettleFor
  <1>4. CASE WaitSettles \/ SliceSettles
    BY <1>1, <1>4 DEF WaitSettles, SliceSettles, WaitEnds, SettleFor
  <1>5. CASE DrainStep \/ Top \/ StartTurn \/ TickPoint \/ PopRuns \/ PopNothing \/ AfterCallback
               \/ PlatformTasks \/ RanTask
    BY <1>5, OpsKeptPromised DEF DrainStep, JsUnchanged, Top, StartTurn, TickPoint, PopRuns,
       PopNothing, AfterCallback, PlatformTasks, RanTask
  <1>6. CASE DrainDeferred \/ DrainStranded \/ WaitForV8 \/ EmitBeforeExit \/ Exit \/ Wait
               \/ TimesOut \/ WaitDispatches
    BY <1>6, OpsKeptPromised DEF DrainDeferred, DrainStranded, WaitForV8, EmitBeforeExit, Exit,
       Wait, IdleUnchanged, TimesOut, WaitDispatches
  <1>7. CASE UNCHANGED vars
    BY <1>7, OpsKeptPromised DEF vars
  <1> QED BY <1>2, <1>3, <1>4, <1>5, <1>6, <1>7, EnvironmentPromised DEF Next, Loop

(* The whole loop keeps what AsyncOps promises: each op it issues, from    *)
(* whatever callback, is settled once, at a poll or in a wait, and the     *)
(* has_inflight() it decides by is whether a promise that counts waits.    *)
(* The formula is OpRuntime's BehavesAsPromised, of the loop's variables.  *)
THEOREM LoopImplementsPromised == Spec => OP!BehavesAsPromised
  <1>1. Init => OP!Promised!Init
    <2>1. Init => OP!OpsInit
      BY DEF Init, Ops!OpsInit, OP!OpsInit, Ops!EmptyMap, OP!EmptyMap
    <2> QED BY <2>1, OP!InitPromised
  <1>2. LoopInv /\ [Next]_vars => OP!PromisedSteps
    BY LoopStepsPromised
  <1>3. LoopInv => OP!IInv
    BY DEF LoopInv
  <1>4. LoopInv' => OP!IInv'
    BY DEF LoopInv
  <1>5. LoopInv /\ LoopInv' /\ [Next]_vars => [OP!Promised!Next]_(OP!Promised!vars)
    BY <1>2, <1>3, <1>4, OP!PromisedFollows
  <1> QED BY <1>1, <1>5, InitInv, NextInv, PTL
          DEF Spec, OP!BehavesAsPromised, OP!Promised!Spec
=============================================================================
