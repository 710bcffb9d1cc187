----------------------------- MODULE EventLoop -----------------------------
(***************************************************************************)
(* pump_event_loop (crates/oam_engine/src/modules.rs): one turn after      *)
(* another over the timers (TimerQueue), the ops (OpRuntime), V8's         *)
(* foreground tasks, the nextTick queue and the debugger's commands, until *)
(* nothing is left that keeps the process alive.                           *)
(*                                                                         *)
(* The isolate thread is a program with a counter, pc.  While it runs      *)
(* JavaScript (pc = "js") the user's code makes any of the calls of the    *)
(* two components; tokio, the OS, V8's background threads, the debugger    *)
(* and the clock move at any time.  site says on whose behalf JavaScript   *)
(* or the tick queue runs, and so where the loop goes on.                  *)
(***************************************************************************)
EXTENDS Integers, Sequences, FiniteSets

CONSTANTS
    Inspectors,  \* whether oam runs with --inspect: FALSE, TRUE or both
    MaxCalls,    \* bound: calls JavaScript makes in a run (less one with
                 \* a debugger, whose commands are calls too)
    MaxOutside,  \* bound: signals and debugger commands in a run
    HandleKey, OpIdMax, MaxSentinels,
    IdMax, Ms, PurgeAt, Delays, MaxClock, MaxSeq, MaxPending

(* The last two are TimerQueue's and OpRuntime's own.                      *)
ASSUME EventLoopAssumption ==
    /\ Inspectors \subseteq BOOLEAN
    /\ MaxCalls \in Nat /\ MaxCalls > 0 /\ MaxOutside \in Nat
    /\ /\ IdMax \in Nat /\ IdMax > 0 /\ Ms \in Nat /\ Ms > 0
       /\ PurgeAt \in Nat /\ Delays \subseteq Nat /\ MaxPending \in Nat
    /\ OpIdMax \in Nat /\ OpIdMax > 1

VARIABLES
    clock, now, next_id, seq, heap, immediates, active, ref_count, pending,
    running, check,
    op_next_id, op_running, channel, inflight, unref_ops, handles,
    op_handles, parked,
    pc,          \* where the loop is
    site,        \* what JavaScript, or the tick queue, runs for
    frame,       \* what JavaScript runs, one of Frames
    ticks,       \* process.nextTick callbacks queued
    last_ran,    \* LastRan
    progressed,  \* this turn ran something
    emitted,     \* before_exit_emitted
    deadline,    \* until when the loop waits
    rejected,    \* the entry's promise is rejected
    v8,          \* an asynchronous compile: "none", "background", "ready"
    cdp,         \* debugger commands not dispatched, or NoDebugger
    outside,     \* signals and debugger commands still to come
    calls,       \* calls JavaScript has left
    ran,         \* history: the loop has run a callback
    quiet,       \* history: nothing ran since the last beforeExit
    phase        \* history: seq when this timers phase ran its first timer

timerVars == <<clock, now, next_id, seq, heap, immediates, active, ref_count,
               pending, running, check>>
opVars == <<op_next_id, op_running, channel, inflight, unref_ops, handles,
            op_handles, parked>>
turnVars == <<last_ran, progressed, emitted, deadline, ran, quiet, phase>>
loopVars == <<pc, site, frame, ticks, last_ran, progressed, emitted, deadline,
              rejected, v8, cdp, outside, calls, ran, quiet, phase>>
vars == <<timerVars, opVars, loopVars>>

Timers == INSTANCE TimerQueue
Ops == INSTANCE OpRuntime

-----------------------------------------------------------------------------
(* LastRan: what ran last, and for a timer or an immediate when its phase  *)
(* began.                                                                  *)
Never == -1
Ran(kind, began) == [kind |-> kind, began |-> began]
Other == Ran("other", Never)

NoDeadline == -1
NoPhase == -1
NoDebugger == -1
Inspector == cdp # NoDebugger

has_ref_timers == Timers!has_ref_timers
has_inflight == Ops!has_inflight
\* A bug: ops do not keep the process alive.
AliveForTimers == has_ref_timers

Alive == has_ref_timers \/ has_inflight
HasTicks == ticks > 0

Ended == pc \in {"exited", "failed"}

Sites == {"entry", "timer", "pre", "task", "poll", "deferred", "stranded",
          "slice", "wait", "beforeExit", "cdp", "cdpwait", "none"}
Steps == {"js", "drain", "top", "turn", "tickPoint", "pop", "after", "tasks",
          "ranTask", "poll", "idle", "slice", "waitOp", "waitTimer",
          "exited", "failed"}

(* A callback; code whose throw does not keep the ticks from draining; a   *)
(* tick; promise jobs; the jobs after a throw that left no tick queued.    *)
Frames == {"body", "hook", "tick", "jobs", "lastJobs", "none"}

(* peek_due: the kind of callback that is next, and its time.              *)
Fronts == {e \in Timers!LiveIn(heap) \cup Timers!LiveIn(immediates) : e.at <= now}
PeekDue ==
    IF pending # << >> THEN [kind |-> "pending", at |-> Never]
    ELSE IF Fronts = {} THEN [kind |-> "none", at |-> Never]
    ELSE LET e == CHOOSE e \in Fronts :
                     \A f \in Fronts : f = e \/ Timers!Before(e, f)
         IN  [kind |-> IF e \in heap THEN "timer" ELSE "immediate", at |-> e.at]

(* next_deadline: a past instant while a pending callback waits.           *)
NextDeadline ==
    LET live == Timers!LiveIn(heap) \cup Timers!LiveIn(immediates) IN
    IF pending # << >> THEN 0
    ELSE IF live = {} THEN NoDeadline
    ELSE (CHOOSE e \in live : \A f \in live : f = e \/ Timers!Before(e, f)).at

(* peek_due and next_deadline discard the dead entries they find in front. *)
Look ==
    /\ heap' = IF pending = << >> THEN Timers!Skim(heap) ELSE heap
    /\ immediates' = IF pending = << >> THEN Timers!Skim(immediates)
                                        ELSE immediates
    /\ UNCHANGED <<clock, next_id, seq, active, ref_count, pending, running,
                   check>>

Init ==
    /\ Timers!Init
    /\ Ops!OpsInit
    /\ pc = "js" /\ site = "entry" /\ frame = "hook"
    /\ ticks = 0
    /\ last_ran = Ran("entry", Never)
    /\ progressed = FALSE
    /\ emitted = FALSE
    /\ deadline = NoDeadline
    /\ rejected = FALSE
    /\ v8 = "none"
    /\ cdp \in {IF i THEN 0 ELSE NoDebugger : i \in Inspectors}
    /\ outside = MaxOutside
    /\ calls = IF Inspector THEN MaxCalls - 1 ELSE MaxCalls
    /\ ran = FALSE
    /\ quiet = FALSE
    /\ phase = NoPhase

-----------------------------------------------------------------------------
(* Where the loop goes on when what runs for a site is over.  drain is     *)
(* run_ticks_and_microtasks.                                               *)

Run(f, s) == pc' = "js" /\ frame' = f /\ site' = s
Drain(s) == pc' = "drain" /\ frame' = "none" /\ site' = s
GoTo(p) == pc' = p /\ frame' = "none" /\ site' = "none"

After ==
    CASE site = "timer"   -> "after"
      [] site = "pre"     -> "pop"
      [] site = "task"    -> "ranTask"
      [] site = "cdp"     -> "turn"
      [] site = "cdpwait" -> "waitTimer"
      [] OTHER            -> "top"

(* A drain ends.  drain_deferred_ticks goes on while there are ticks.      *)
Resume ==
    IF site \in {"pre", "deferred"} /\ HasTicks /\ ~rejected
    THEN Drain(site) ELSE GoTo(After)

-----------------------------------------------------------------------------
(* JavaScript.                                                             *)

InJs == pc = "js"

Call ==
    /\ InJs /\ calls > 0
    /\ calls' = calls - 1
    /\ UNCHANGED <<pc, site, frame, turnVars, rejected, cdp, outside>>

CallTimers ==
    /\ Call
    /\ \E id \in 1 .. IdMax :
          \/ \E ms \in Delays, repeating \in BOOLEAN :
                Timers!Schedule(ms, repeating, id)
          \/ Timers!ScheduleImmediate(id)
          \/ Timers!Cancel(id)
          \/ Timers!SetRef(id, FALSE)
    /\ UNCHANGED <<opVars, ticks, v8>>

CallTimerPending ==
    /\ Call
    /\ Timers!TimerPending
    /\ UNCHANGED <<opVars, ticks, v8>>

CallOps ==
    /\ Call
    /\ Ops!SpawnOp \/ Ops!SpawnOpUnref
    /\ UNCHANGED <<timerVars, ticks, v8>>

NextTick ==
    /\ Call
    /\ ticks' = ticks + 1
    /\ UNCHANGED <<timerVars, opVars, v8>>

(* WebAssembly.compile: V8 works on it in the background.                  *)
CallCompile ==
    /\ Call
    /\ v8 = "none"
    /\ v8' = "background"
    /\ UNCHANGED <<timerVars, opVars, ticks>>

JsUnchanged == UNCHANGED <<timerVars, opVars, turnVars, v8, cdp, outside, calls>>

Return ==
    /\ InJs
    /\ IF frame = "lastJobs" \/ (frame = "jobs" /\ (~HasTicks \/ rejected))
       THEN Resume ELSE Drain(site)
    /\ UNCHANGED <<ticks, rejected>>
    /\ JsUnchanged

(* A throw that an uncaughtException listener takes.  What a callback      *)
(* queued stays queued.  A tick's throw ends the drain, with a checkpoint  *)
(* only when no tick is left.  The entry's own throw is its rejection; a   *)
(* tick's in its drain is like any other, and the loop starts with the     *)
(* ticks that are left.                                                    *)
ThrowHandled ==
    /\ InJs /\ (site = "entry" => frame = "tick")
    /\ \/ frame = "body" /\ GoTo(After)
       \/ frame = "hook" /\ Drain(site)
       \/ frame = "tick" /\ HasTicks /\ Resume
       \/ frame = "tick" /\ ~HasTicks /\ Run("lastJobs", site)
    /\ LET again == site = "beforeExit" /\ frame = "hook" IN
       /\ emitted' = (emitted /\ ~again)
       /\ quiet' = (quiet /\ ~again)
    /\ UNCHANGED <<timerVars, opVars, ticks, last_ran, progressed, deadline,
                   rejected, v8, cdp, outside, calls, ran, phase>>

(* A throw nothing takes, from anywhere.                                   *)
ThrowFatal ==
    /\ InJs
    /\ GoTo("failed")
    /\ UNCHANGED <<ticks, rejected>>
    /\ JsUnchanged

(* A top-level await resumes in a promise job and throws.                  *)
RejectEntry ==
    /\ InJs /\ frame \in {"jobs", "lastJobs"} /\ ~rejected
    /\ rejected' = TRUE
    /\ UNCHANGED <<pc, site, frame, ticks>>
    /\ JsUnchanged

(* run_ticks_and_microtasks: a tick, or with none left the checkpoint.     *)
\* A bug: the drain takes a tick that is not there.
TicksLeftPastEnd == ticks - 1
TicksLeft == IF HasTicks THEN ticks - 1 ELSE 0

DrainStep ==
    /\ pc = "drain"
    /\ IF rejected THEN GoTo(After) /\ UNCHANGED ticks
       ELSE /\ Run(IF HasTicks THEN "tick" ELSE "jobs", site)
            /\ ticks' = TicksLeft
    /\ UNCHANGED rejected
    /\ JsUnchanged

-----------------------------------------------------------------------------
(* A turn.                                                                 *)

TurnUnchanged == UNCHANGED <<ticks, rejected, outside, calls>>

(* The entry rejected: the loop breaks and the caller reports it.          *)
Break == GoTo("exited")

(* The debugger's commands are dispatched, and the ticks drain after them. *)
Top ==
    /\ pc = "top"
    /\ CASE rejected -> Break /\ UNCHANGED cdp
         [] ~rejected /\ ~Inspector -> GoTo("turn") /\ UNCHANGED cdp
         [] ~rejected /\ Inspector ->
              /\ IF cdp > 0 THEN Run("hook", "cdp") ELSE Drain("cdp")
              /\ cdp' = 0
    /\ progressed' = FALSE
    /\ UNCHANGED <<timerVars, opVars, last_ran, emitted, deadline, v8, ran,
                   quiet, phase>>
    /\ TurnUnchanged

(* The turn reads the clock.  When only unref'd timers are left none runs. *)
StartTurn ==
    /\ pc = "turn"
    /\ now' = clock
    /\ GoTo(IF Alive \/ HasTicks THEN "tickPoint" ELSE "tasks")
    /\ UNCHANGED <<clock, next_id, seq, heap, immediates, active, ref_count,
                   pending, running, check, opVars, turnVars, v8, cdp>>
    /\ TurnUnchanged

(* Ticks a handled throw left queued run first when the callback opens a   *)
(* phase that node reaches only past a tick point.                         *)
CheckPhaseFirst ==
    LET next == PeekDue IN
    \/ next.kind = "immediate"
         /\ ~(last_ran.kind = "immediate" /\ next.at <= last_ran.began)
    \/ next.kind = "timer"
         /\ \/ last_ran.kind = "other"
            \/ last_ran.kind = "timer" /\ next.at > last_ran.began

TickPoint ==
    /\ pc = "tickPoint"
    /\ IF HasTicks /\ CheckPhaseFirst THEN Drain("pre") ELSE GoTo("pop")
    /\ IF HasTicks THEN Look /\ UNCHANGED now ELSE UNCHANGED timerVars
    /\ UNCHANGED <<opVars, turnVars, v8, cdp>>
    /\ TurnUnchanged

(* pop_due, and the callback it returns runs.                              *)
Popped(kind) ==
    CASE kind = "timer" ->
           IF last_ran.kind = "timer" /\ running'.deadline <= last_ran.began
           THEN last_ran ELSE Ran("timer", now)
      [] kind = "immediate" -> Ran("immediate", now)
      [] kind = "none" -> Other

PopRuns ==
    /\ pc = "pop"
    /\ Timers!PopDue
    /\ last_ran' = Popped(running'.kind)
    /\ ran' = TRUE
    /\ quiet' = FALSE
    /\ phase' = IF running'.kind = "timer" /\ phase = NoPhase THEN seq ELSE phase
    /\ Run("body", "timer")
    /\ UNCHANGED <<opVars, progressed, emitted, deadline, v8, cdp>>
    /\ TurnUnchanged

PopNothing ==
    /\ pc = "pop"
    /\ PeekDue.kind = "none"
    /\ Look /\ UNCHANGED now
    /\ GoTo("tasks")
    /\ UNCHANGED <<opVars, turnVars, v8, cdp>>
    /\ TurnUnchanged

(* callback_done.  While a timer of the same timers phase is due the poll  *)
(* waits.                                                                  *)
SamePhaseDue ==
    /\ last_ran.kind = "timer"
    /\ PeekDue.kind = "timer" /\ PeekDue.at <= last_ran.began

\* A bug: every turn that ran a callback goes straight to the next.
PastCallbackNoPoll == "top"
PastCallback == CASE rejected                    -> "exited"
                  [] ~rejected /\ SamePhaseDue  -> "top"
                  [] ~rejected /\ ~SamePhaseDue -> "tasks"

AfterCallback ==
    /\ pc = "after"
    /\ running' = Timers!Idle
    /\ progressed' = TRUE
    /\ GoTo(PastCallback)
    /\ emitted' = (emitted /\ PastCallback # "top")
    /\ LET looks == ~rejected /\ pending = << >> /\ last_ran.kind = "timer" IN
       /\ heap' = IF looks THEN Timers!Skim(heap) ELSE heap
       /\ immediates' = IF looks THEN Timers!Skim(immediates) ELSE immediates
    /\ UNCHANGED <<clock, now, next_id, seq, active, ref_count, pending, check,
                   opVars, last_ran, deadline, v8, cdp, ran, quiet, phase>>
    /\ TurnUnchanged

(* run_platform_tasks.                                                     *)
PlatformTasks ==
    /\ pc = "tasks"
    /\ CASE rejected -> Break /\ UNCHANGED <<v8, ran, quiet>>
         [] ~rejected /\ v8 = "ready" ->
              /\ v8' = "none"
              /\ Run("hook", "task")
              /\ ran' = TRUE
              /\ quiet' = FALSE
         [] ~rejected /\ v8 # "ready" -> GoTo("poll") /\ UNCHANGED <<v8, ran, quiet>>
    /\ UNCHANGED <<timerVars, opVars, last_ran, progressed, emitted, deadline,
                   cdp, phase>>
    /\ TurnUnchanged

\* A bug: the task's drain may have rejected the entry, and nobody asks.
PastTaskUnchecked == "poll"
PastTask == IF rejected THEN "exited" ELSE "poll"

RanTask ==
    /\ pc = "ranTask"
    /\ last_ran' = Other
    /\ progressed' = TRUE
    /\ GoTo(PastTask)
    /\ UNCHANGED <<timerVars, opVars, emitted, deadline, v8, cdp, ran, quiet,
                   phase>>
    /\ TurnUnchanged

(* settle_completion for a completion just received.  A wake for V8's      *)
(* tasks runs nothing of its own.                                          *)
SettleFor(s) ==
    /\ Ops!Settle
    /\ LET id == Head(channel) IN
       /\ CASE id = Ops!PLATFORM_TASK_OP_ID -> Drain(s)
            [] id = Ops!SIGNAL_OP_ID        -> Run("hook", s)
            [] OTHER                        -> Run("body", s)
       /\ quiet' = (quiet /\ id = Ops!PLATFORM_TASK_OP_ID)
       /\ ran' = (ran \/ id # Ops!PLATFORM_TASK_OP_ID)

(* One completion, if there is one; then the turn is over if it ran        *)
(* anything.                                                               *)
Poll ==
    /\ pc = "poll"
    /\ phase' = NoPhase
    /\ IF channel # << >>
       THEN /\ SettleFor("poll")
            /\ last_ran' = Other
            /\ emitted' = FALSE
       ELSE /\ GoTo(IF progressed THEN "top" ELSE "idle")
            /\ emitted' = (emitted /\ ~progressed)
            /\ UNCHANGED <<opVars, last_ran, ran, quiet>>
    /\ UNCHANGED <<timerVars, progressed, deadline, v8, cdp>>
    /\ TurnUnchanged

-----------------------------------------------------------------------------
(* Nothing was due.                                                        *)

IdleUnchanged == UNCHANGED <<opVars, last_ran, progressed, ran, phase, v8, cdp, now>>

Deferred == last_ran.kind # "entry" /\ HasTicks

DrainDeferred ==
    /\ pc = "idle" /\ Deferred
    /\ Drain("deferred")
    /\ UNCHANGED <<timerVars, opVars, turnVars, v8, cdp>>
    /\ TurnUnchanged

(* Ticks with nothing to wait for.                                         *)
DrainStranded ==
    /\ pc = "idle" /\ ~Deferred
    /\ HasTicks /\ ~Alive
    /\ Look
    /\ Drain("stranded")
    /\ UNCHANGED <<emitted, deadline, quiet>>
    /\ IdleUnchanged /\ TurnUnchanged

(* V8 still owes a foreground task: wait for it in slices.                 *)
WaitForV8 ==
    /\ pc = "idle" /\ ~HasTicks /\ ~Alive
    /\ v8 # "none"
    /\ Look
    /\ GoTo("slice")
    /\ UNCHANGED <<emitted, deadline, quiet>>
    /\ IdleUnchanged /\ TurnUnchanged

EmitBeforeExit ==
    /\ pc = "idle" /\ ~HasTicks /\ ~Alive
    /\ v8 = "none" /\ ~emitted
    /\ Look
    /\ Run("hook", "beforeExit")
    /\ emitted' = TRUE
    /\ quiet' = TRUE
    /\ UNCHANGED deadline
    /\ IdleUnchanged /\ TurnUnchanged

(* The loop ends: drained, or (None, false).                               *)
Exit ==
    /\ pc = "idle"
    /\ \/ ~HasTicks /\ ~Alive /\ v8 = "none" /\ emitted
       \/ ~Deferred /\ has_ref_timers /\ ~has_inflight /\ NextDeadline = NoDeadline
    /\ Look
    /\ GoTo("exited")
    /\ UNCHANGED <<emitted, deadline, quiet>>
    /\ IdleUnchanged /\ TurnUnchanged

\* A bug: a wait for an op has no deadline.
UntilUntimed == IF has_inflight THEN NoDeadline ELSE NextDeadline
Until == NextDeadline

Wait ==
    /\ pc = "idle" /\ ~Deferred
    /\ has_inflight \/ (has_ref_timers /\ NextDeadline # NoDeadline)
    /\ Look
    /\ deadline' = Until
    /\ GoTo(IF has_inflight THEN "waitOp" ELSE "waitTimer")
    /\ UNCHANGED <<emitted, quiet>>
    /\ IdleUnchanged /\ TurnUnchanged

(* recv_deadline returns a completion.                                     *)
\* A bug: the wait is only for ops that count.
ReceivedCounted == channel # << >> /\ Head(channel) \notin unref_ops
Received == channel # << >>

WaitEnds(p, s) ==
    /\ pc = p
    /\ Received
    /\ SettleFor(s)
    /\ phase' = NoPhase
    /\ deadline' = NoDeadline
    /\ UNCHANGED <<timerVars, last_ran, progressed, v8, cdp>>
    /\ TurnUnchanged

\* A bug: a completion settled in the wait does not re-arm beforeExit.
WaitSettlesLatched ==
    /\ WaitEnds("waitOp", "wait") \/ WaitEnds("waitTimer", "wait")
    /\ UNCHANGED emitted

WaitSettles ==
    /\ WaitEnds("waitOp", "wait") \/ WaitEnds("waitTimer", "wait")
    /\ emitted' = FALSE

SliceSettles == WaitEnds("slice", "slice") /\ UNCHANGED emitted

(* ... or nothing until the deadline, or for the length of a slice.        *)
TimesOut ==
    /\ \/ pc \in {"waitOp", "waitTimer"} /\ deadline # NoDeadline /\ clock >= deadline
       \/ pc = "slice"
    /\ channel = << >> \/ pc = "waitTimer"
    /\ GoTo("top")
    /\ phase' = NoPhase
    /\ deadline' = NoDeadline
    /\ UNCHANGED <<timerVars, opVars, last_ran, progressed, emitted, v8, cdp,
                   ran, quiet>>
    /\ TurnUnchanged

(* With a debugger, a wait for a timer stops now and then for its commands *)
(* and the ticks, and waits on.                                            *)
WaitDispatches ==
    /\ pc = "waitTimer" /\ Inspector
    /\ clock < deadline
    /\ \/ cdp > 0 /\ Run("hook", "cdpwait")
       \/ cdp = 0 /\ HasTicks /\ Drain("cdpwait")
    /\ cdp' = 0
    /\ UNCHANGED <<timerVars, opVars, turnVars, v8>>
    /\ TurnUnchanged

-----------------------------------------------------------------------------
(* Everyone else.                                                          *)

OpCompletes ==
    /\ ~Ended
    /\ \E id \in op_running : Ops!Complete(id)
    /\ UNCHANGED <<timerVars, loopVars>>

Signal ==
    /\ ~Ended
    /\ outside > 0
    /\ outside' = outside - 1
    /\ Ops!SendSentinel(Ops!SIGNAL_OP_ID)
    /\ UNCHANGED <<timerVars, pc, site, frame, ticks, turnVars, rejected, v8,
                   cdp, calls>>

(* V8 posts the foreground task it owes, and the platform wakes the loop.  *)
V8Posts ==
    /\ ~Ended
    /\ v8 = "background"
    /\ v8' = "ready"
    /\ channel' = Append(channel, Ops!PLATFORM_TASK_OP_ID)
    /\ UNCHANGED <<timerVars, op_next_id, op_running, inflight, unref_ops,
                   handles, op_handles, parked, pc, site, frame, ticks,
                   turnVars, rejected, cdp, outside, calls>>

DebuggerSends ==
    /\ ~Ended /\ Inspector
    /\ outside > 0
    /\ outside' = outside - 1
    /\ cdp' = cdp + 1
    /\ UNCHANGED <<timerVars, opVars, pc, site, frame, ticks, turnVars,
                   rejected, v8, calls>>

ClockTicks ==
    /\ ~Ended
    /\ Timers!Tick
    /\ UNCHANGED <<opVars, loopVars>>

JavaScript ==
    \/ CallTimers \/ CallTimerPending \/ CallOps \/ NextTick \/ CallCompile
    \/ Return \/ ThrowHandled \/ ThrowFatal \/ RejectEntry

Loop ==
    \/ DrainStep \/ Top \/ StartTurn \/ TickPoint \/ PopRuns \/ PopNothing
    \/ AfterCallback \/ PlatformTasks \/ RanTask \/ Poll
    \/ DrainDeferred \/ DrainStranded \/ WaitForV8 \/ EmitBeforeExit
    \/ Exit \/ Wait \/ WaitSettles \/ SliceSettles \/ TimesOut
    \/ WaitDispatches

Environment ==
    OpCompletes \/ Signal \/ V8Posts \/ DebuggerSends \/ ClockTicks

Next == JavaScript \/ Loop \/ Environment

Spec == Init /\ [][Next]_vars

(* The isolate thread runs and its JavaScript ends, V8 finishes what it    *)
(* compiles, and time passes.  An op may stay out for ever.                *)
Fairness ==
    /\ WF_vars(Loop \/ Return \/ ThrowHandled \/ ThrowFatal)
    /\ WF_vars(V8Posts)
    /\ WF_vars(ClockTicks)

FairSpec == Spec /\ Fairness

-----------------------------------------------------------------------------
TypeOK ==
    /\ Timers!TypeOK
    /\ Ops!OpsTypeOK
    /\ pc \in Steps
    /\ site \in Sites
    /\ frame \in Frames
    /\ ticks \in 0 .. MaxCalls
    /\ last_ran \in [kind : {"entry", "timer", "immediate", "other"},
                     began : Nat \cup {Never}]
    /\ progressed \in BOOLEAN
    /\ emitted \in BOOLEAN
    /\ deadline \in Nat \cup {NoDeadline}
    /\ rejected \in BOOLEAN
    /\ v8 \in {"none", "background", "ready"}
    /\ cdp \in {NoDebugger} \cup (0 .. MaxOutside)
    /\ outside \in 0 .. MaxOutside
    /\ calls \in 0 .. MaxCalls
    /\ ran \in BOOLEAN
    /\ quiet \in BOOLEAN
    /\ phase \in Nat \cup {NoPhase}

Exits == pc # "exited" /\ pc' = "exited" /\ ~rejected

(***************************************************************************)
(* The loop ends by itself only with nothing left that should keep the     *)
(* process alive: no ref'd timer or pending callback, no referenced op     *)
(* unsettled, no tick, no task V8 owes ("Exit when nothing remains").      *)
(* What the counters say is not enough: this is about the timers and ops.  *)
(***************************************************************************)
ExitsDrained ==
    [][Exits => /\ Timers!refs(active) = {} /\ pending = << >>
                /\ Ops!Live \subseteq unref_ops
                /\ ticks = 0
                /\ v8 = "none"]_vars

(***************************************************************************)
(* beforeExit is emitted once per drain: not again until a callback, a     *)
(* task or a completion has run since (or its handler threw), and the loop *)
(* never ends without it since the last of those.                          *)
(***************************************************************************)
BeforeExitOncePerDrain ==
    [][/\ (pc = "idle" /\ pc' = "js" => ~quiet)
       /\ (Exits => quiet)]_vars

(***************************************************************************)
(* Without a debugger, timers do not starve I/O: between two polls of the  *)
(* op channel only timers run, the ones that were set before the first of  *)
(* them ran.  An interval therefore runs once at most ("a continuously-due *)
(* interval must not starve IO settlement", "The phase is bounded").       *)
(***************************************************************************)
PollNotStarved ==
    [][pc = "pop" /\ pc' = "js" /\ phase # NoPhase /\ ~Inspector =>
         \E e \in heap : Timers!RanTimer(e) /\ e.seq <= phase]_vars

(***************************************************************************)
(* Without a debugger, whose commands may run code at any wait, an entry   *)
(* that has rejected is reported before the loop polls, waits or decides   *)
(* anything again (#345).                                                  *)
(***************************************************************************)
RejectionStopsPolling ==
    rejected /\ ~Inspector => pc \notin {"poll", "idle", "slice", "waitOp", "waitTimer"}

(***************************************************************************)
(* Every completion that is sent is settled, however busy the timers are   *)
(* and whether or not its op counts, unless the run ends first.            *)
(***************************************************************************)
CompletionsSettle ==
    \A id \in 1 .. OpIdMax - 1 : id \in Ops!Queued ~> id \notin Ops!Queued \/ Ended

Due(s) == \E e \in heap \cup immediates :
             e.seq = s /\ e.id \in Timers!refs(active) /\ e.at <= clock

(***************************************************************************)
(* A ref'd timer or immediate that is due runs or is cancelled, whatever   *)
(* the loop waits for, unless the run ends first.                          *)
(***************************************************************************)
DueTimersRun == \A s \in 1 .. MaxSeq : Due(s) ~> ~Due(s) \/ Ended

-----------------------------------------------------------------------------
(***************************************************************************)
(* "The entry already rejected: it is reported next, before anything else  *)
(* runs": no user code starts once the entry has rejected.                 *)
(***************************************************************************)
NothingRunsAfterRejection == [][rejected /\ pc # "js" => pc' # "js"]_vars

(***************************************************************************)
(* "Ticks a handled throw left queued in a callback run at the check phase *)
(* node passes through before it waits again": once a callback has run,    *)
(* the loop never waits with ticks queued.                                 *)
(***************************************************************************)
NoWaitOverTicks == pc \in {"waitOp", "waitTimer"} /\ ran => ~HasTicks

(***************************************************************************)
(* "When idle, block on the op channel with the next timer deadline as     *)
(* timeout": while the loop waits, no timer is due before its deadline.    *)
(***************************************************************************)
WaitsForNextDeadline ==
    pc \in {"waitOp", "waitTimer"} =>
        \A e \in Timers!LiveIn(heap) \cup Timers!LiveIn(immediates) :
            deadline # NoDeadline /\ deadline <= e.at
=============================================================================
