--------------------------- MODULE PlatformTasks ---------------------------
(***************************************************************************)
(* V8's foreground tasks (crates/oam_engine/src/platform.rs): V8 posts a   *)
(* task for an isolate from any thread; the isolate's event loop runs it.  *)
(* A process-wide registry maps an isolate's address to its queue, and one *)
(* timer thread promotes the tasks that were posted with a delay.          *)
(*                                                                         *)
(* Addresses are reused.  A queue that is closed stays in the registry as  *)
(* a tombstone until its isolate's Registration is dropped, which may be   *)
(* after the allocator has given the address to the next isolate.          *)
(*                                                                         *)
(* Steps are what a lock makes atomic: the registry's, a queue's state, or *)
(* the timer's.  ready is an atomic flag beside the queue's lock.          *)
(***************************************************************************)
EXTENDS Integers, Sequences, FiniteSets, SequencesExt, Orderings,
        PartialMaps

CONSTANTS
    Isolate,     \* isolates, over the life of the process
    Key,         \* addresses
    MaxPosts,    \* bound: tasks V8 posts
    MaxRuns,     \* bound: runs (CoreRuntimes) of an isolate
    MaxClock     \* bound on the clock

VARIABLES
    stage,       \* what the isolate's life has come to
    addr,        \* its address
    own,         \* Registration.tasks: its queue
    registry,    \* address -> queue, a partial map
    queues,      \* the IsolateTasks made so far
    posting,     \* posts that have found their queue and not locked it
    arming,      \* delayed tasks queued, the timer not told yet
    wakes,       \* the timer's heap
    asleep,      \* until when the timer thread waits
    promoting,   \* queues the timer thread has yet to promote
    clock,
    loop,        \* where the isolate's loop is
    run,         \* how many CoreRuntimes it has had
    channel,     \* wakes in the current one's op channel
    posted,      \* history: the tasks V8 has posted
    ran,         \* history: tasks that ran, with the isolate whose loop ran them
    destroyed    \* history: tasks destroyed without running

isolateVars == <<stage, addr, own, registry>>
timerVars == <<arming, wakes, asleep, promoting, clock>>
loopVars == <<loop, run, channel>>
vars == <<isolateVars, queues, posting, timerVars, loopVars, posted, ran, destroyed>>

None == 0                        \* no queue, no address, no isolate
Awake == -1
Forever == -2                    \* the timer thread waits for a notify
Now == 0                         \* the due time of a task with no delay

(* An address is not null, which stands for none.                          *)
ASSUME PlatformTasksAssumption ==
    None \notin Key /\ MaxPosts \in Nat /\ MaxRuns \in Nat /\ MaxClock \in Nat

Task == [of : Isolate, n : 1 .. MaxPosts]
Delayed == [task : Task, due : Nat]
Waker == [isolate : Isolate \cup {None}, run : 0 .. MaxRuns]
Queue == [tasks : Seq(Task), delayed : Seq(Delayed), waker : Waker, closed : BOOLEAN,
          ready : BOOLEAN]

NoWaker == [isolate |-> None, run |-> 0]
NewQueue == [tasks |-> << >>, delayed |-> << >>, waker |-> NoWaker, closed |-> FALSE,
             ready |-> FALSE]

Init ==
    /\ stage = [i \in Isolate |-> "unborn"]
    /\ addr = [i \in Isolate |-> None]
    /\ own = [i \in Isolate |-> None]
    /\ registry = [k \in {} |-> k]
    /\ queues = << >>
    /\ posting = {} /\ arming = {} /\ wakes = {} /\ promoting = {}
    /\ asleep = Awake
    /\ clock = 0
    /\ loop = [i \in Isolate |-> "off"]
    /\ run = [i \in Isolate |-> 0]
    /\ channel = [i \in Isolate |-> 0]
    /\ posted = {} /\ ran = {} /\ destroyed = {}

-----------------------------------------------------------------------------
(* The registry.                                                           *)

(* queue_for: the queue under a key; a new one when there is none, or when *)
(* a closed one may not be used (fresh).                                   *)
\* A bug: a tombstone is handed to the isolate being built.
UsableTombstone(k, fresh) == k \in DOMAIN registry
Usable(k, fresh) ==
    k \in DOMAIN registry /\ ~(fresh /\ queues[registry[k]].closed)

\* A bug: a new queue is handed out beside the registered one.
QueueForApart(k, fresh) == Len(queues) + 1
QueueFor(k, fresh) == IF Usable(k, fresh) THEN registry[k] ELSE Len(queues) + 1

LookUp(k, fresh) ==
    IF Usable(k, fresh) THEN UNCHANGED <<registry, queues>>
    ELSE /\ queues' = Append(queues, NewQueue)
         /\ registry' = Put(registry, k, Len(queues) + 1)

(* new_isolate starts: the allocator hands out an address no isolate has.  *)
CreateIsolate(i, k) ==
    /\ stage[i] = "unborn"
    /\ \A j \in Isolate : addr[j] = k => stage[j] \in {"disposed", "dropped"}
    /\ stage' = [stage EXCEPT ![i] = "creating"]
    /\ addr' = [addr EXCEPT ![i] = k]
    /\ UNCHANGED <<own, registry, queues, posting, timerVars, loopVars, posted,
                   ran, destroyed>>

(* register, once Isolate::new has returned.                               *)
Register(i) ==
    /\ stage[i] = "creating"
    /\ \A p \in posting : p.task.of # i       \* the posts were this thread's
    /\ LookUp(addr[i], TRUE)
    /\ own' = [own EXCEPT ![i] = QueueFor(addr[i], TRUE)]
    /\ stage' = [stage EXCEPT ![i] = "live"]
    /\ UNCHANGED <<addr, posting, timerVars, loopVars, posted, ran, destroyed>>

(* IsolateTasks::close: what is queued is destroyed on the isolate's       *)
(* thread.                                                                 *)
\* A bug: the tasks with a delay are kept.
DestroyReady(i) ==
    LET o == queues[own[i]] IN
    /\ queues' = [queues EXCEPT ![own[i]] = [NewQueue EXCEPT !.closed = TRUE,
                                                             !.delayed = o.delayed]]
    /\ destroyed' = destroyed \cup ToSet(o.tasks)
\* A bug: the queue is emptied and not marked closed.
DestroyOpen(i) ==
    LET o == queues[own[i]] IN
    /\ queues' = [queues EXCEPT ![own[i]] = NewQueue]
    /\ destroyed' = destroyed \cup ToSet(o.tasks) \cup {d.task : d \in ToSet(o.delayed)}
Destroy(i) ==
    LET o == queues[own[i]] IN
    /\ queues' = [queues EXCEPT ![own[i]] = [NewQueue EXCEPT !.closed = TRUE]]
    /\ destroyed' = destroyed \cup ToSet(o.tasks) \cup {d.task : d \in ToSet(o.delayed)}

(* JsRuntime::drop, with no run going on.                                  *)
Close(i) ==
    /\ stage[i] = "live" /\ loop[i] = "off"
    /\ Destroy(i)
    /\ stage' = [stage EXCEPT ![i] = "closed"]
    /\ UNCHANGED <<addr, own, registry, posting, timerVars, loopVars, posted, ran>>

(* The isolate is disposed of and its memory freed.  V8 has no thread left *)
(* that posts for it.                                                      *)
Dispose(i) ==
    /\ stage[i] = "closed"
    /\ \A p \in posting : p.task.of # i
    /\ stage' = [stage EXCEPT ![i] = "disposed"]
    /\ UNCHANGED <<addr, own, registry, queues, posting, timerVars, loopVars,
                   posted, ran, destroyed>>

(* Registration::drop removes its own queue and nobody else's.             *)
\* A bug: whatever is registered under the address goes.
IsOwnAny(i) == addr[i] \in DOMAIN registry
IsOwn(i) == addr[i] \in DOMAIN registry /\ registry[addr[i]] = own[i]

DropRegistration(i) ==
    /\ stage[i] = "disposed"
    /\ Destroy(i)
    /\ registry' = IF IsOwn(i) THEN Drop(registry, {addr[i]}) ELSE registry
    /\ stage' = [stage EXCEPT ![i] = "dropped"]
    /\ UNCHANGED <<addr, own, posting, timerVars, loopVars, posted, ran>>

-----------------------------------------------------------------------------
(* Posts.                                                                  *)

(* tasks_for: V8 posts a task, from the thread that builds the isolate     *)
(* while it is being built and from any thread after that.                 *)
PostTask(i, due) ==
    LET task == [of |-> i, n |-> Cardinality(posted) + 1]
        creating == stage[i] = "creating"
    IN
    /\ stage[i] \in {"creating", "live", "closed"}
    /\ Cardinality(posted) < MaxPosts
    /\ LookUp(addr[i], creating)
    /\ posting' = posting \cup
         {[task |-> task, due |-> due, queue |-> QueueFor(addr[i], creating)]}
    /\ posted' = posted \cup {task}
    /\ UNCHANGED <<stage, addr, own, timerVars, loopVars, ran, destroyed>>

(* signal, under the queue's lock: the edge of ready wakes the loop the    *)
(* waker belongs to.  A wake for a channel that is gone is lost.           *)
Wakes(w) ==
    [i \in Isolate |-> IF w # NoWaker /\ w.isolate = i /\ w.run = run[i]
                       THEN channel[i] + 1 ELSE channel[i]]

\* A bug: ready rises and nobody is woken.
SignalQuietly(n, tasks, delayed) ==
    /\ queues' = [queues EXCEPT ![n].tasks = tasks, ![n].delayed = delayed,
                                ![n].ready = TRUE]
    /\ UNCHANGED channel
Signal(n, tasks, delayed) ==
    /\ queues' = [queues EXCEPT ![n].tasks = tasks, ![n].delayed = delayed,
                                ![n].ready = TRUE]
    /\ channel' = IF queues[n].ready THEN channel ELSE Wakes(queues[n].waker)

(* IsolateTasks::post and post_delayed.                                    *)
Post(p) ==
    LET o == queues[p.queue] IN
    /\ posting' = posting \ {p}
    /\ IF o.closed
       THEN destroyed' = destroyed \cup {p.task} /\ UNCHANGED <<queues, channel, arming>>
       ELSE /\ IF p.due = Now
               THEN /\ Signal(p.queue, Append(o.tasks, p.task), o.delayed)
                    /\ UNCHANGED arming
               ELSE /\ queues' = [queues EXCEPT ![p.queue].delayed =
                                     Append(@, [task |-> p.task, due |-> p.due])]
                    /\ arming' = arming \cup {[queue |-> p.queue, due |-> p.due]}
                    /\ UNCHANGED channel
            /\ UNCHANGED destroyed
    /\ UNCHANGED <<isolateVars, wakes, asleep, promoting, clock, loop, run,
                   posted, ran>>

-----------------------------------------------------------------------------
(* The timer thread.                                                       *)

(* Timer::schedule: the thread is notified of a new earliest deadline.     *)
\* A bug: only the first deadline is notified.
EarliestFirst(due) == wakes = {}
Earliest(due) == \A w \in wakes : due < w.due

Schedule(a) ==
    /\ arming' = arming \ {a}
    /\ wakes' = wakes \cup {a}
    /\ asleep' = IF Earliest(a.due) THEN Awake ELSE asleep
    /\ UNCHANGED <<isolateVars, queues, posting, promoting, clock, loopVars,
                   posted, ran, destroyed>>

TimerRun ==
    /\ asleep = Awake /\ promoting = {}
    /\ LET due == {w \in wakes : w.due <= clock} IN
       /\ wakes' = wakes \ due
       /\ promoting' = {[queue |-> w.queue, now |-> clock] : w \in due}
       /\ asleep' = IF due # {} THEN Awake
                    ELSE IF wakes = {} THEN Forever
                    ELSE CHOOSE t \in {w.due : w \in wakes} :
                            \A w \in wakes : t <= w.due
    /\ UNCHANGED <<isolateVars, queues, posting, arming, clock, loopVars,
                   posted, ran, destroyed>>

TimerTimesOut ==
    /\ asleep \in Nat /\ asleep <= clock
    /\ asleep' = Awake
    /\ UNCHANGED <<isolateVars, queues, posting, arming, wakes, promoting,
                   clock, loopVars, posted, ran, destroyed>>

(* promote_due: every task due by then, in the order of the deadlines and *)
(* of the posts among equal ones.                                          *)
PromoteDue(p) ==
    LET o == queues[p.queue]
        due == {x \in DOMAIN o.delayed : o.delayed[x].due <= p.now}
        first(x, y) == \/ o.delayed[x].due < o.delayed[y].due
                       \/ o.delayed[x].due = o.delayed[y].due /\ x < y
    IN
    /\ promoting' = promoting \ {p}
    /\ IF due = {} THEN UNCHANGED <<queues, channel>>
       ELSE \E order \in Orders(due, first), kept \in InOrder(DOMAIN o.delayed \ due) :
               Signal(p.queue,
                      o.tasks \o [x \in DOMAIN order |-> o.delayed[order[x]].task],
                      [x \in DOMAIN kept |-> o.delayed[kept[x]]])
    /\ UNCHANGED <<isolateVars, posting, arming, wakes, asleep, clock, loop, run,
                   posted, ran, destroyed>>

Tick ==
    /\ clock < MaxClock
    /\ clock' = clock + 1
    /\ UNCHANGED <<isolateVars, queues, posting, arming, wakes, asleep,
                   promoting, loopVars, posted, ran, destroyed>>

-----------------------------------------------------------------------------
(* The isolate's event loop, as far as it meets the tasks.                 *)

OnlyLoop == UNCHANGED <<isolateVars, posting, timerVars, posted, destroyed>>

(* A run starts with a CoreRuntime of its own: attach_loop_waker.          *)
SetWaker(i) ==
    /\ stage[i] = "live" /\ loop[i] = "off"
    /\ run[i] < MaxRuns
    /\ run' = [run EXCEPT ![i] = @ + 1]
    /\ queues' = [queues EXCEPT ![own[i]].waker = [isolate |-> i, run |-> run'[i]]]
    /\ channel' = [channel EXCEPT ![i] = IF queues[own[i]].ready THEN 1 ELSE 0]
    /\ loop' = [loop EXCEPT ![i] = "turn"]
    /\ UNCHANGED ran /\ OnlyLoop

(* take_ready clears ready before it locks the queue ...                   *)
HasReady(i) ==
    /\ loop[i] = "turn"
    /\ loop' = [loop EXCEPT ![i] = IF queues[own[i]].ready THEN "take" ELSE "poll"]
    /\ queues' = [queues EXCEPT ![own[i]].ready = FALSE]
    /\ UNCHANGED <<run, channel, ran>> /\ OnlyLoop

(* ... and takes whatever is there by then.                                *)
TakeReady(i) ==
    /\ loop[i] = "take"
    /\ loop' = [loop EXCEPT ![i] = "poll"]
    /\ queues' = [queues EXCEPT ![own[i]].tasks = << >>]
    /\ ran' = ran \cup {[task |-> t, by |-> i] : t \in ToSet(queues[own[i]].tasks)}
    /\ UNCHANGED <<run, channel>> /\ OnlyLoop

(* The poll, or the wait, takes one wake; with none the loop waits.        *)
Poll(i) ==
    /\ loop[i] \in {"poll", "blocked"}
    /\ loop[i] = "blocked" => channel[i] > 0
    /\ loop' = [loop EXCEPT ![i] = IF channel[i] > 0 THEN "turn" ELSE "blocked"]
    /\ channel' = [channel EXCEPT ![i] = IF @ > 0 THEN @ - 1 ELSE 0]
    /\ UNCHANGED <<queues, run, ran>> /\ OnlyLoop

(* The run is over.                                                        *)
EndRun(i) ==
    /\ loop[i] = "poll"
    /\ loop' = [loop EXCEPT ![i] = "off"]
    /\ UNCHANGED <<queues, run, channel, ran>> /\ OnlyLoop

Timer == TimerRun \/ TimerTimesOut \/ \E p \in promoting : PromoteDue(p)

Next ==
    \/ \E i \in Isolate :
          \/ \E k \in Key : CreateIsolate(i, k)
          \/ Register(i) \/ Close(i) \/ Dispose(i) \/ DropRegistration(i)
          \/ \E due \in {Now} \cup clock + 1 .. MaxClock : PostTask(i, due)
          \/ SetWaker(i) \/ HasReady(i) \/ TakeReady(i) \/ Poll(i) \/ EndRun(i)
    \/ \E p \in posting : Post(p)
    \/ \E a \in arming : Schedule(a)
    \/ Timer
    \/ Tick

Spec == Init /\ [][Next]_vars

(* A loop that runs goes on running, posts that have begun end, the timer  *)
(* thread is scheduled and time passes.  V8 need not post, nor a run or an *)
(* isolate end.                                                            *)
Fairness ==
    /\ \A i \in Isolate : WF_vars(HasReady(i) \/ TakeReady(i) \/ Poll(i))
    /\ WF_vars((\E p \in posting : Post(p)) \/ (\E a \in arming : Schedule(a)))
    /\ WF_vars(Timer)
    /\ WF_vars(Tick)

FairSpec == Spec /\ Fairness

-----------------------------------------------------------------------------
TypeOK ==
    /\ stage \in [Isolate -> {"unborn", "creating", "live", "closed",
                              "disposed", "dropped"}]
    /\ addr \in [Isolate -> Key \cup {None}]
    /\ queues \in Seq(Queue)
    /\ own \in [Isolate -> 0 .. Len(queues)]
    /\ DOMAIN registry \subseteq Key
    /\ \A k \in DOMAIN registry : registry[k] \in 1 .. Len(queues)
    /\ posting \subseteq [task : Task, due : Nat, queue : 1 .. Len(queues)]
    /\ arming \cup wakes \subseteq [queue : 1 .. Len(queues), due : Nat]
    /\ promoting \subseteq [queue : 1 .. Len(queues), now : Nat]
    /\ asleep \in Nat \cup {Awake, Forever} /\ clock \in 0 .. MaxClock
    /\ loop \in [Isolate -> {"off", "turn", "take", "poll", "blocked"}]
    /\ run \in [Isolate -> 0 .. MaxRuns]
    /\ channel \in [Isolate -> Nat]
    /\ ran \subseteq [task : Task, by : Isolate]
    /\ posted \subseteq Task /\ destroyed \subseteq posted

HeldBy(n) == ToSet(queues[n].tasks) \cup {d.task : d \in ToSet(queues[n].delayed)}

(***************************************************************************)
(* No wake is lost between a post, the flag the loop reads and the channel *)
(* it blocks on: a loop that is blocked while a task is ready for it has a *)
(* wake in its channel ("A post that lands before the wait is not lost").  *)
(***************************************************************************)
NoLostWake ==
    \A i \in Isolate :
        loop[i] = "blocked" /\ queues[own[i]].tasks # << >> => channel[i] > 0

(***************************************************************************)
(* An address never carries one isolate's tasks to another: a queue that a *)
(* live isolate owns holds its tasks only, and only its loop runs them.    *)
(***************************************************************************)
TasksStayHome ==
    /\ \A r \in ran : r.by = r.task.of
    /\ \A i \in Isolate : stage[i] = "live" =>
          \A t \in HeldBy(own[i]) : t.of = i

(***************************************************************************)
(* A task posted for an isolate that is not closed is not swallowed by the *)
(* tombstone of the one that had its address before ("the new isolate      *)
(* never holds a closed queue").                                           *)
(***************************************************************************)
NothingSwallowed ==
    \A t \in destroyed : stage[t.of] \in {"closed", "disposed", "dropped"}

(***************************************************************************)
(* A task is destroyed while its isolate is alive, on its thread: once the *)
(* isolate is closed no queue holds a task of it, and none ever runs.      *)
(***************************************************************************)
NothingOutlivesIsolate ==
    [][\A i \in Isolate : stage[i] \in {"closed", "disposed", "dropped"} =>
         /\ \A n \in 1 .. Len(queues) : \A t \in HeldBy(n) : t.of # i
         /\ \A r \in ran' \ ran : r.task.of # i]_vars

(***************************************************************************)
(* A delayed task is never forgotten: the timer has its deadline, or will  *)
(* be told of it, or is about to promote it; and the timer thread never    *)
(* sleeps past a deadline it knows.                                        *)
(***************************************************************************)
DelayedAreTimed ==
    /\ \A n \in 1 .. Len(queues) : \A d \in ToSet(queues[n].delayed) :
          \/ [queue |-> n, due |-> d.due] \in arming \cup wakes
          \/ \E p \in promoting : p.queue = n /\ d.due <= p.now
    /\ asleep # Awake =>
          \A w \in wakes : asleep # Forever /\ asleep <= w.due

Outstanding(t) ==
    /\ t \in posted \ destroyed
    /\ [task |-> t, by |-> t.of] \notin ran

(***************************************************************************)
(* Every task V8 posts for an isolate whose loop keeps running is run.     *)
(***************************************************************************)
TasksRun == \A t \in Task : Outstanding(t) ~> ~Outstanding(t) \/ loop[t.of] = "off"
=============================================================================
