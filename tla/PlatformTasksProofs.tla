------------------------ MODULE PlatformTasksProofs ------------------------
(***************************************************************************)
(* Proofs about PlatformTasks, for any isolates, addresses and bounds: a   *)
(* task stays with its isolate, none is swallowed, no wake is lost and no  *)
(* delayed task is forgotten.                                              *)
(*                                                                         *)
(* The inductive invariant, TasksInv, says what the comments in            *)
(* platform.rs rely on: who owns which queue and where it is registered    *)
(* (Owning), in which queue a task can be (QueuedHome, PostsHome), what a  *)
(* loop that runs has set up (Loops), and that ready is up over a task     *)
(* nobody is about to take (ReadyRises).                                   *)
(***************************************************************************)
EXTENDS PlatformTasks, FiniteSetTheorems, WellFoundedInduction, SequenceTheorems, TLAPS

Gone(i) == stage[i] \in {"disposed", "dropped"}

(* A queue belongs to the isolate that registered it.  Until it is closed, *)
(* and as a tombstone, it is the one its address leads to, unless the      *)
(* address was given to another isolate.                                   *)
Owning ==
    /\ \A i \in Isolate :
          /\ stage[i] = "unborn" => addr[i] = None
          /\ stage[i] # "unborn" => addr[i] \in Key
          /\ stage[i] \in {"unborn", "creating"} => own[i] = None
          /\ stage[i] \notin {"unborn", "creating"} => own[i] # None
          /\ stage[i] \in {"live", "closed"} =>
                addr[i] \in DOMAIN registry /\ registry[addr[i]] = own[i]
          /\ stage[i] = "live" => ~queues[own[i]].closed
          /\ stage[i] \in {"closed", "disposed", "dropped"} => queues[own[i]].closed
    /\ \A i, j \in Isolate : i # j =>
          /\ own[i] = own[j] => own[i] = None
          /\ addr[i] = addr[j] => addr[i] = None \/ Gone(i) \/ Gone(j)
    /\ \A k, l \in DOMAIN registry : registry[k] = registry[l] => k = l

(* The queue of an isolate that is being built is the open one at its      *)
(* address; after that, its own.                                           *)
Building(i, n) ==
    /\ stage[i] = "creating" /\ addr[i] \in DOMAIN registry /\ registry[addr[i]] = n
    /\ ~queues[n].closed

Home(i, n) == (stage[i] = "live" /\ own[i] = n) \/ Building(i, n)

(* A task is queued at home, and a post has found the home, or the         *)
(* tombstone of its own isolate.                                           *)
QueuedHome ==
    \A n \in 1 .. Len(queues) : \A t \in HeldBy(n) : t \in posted /\ Home(t.of, n)
PostsHome ==
    \A p \in posting :
        /\ p.task \in posted
        /\ Home(p.task.of, p.queue) \/ (stage[p.task.of] = "closed" /\ own[p.task.of] = p.queue)

(* A loop that runs has set its waker; past the flag, a flag that is up    *)
(* has its wake in the channel.                                            *)
Loops ==
    \A i \in Isolate : loop[i] # "off" =>
        /\ stage[i] = "live" /\ run[i] # 0
        /\ queues[own[i]].waker = [isolate |-> i, run |-> run[i]]
        /\ loop[i] # "turn" /\ queues[own[i]].ready => channel[i] > 0

ReadyRises ==
    \A n \in 1 .. Len(queues) : queues[n].tasks # << >> =>
        queues[n].ready \/ \E i \in Isolate : own[i] = n /\ loop[i] = "take"

RanHome == \A r \in ran : r.by = r.task.of

TasksInv ==
    /\ TypeOK
    /\ IsFiniteSet(posted)
    /\ Owning
    /\ QueuedHome
    /\ PostsHome
    /\ Loops
    /\ ReadyRises
    /\ DelayedAreTimed
    /\ RanHome
    /\ NothingSwallowed

-----------------------------------------------------------------------------
LEMMA Queued ==
    ASSUME TypeOK
    PROVE  /\ queues \in Seq(Queue) /\ Len(queues) \in Nat
           /\ \A n \in 1 .. Len(queues) : queues[n] \in Queue
  BY DEF TypeOK

LEMMA NewQueueType ==
    /\ NewQueue \in Queue /\ NewQueue.tasks = << >> /\ NewQueue.delayed = << >>
    /\ ~NewQueue.closed /\ ~NewQueue.ready
  <1>1. << >> \in Seq(Task) /\ << >> \in Seq(Delayed)
    OBVIOUS
  <1>2. 0 \in 0 .. MaxRuns
    BY PlatformTasksAssumption
  <1>3. NoWaker \in Waker
    BY <1>2 DEF NoWaker, Waker
  <1>4. NewQueue \in Queue
    BY <1>1, <1>3, Zenon DEF NewQueue, Queue
  <1> QED BY <1>4 DEF NewQueue

LEMMA Tombstone ==
    LET q == [NewQueue EXCEPT !.closed = TRUE]
    IN  q \in Queue /\ q.tasks = << >> /\ q.delayed = << >> /\ q.closed /\ ~q.ready
  <1> DEFINE q == [NewQueue EXCEPT !.closed = TRUE]
  <1>1. q \in Queue
    BY NewQueueType, Zenon DEF Queue
  <1>2. q.tasks = << >> /\ q.delayed = << >> /\ ~q.ready
    BY NewQueueType DEF Queue
  <1>3. q.closed
    BY NewQueueType, Zenon DEF Queue
  <1> QED BY <1>1, <1>2, <1>3

(* One queue changes, or one is added.                                     *)
LEMMA QueueBecomes ==
    ASSUME TypeOK, NEW n \in 1 .. Len(queues), NEW q \in Queue,
           queues' = [queues EXCEPT ![n] = q]
    PROVE  /\ queues' \in Seq(Queue) /\ Len(queues') = Len(queues)
           /\ \A m \in 1 .. Len(queues) : queues'[m] = IF m = n THEN q ELSE queues[m]
  BY Queued

LEMMA QueueAdded ==
    ASSUME TypeOK, queues' = Append(queues, NewQueue)
    PROVE  /\ queues' \in Seq(Queue) /\ Len(queues') = Len(queues) + 1
           /\ queues'[Len(queues) + 1] = NewQueue
           /\ \A m \in 1 .. Len(queues) : queues'[m] = queues[m]
  BY Queued, NewQueueType

LEMMA SetOf ==
    ASSUME NEW S, NEW s \in Seq(S)
    PROVE  /\ ToSet(s) \subseteq S
           /\ ToSet(s) = {} => s = << >>
           /\ \A x : x \in ToSet(s) <=> \E k \in 1 .. Len(s) : x = s[k]
  <1>1. DOMAIN s = 1 .. Len(s) /\ Len(s) \in Nat /\ \A k \in 1 .. Len(s) : s[k] \in S
    OBVIOUS
  <1>2. \A x : x \in ToSet(s) <=> \E k \in 1 .. Len(s) : x = s[k]
    BY <1>1 DEF ToSet
  <1>3. ToSet(s) \subseteq S
    BY <1>1, <1>2
  <1>4. ASSUME ToSet(s) = {} PROVE s = << >>
    <2>1. 1 \notin 1 .. Len(s)
      BY <1>2, <1>4
    <2>2. Len(s) = 0
      BY <1>1, <2>1
    <2> QED BY <2>2, EmptySeq
  <1> QED BY <1>2, <1>3, <1>4

LEMMA HeldTasks ==
    ASSUME TypeOK, NEW n \in 1 .. Len(queues)
    PROVE  /\ queues[n].tasks \in Seq(Task) /\ queues[n].delayed \in Seq(Delayed)
           /\ ToSet(queues[n].tasks) \subseteq Task
           /\ ToSet(queues[n].delayed) \subseteq Delayed
           /\ \A t \in HeldBy(n) : t \in Task /\ t.of \in Isolate
  <1>1. queues[n].tasks \in Seq(Task) /\ queues[n].delayed \in Seq(Delayed)
    BY Queued DEF Queue
  <1>2. ToSet(queues[n].tasks) \subseteq Task /\ ToSet(queues[n].delayed) \subseteq Delayed
    BY <1>1, SetOf
  <1>3. HeldBy(n) \subseteq Task
    BY <1>2 DEF HeldBy, Delayed
  <1> QED BY <1>1, <1>2, <1>3 DEF Task

LEMMA HeldNone ==
    \A q \in Queue : q.tasks = << >> /\ q.delayed = << >> =>
        ToSet(q.tasks) \cup {d.task : d \in ToSet(q.delayed)} = {}
  BY DEF ToSet

(* A queue somebody owns is home to nobody else.                           *)
LEMMA HomeAlone ==
    ASSUME TypeOK, Owning, NEW i \in Isolate, NEW j \in Isolate, own[i] # None,
           Home(j, own[i])
    PROVE  i = j /\ stage[i] = "live"
  <1>1. CASE stage[j] = "live" /\ own[j] = own[i]
    BY <1>1 DEF Owning
  <1>2. CASE Building(j, own[i])
    <2>1. stage[i] = "live" /\ addr[i] = addr[j] /\ stage[j] = "creating"
      BY <1>2 DEF Owning, TypeOK, Building
    <2>2. addr[i] # None
      BY <2>1, PlatformTasksAssumption DEF Owning
    <2> QED BY <2>1, <2>2 DEF Owning, Gone
  <1> QED BY <1>1, <1>2 DEF Home

(* So a queue that is closed is empty.                                     *)
LEMMA ClosedEmpty ==
    ASSUME TypeOK, Owning, QueuedHome, NEW n \in 1 .. Len(queues), queues[n].closed
    PROVE  queues[n].tasks = << >> /\ queues[n].delayed = << >> /\ HeldBy(n) = {}
  <1>2. HeldBy(n) = {}
    BY HeldTasks DEF QueuedHome, Home, Building, Owning
  <1>3. queues[n].tasks \in Seq(Task) /\ queues[n].delayed \in Seq(Delayed)
    BY Queued DEF Queue
  <1>4. ToSet(queues[n].tasks) = {} /\ ToSet(queues[n].delayed) = {}
    BY <1>2 DEF HeldBy
  <1> QED BY <1>2, <1>3, <1>4, SetOf

LEMMA TasksInitInv == Init => TasksInv
  <1> SUFFICES ASSUME Init PROVE TasksInv
    OBVIOUS
  <1>1. TypeOK
    BY PlatformTasksAssumption DEF Init, TypeOK, None, Awake
  <1>2. IsFiniteSet(posted)
    BY FS_EmptySet DEF Init
  <1> QED BY <1>1, <1>2
          DEF Init, TasksInv, Owning, QueuedHome, PostsHome, Loops, ReadyRises, RanHome,
              DelayedAreTimed, NothingSwallowed, Awake

-----------------------------------------------------------------------------
(* What a step keeps.                                                      *)

LEMMA HomesKept ==
    ASSUME TasksInv, UNCHANGED isolateVars, posted' = posted, posting' \subseteq posting,
           Len(queues') = Len(queues),
           \A n \in 1 .. Len(queues) : queues'[n].closed = queues[n].closed,
           \A n \in 1 .. Len(queues) : \A t \in HeldBy(n)' :
               \/ t \in HeldBy(n)
               \/ \E p \in posting : p.task = t /\ p.queue = n /\ ~queues[n].closed
    PROVE  Owning' /\ QueuedHome' /\ PostsHome'
  <1>1. Owning'
    <2>1. \A i \in Isolate : own[i] # None => own[i] \in 1 .. Len(queues)
      BY Queued DEF TasksInv, TypeOK, None
    <2>2. ASSUME NEW i \in Isolate
          PROVE  /\ stage[i] = "live" => ~queues'[own[i]].closed
                 /\ stage[i] \in {"closed", "disposed", "dropped"} => queues'[own[i]].closed
      BY <2>1, <2>2 DEF TasksInv, Owning
    <2> QED BY <2>2, Zenon DEF TasksInv, Owning, isolateVars, Gone
  <1>2. ASSUME NEW i, NEW n \in 1 .. Len(queues), Home(i, n)
        PROVE  Home(i, n)'
    BY <1>2 DEF Home, Building, isolateVars
  <1>3. QueuedHome'
    <2>1. SUFFICES ASSUME NEW n \in 1 .. Len(queues), NEW t \in HeldBy(n)'
                   PROVE  t \in posted /\ Home(t.of, n)
      BY <1>2 DEF QueuedHome
    <2>2. CASE t \in HeldBy(n)
      BY <2>2 DEF TasksInv, QueuedHome
    <2>3. ASSUME NEW p \in posting, p.task = t, p.queue = n, ~queues[n].closed
          PROVE  t \in posted /\ Home(t.of, n)
      <3>1. t \in posted /\ (Home(t.of, n) \/ (stage[t.of] = "closed" /\ own[t.of] = n))
        BY <2>3 DEF TasksInv, PostsHome
      <3>2. t.of \in Isolate
        BY <3>1 DEF TasksInv, TypeOK, Task
      <3> QED BY <2>3, <3>1, <3>2 DEF TasksInv, Owning
    <2> QED BY <2>2, <2>3
  <1>4. PostsHome'
    <2>1. \A p \in posting : p.queue \in 1 .. Len(queues)
      BY DEF TasksInv, TypeOK
    <2> QED BY <1>2, <2>1 DEF TasksInv, PostsHome, isolateVars
  <1> QED BY <1>1, <1>3, <1>4

(* The deadlines the timer knows, or will.                                 *)
LEMMA TimedKept ==
    ASSUME TasksInv, UNCHANGED <<wakes, asleep, promoting>>, arming \subseteq arming',
           \A n \in 1 .. Len(queues') : \A d \in ToSet(queues'[n].delayed) :
               \/ n \in 1 .. Len(queues) /\ d \in ToSet(queues[n].delayed)
               \/ [queue |-> n, due |-> d.due] \in arming'
    PROVE  DelayedAreTimed'
  BY DEF TasksInv, DelayedAreTimed

(* The timer's own steps.                                                  *)
LEMMA TimerOnly ==
    ASSUME TasksInv, UNCHANGED <<isolateVars, queues, posting, loopVars, posted, ran, destroyed>>,
           TypeOK', DelayedAreTimed'
    PROVE  TasksInv'
  <1>1. Owning' /\ QueuedHome' /\ PostsHome'
    BY HomesKept DEF HeldBy
  <1>2. Loops' /\ ReadyRises'
    BY DEF TasksInv, Loops, ReadyRises, loopVars, isolateVars
  <1>3. RanHome' /\ NothingSwallowed' /\ IsFiniteSet(posted')
    BY DEF TasksInv, RanHome, NothingSwallowed, isolateVars
  <1> QED BY <1>1, <1>2, <1>3 DEF TasksInv

LEMMA TickInv == ASSUME TasksInv, Tick PROVE TasksInv'
  <1>1. TypeOK'
    BY PlatformTasksAssumption DEF TasksInv, TypeOK, Tick, isolateVars, loopVars
  <1>2. DelayedAreTimed'
    BY DEF TasksInv, Tick, DelayedAreTimed
  <1> QED BY <1>1, <1>2, TimerOnly DEF Tick

LEMMA TimesOutInv == ASSUME TasksInv, TimerTimesOut PROVE TasksInv'
  <1>1. TypeOK'
    BY DEF TasksInv, TypeOK, TimerTimesOut, isolateVars, loopVars
  <1>2. DelayedAreTimed'
    BY DEF TasksInv, TimerTimesOut, DelayedAreTimed
  <1> QED BY <1>1, <1>2, TimerOnly DEF TimerTimesOut

LEMMA ScheduleInv == ASSUME TasksInv, NEW a \in arming, Schedule(a) PROVE TasksInv'
  <1>1. TypeOK'
    BY DEF TasksInv, TypeOK, Schedule, isolateVars, loopVars
  <1>2. DelayedAreTimed'
    <2>1. arming' \cup wakes' = arming \cup wakes
      BY DEF Schedule
    <2>2. ASSUME asleep' # Awake, NEW w \in wakes' PROVE asleep' # Forever /\ asleep' <= w.due
      <3>1. asleep' = asleep /\ wakes' = wakes \cup {a} /\ ~Earliest(a.due)
        BY <2>2 DEF Schedule
      <3>2. PICK v \in wakes : ~(a.due < v.due)
        BY <3>1 DEF Earliest
      <3>3. asleep # Forever /\ asleep <= v.due /\ \A u \in wakes : asleep <= u.due
        BY <2>2, <3>1 DEF TasksInv, DelayedAreTimed
      <3>4. asleep \in Nat /\ v.due \in Nat /\ a.due \in Nat
        BY <2>2, <3>1, <3>3 DEF TasksInv, TypeOK
      <3> QED BY <2>2, <3>1, <3>2, <3>3, <3>4
    <2> QED BY <2>1, <2>2 DEF TasksInv, DelayedAreTimed, Schedule
  <1> QED BY <1>1, <1>2, TimerOnly DEF Schedule

LEMMA LeastOf ==
    ASSUME NEW S \in SUBSET Nat, S # {}
    PROVE  \E t \in S : \A u \in S : t <= u
  <1>1. PICK t \in S : \A u \in S : ~(<<u, t>> \in OpToRel(<, Nat))
    BY NatLessThanWellFounded, WFMin
  <1>2. \A u \in S : ~(u < t)
    <2>1. SUFFICES ASSUME NEW u \in S, u < t PROVE FALSE
      OBVIOUS
    <2>2. <<u, t>> \in OpToRel(<, Nat)
      BY <2>1 DEF OpToRel
    <2> QED BY <1>1, <2>2
  <1> QED BY <1>2

LEMMA TimerRunInv == ASSUME TasksInv, TimerRun PROVE TasksInv'
  <1> DEFINE due == {w \in wakes : w.due <= clock}
             ts == {w.due : w \in wakes}
             least == CHOOSE t \in ts : \A w \in wakes : t <= w.due
  <1>1. /\ wakes' = wakes \ due /\ promoting = {} /\ asleep = Awake
        /\ promoting' = {[queue |-> w.queue, now |-> clock] : w \in due}
        /\ asleep' = IF due # {} THEN Awake ELSE IF wakes = {} THEN Forever ELSE least
        /\ UNCHANGED <<isolateVars, queues, posting, arming, clock, loopVars, posted, ran, destroyed>>
    BY DEF TimerRun
  <1>2. clock \in Nat /\ wakes \subseteq [queue : 1 .. Len(queues), due : Nat]
    BY PlatformTasksAssumption DEF TasksInv, TypeOK
  <1>3. wakes # {} => least \in Nat /\ \A w \in wakes : least <= w.due
    <2>1. ts \in SUBSET Nat
      BY <1>2
    <2>2. ASSUME wakes # {} PROVE \E t \in ts : \A w \in wakes : t <= w.due
      <3>1. PICK t \in ts : \A u \in ts : t <= u
        BY <2>1, <2>2, LeastOf
      <3> QED BY <3>1
    <2> HIDE DEF ts
    <2>3. ASSUME wakes # {} PROVE least \in ts /\ \A w \in wakes : least <= w.due
      BY <2>2, <2>3
    <2> QED BY <2>1, <2>3
  <1> HIDE DEF least
  <1>4. TypeOK'
    <2>1. promoting' \subseteq [queue : 1 .. Len(queues), now : Nat]
      BY <1>1, <1>2
    <2>2. asleep' \in Nat \cup {Awake, Forever}
      BY <1>1, <1>3
    <2>3. arming' \cup wakes' \subseteq [queue : 1 .. Len(queues), due : Nat]
      BY <1>1 DEF TasksInv, TypeOK
    <2> HIDE DEF due
    <2> QED BY <1>1, <2>1, <2>2, <2>3 DEF TasksInv, TypeOK, isolateVars, loopVars
  <1>5. ASSUME asleep' # Awake, NEW w \in wakes' PROVE asleep' # Forever /\ asleep' <= w.due
    BY <1>1, <1>3, <1>5 DEF Forever
  <1>6. ASSUME NEW n \in 1 .. Len(queues), NEW d \in ToSet(queues[n].delayed)
        PROVE  \/ [queue |-> n, due |-> d.due] \in arming \cup wakes'
               \/ \E p \in promoting' : p.queue = n /\ d.due <= p.now
    <2>1. [queue |-> n, due |-> d.due] \in arming \cup wakes
      BY <1>1, <1>6 DEF TasksInv, DelayedAreTimed
    <2>2. CASE [queue |-> n, due |-> d.due] \in due
      <3>1. [queue |-> n, now |-> clock] \in promoting' /\ d.due <= clock
        BY <1>1, <2>2
      <3> QED BY <3>1
    <2> QED BY <1>1, <2>1, <2>2
  <1>7. DelayedAreTimed'
    BY <1>1, <1>5, <1>6 DEF DelayedAreTimed
  <1> QED BY <1>1, <1>4, <1>7, TimerOnly

-----------------------------------------------------------------------------
(* The loop of an isolate.                                                 *)

LEMMA OwnQueue ==
    ASSUME TasksInv, NEW i \in Isolate, stage[i] \notin {"unborn", "creating"}
    PROVE  own[i] \in 1 .. Len(queues) /\ queues[own[i]] \in Queue
  <1>1. own[i] # None /\ own[i] \in 0 .. Len(queues)
    BY DEF TasksInv, Owning, TypeOK
  <1> QED BY <1>1, Queued DEF None, TasksInv

LEMMA LoopMoves ==
    ASSUME TasksInv, OnlyLoop, NEW i \in Isolate, stage[i] = "live",
           NEW q \in Queue, queues' = [queues EXCEPT ![own[i]] = q],
           q.closed = queues[own[i]].closed, q.delayed = queues[own[i]].delayed,
           q.tasks = queues[own[i]].tasks \/ q.tasks = << >>,
           NEW l \in {"off", "turn", "take", "poll", "blocked"},
           loop' = [loop EXCEPT ![i] = l],
           NEW r \in 0 .. MaxRuns, run' = [run EXCEPT ![i] = r],
           NEW c \in Nat, channel' = [channel EXCEPT ![i] = c],
           ran' \subseteq [task : Task, by : Isolate], RanHome',
           l # "off" => r # 0 /\ q.waker = [isolate |-> i, run |-> r],
           l \notin {"off", "turn"} /\ q.ready => c > 0,
           q.tasks # << >> => q.ready \/ l = "take"
    PROVE  TasksInv'
  <1> DEFINE n == own[i]
  <1>0. TypeOK /\ n \in 1 .. Len(queues) /\ queues[n] \in Queue
    BY OwnQueue DEF TasksInv
  <1>1. /\ queues' \in Seq(Queue) /\ Len(queues') = Len(queues)
        /\ \A m \in 1 .. Len(queues) : queues'[m] = IF m = n THEN q ELSE queues[m]
    BY <1>0, QueueBecomes
  <1>2. TypeOK'
    BY <1>1 DEF TasksInv, TypeOK, OnlyLoop, isolateVars, timerVars
  <1>3. Owning' /\ QueuedHome' /\ PostsHome'
    <2>1. \A m \in 1 .. Len(queues) : queues'[m].closed = queues[m].closed
      BY <1>1
    <2>2. ASSUME NEW m \in 1 .. Len(queues), NEW t \in HeldBy(m)' PROVE t \in HeldBy(m)
      <3>1. CASE m = n
        <4>1. q.tasks = << >> => ToSet(q.tasks) = {}
          BY DEF ToSet
        <4> QED BY <1>1, <2>2, <3>1, <4>1 DEF HeldBy
      <3>2. CASE m # n
        BY <1>1, <2>2, <3>2 DEF HeldBy
      <3> QED BY <3>1, <3>2
    <2> QED BY <1>1, <2>1, <2>2, HomesKept DEF OnlyLoop
  <1>4. DelayedAreTimed'
    <2>1. \A m \in 1 .. Len(queues) : queues'[m].delayed = queues[m].delayed
      BY <1>1
    <2> QED BY <1>1, <2>1, TimedKept DEF OnlyLoop, timerVars
  <1>5. \A j \in Isolate : /\ loop'[j] = IF j = i THEN l ELSE loop[j]
                           /\ run'[j] = IF j = i THEN r ELSE run[j]
                           /\ channel'[j] = IF j = i THEN c ELSE channel[j]
    BY DEF TasksInv, TypeOK
  <1>6. stage' = stage /\ own' = own
    BY DEF OnlyLoop, isolateVars
  <1>7. Loops'
    <2>1. SUFFICES ASSUME NEW j \in Isolate, loop'[j] # "off"
                   PROVE  /\ stage[j] = "live" /\ run'[j] # 0
                          /\ queues'[own[j]].waker = [isolate |-> j, run |-> run'[j]]
                          /\ loop'[j] # "turn" /\ queues'[own[j]].ready => channel'[j] > 0
      BY <1>6, Zenon DEF Loops
    <2>2. CASE j = i
      BY <1>0, <1>1, <1>5, <2>1, <2>2
    <2>3. CASE j # i
      <3>1. loop'[j] = loop[j] /\ run'[j] = run[j] /\ channel'[j] = channel[j] /\ stage[j] = "live"
        BY <1>5, <2>1, <2>3 DEF TasksInv, Loops
      <3>2. own[j] # n /\ own[j] \in 1 .. Len(queues)
        BY <2>3, <3>1, OwnQueue DEF TasksInv, Owning
      <3>3. queues'[own[j]] = queues[own[j]]
        BY <1>1, <3>2
      <3> QED BY <2>1, <3>1, <3>3 DEF TasksInv, Loops
    <2> QED BY <2>2, <2>3
  <1>8. ReadyRises'
    <2>1. SUFFICES ASSUME NEW m \in 1 .. Len(queues), queues'[m].tasks # << >>
                   PROVE  queues'[m].ready \/ \E j \in Isolate : own[j] = m /\ loop'[j] = "take"
      BY <1>1, <1>6, Zenon DEF ReadyRises
    <2>2. CASE m = n
      BY <1>0, <1>1, <1>5, <2>1, <2>2
    <2>3. CASE m # n
      BY <1>1, <1>5, <2>1, <2>3 DEF TasksInv, ReadyRises
    <2> QED BY <2>2, <2>3
  <1>9. NothingSwallowed' /\ IsFiniteSet(posted')
    BY DEF TasksInv, NothingSwallowed, OnlyLoop, isolateVars
  <1> QED BY <1>2, <1>3, <1>4, <1>7, <1>8, <1>9 DEF TasksInv

LEMMA SetWakerInv == ASSUME TasksInv, NEW i \in Isolate, SetWaker(i) PROVE TasksInv'
  <1> DEFINE o == queues[own[i]]
             r == run[i] + 1
             w == [isolate |-> i, run |-> r]
             q == [o EXCEPT !.waker = w]
             c == IF o.ready THEN 1 ELSE 0
  <1>1. /\ stage[i] = "live" /\ loop[i] = "off" /\ run[i] < MaxRuns /\ run[i] \in 0 .. MaxRuns
        /\ own[i] \in 1 .. Len(queues) /\ o \in Queue /\ run \in [Isolate -> 0 .. MaxRuns]
        /\ queues \in Seq(Queue)
    BY OwnQueue DEF SetWaker, TasksInv, TypeOK
  <1>2. /\ run' = [run EXCEPT ![i] = r] /\ loop' = [loop EXCEPT ![i] = "turn"]
        /\ channel' = [channel EXCEPT ![i] = c] /\ ran' = ran /\ OnlyLoop
    BY DEF SetWaker
  <1>3. r \in 0 .. MaxRuns /\ r # 0 /\ run'[i] = r
    BY <1>1, <1>2, PlatformTasksAssumption
  <1>4. queues' = [queues EXCEPT ![own[i]] = q]
    BY <1>1, <1>3 DEF SetWaker
  <1>5. w \in Waker /\ c \in Nat
    BY <1>3 DEF Waker
  <1> HIDE DEF w, c
  <1>6. /\ q \in Queue /\ q.waker = w /\ q.closed = o.closed /\ q.delayed = o.delayed
        /\ q.tasks = o.tasks /\ q.ready = o.ready
    BY <1>1, <1>5 DEF Queue
  <1>7. o.tasks # << >> => o.ready
    BY <1>1 DEF TasksInv, ReadyRises, Owning, Loops
  <1>8. ran \subseteq [task : Task, by : Isolate] /\ RanHome'
    BY <1>2 DEF TasksInv, TypeOK, RanHome
  <1> HIDE DEF q, o, r
  <1> QED BY <1>1, <1>2, <1>3, <1>4, <1>5, <1>6, <1>7, <1>8, LoopMoves DEF o, w

LEMMA HasReadyInv == ASSUME TasksInv, NEW i \in Isolate, HasReady(i) PROVE TasksInv'
  <1> DEFINE o == queues[own[i]]
             q == [o EXCEPT !.ready = FALSE]
             l == IF o.ready THEN "take" ELSE "poll"
  <1>1. /\ loop[i] = "turn" /\ stage[i] = "live" /\ run[i] # 0
        /\ o.waker = [isolate |-> i, run |-> run[i]]
    BY DEF HasReady, TasksInv, Loops
  <1>2. /\ run[i] \in 0 .. MaxRuns /\ channel[i] \in Nat /\ own[i] \in 1 .. Len(queues)
        /\ o \in Queue /\ run \in [Isolate -> 0 .. MaxRuns] /\ queues \in Seq(Queue)
        /\ channel \in [Isolate -> Nat]
    BY <1>1, OwnQueue DEF TasksInv, TypeOK
  <1>3. /\ run' = [run EXCEPT ![i] = run[i]] /\ channel' = [channel EXCEPT ![i] = channel[i]]
        /\ loop' = [loop EXCEPT ![i] = l] /\ ran' = ran /\ OnlyLoop
    BY <1>2 DEF HasReady
  <1>4. queues' = [queues EXCEPT ![own[i]] = q]
    BY <1>2 DEF HasReady
  <1>5. q \in Queue
    BY <1>2, Zenon DEF Queue
  <1>6. ~q.ready /\ q.waker = o.waker /\ q.closed = o.closed /\ q.delayed = o.delayed /\ q.tasks = o.tasks
    BY <1>2 DEF Queue
  <1>7. o.tasks # << >> => o.ready
    <2>1. \A j \in Isolate : own[j] = own[i] => j = i
      BY <1>1 DEF TasksInv, Owning
    <2> QED BY <1>1, <1>2, <2>1 DEF TasksInv, ReadyRises
  <1>8. ran \subseteq [task : Task, by : Isolate] /\ RanHome'
    BY <1>3 DEF TasksInv, TypeOK, RanHome
  <1> HIDE DEF q
  <1> QED BY <1>1, <1>2, <1>3, <1>4, <1>5, <1>6, <1>7, <1>8, LoopMoves

LEMMA TakeReadyInv == ASSUME TasksInv, NEW i \in Isolate, TakeReady(i) PROVE TasksInv'
  <1> DEFINE o == queues[own[i]]
             q == [o EXCEPT !.tasks = << >>]
  <1>1. /\ loop[i] = "take" /\ stage[i] = "live" /\ run[i] # 0
        /\ o.waker = [isolate |-> i, run |-> run[i]] /\ (o.ready => channel[i] > 0)
    BY DEF TakeReady, TasksInv, Loops
  <1>2. /\ run[i] \in 0 .. MaxRuns /\ channel[i] \in Nat /\ own[i] \in 1 .. Len(queues)
        /\ o \in Queue /\ run \in [Isolate -> 0 .. MaxRuns] /\ queues \in Seq(Queue)
        /\ channel \in [Isolate -> Nat]
    BY <1>1, OwnQueue DEF TasksInv, TypeOK
  <1>3. /\ run' = [run EXCEPT ![i] = run[i]] /\ channel' = [channel EXCEPT ![i] = channel[i]]
        /\ loop' = [loop EXCEPT ![i] = "poll"] /\ OnlyLoop
        /\ ran' = ran \cup {[task |-> t, by |-> i] : t \in ToSet(o.tasks)}
    BY <1>2 DEF TakeReady
  <1>4. queues' = [queues EXCEPT ![own[i]] = q]
    BY <1>2 DEF TakeReady
  <1>5. /\ q \in Queue /\ q.ready = o.ready /\ q.waker = o.waker /\ q.closed = o.closed
        /\ q.delayed = o.delayed /\ q.tasks = << >>
    <2>1. << >> \in Seq(Task)
      OBVIOUS
    <2> QED BY <1>2, <2>1, Zenon DEF Queue
  <1>6. \A t \in ToSet(o.tasks) : t \in Task /\ t.of = i
    <2>1. SUFFICES ASSUME NEW t \in ToSet(o.tasks) PROVE t \in Task /\ t.of = i
      OBVIOUS
    <2>2. t \in HeldBy(own[i]) /\ TypeOK /\ Owning
      BY DEF HeldBy, TasksInv
    <2>3. t \in Task /\ t.of \in Isolate /\ Home(t.of, own[i])
      BY <1>2, <2>2, HeldTasks DEF TasksInv, QueuedHome
    <2>4. own[i] # None
      BY <1>2 DEF None
    <2> QED BY <2>2, <2>3, <2>4, HomeAlone
  <1>7. ran' \subseteq [task : Task, by : Isolate] /\ RanHome'
    BY <1>3, <1>6 DEF TasksInv, TypeOK, RanHome
  <1>8. (q.ready => channel[i] > 0) /\ q.waker = [isolate |-> i, run |-> run[i]]
    BY <1>1, <1>5
  <1> HIDE DEF q
  <1> QED BY <1>1, <1>2, <1>3, <1>4, <1>5, <1>7, <1>8, LoopMoves

LEMMA PollInv == ASSUME TasksInv, NEW i \in Isolate, Poll(i) \/ EndRun(i) PROVE TasksInv'
  <1> DEFINE o == queues[own[i]]
  <1>1. /\ loop[i] \in {"poll", "blocked"} /\ stage[i] = "live" /\ run[i] # 0
        /\ o.waker = [isolate |-> i, run |-> run[i]] /\ (o.ready => channel[i] > 0)
    BY DEF Poll, EndRun, TasksInv, Loops
  <1>2. /\ run[i] \in 0 .. MaxRuns /\ channel[i] \in Nat /\ own[i] \in 1 .. Len(queues)
        /\ o \in Queue /\ run \in [Isolate -> 0 .. MaxRuns] /\ queues \in Seq(Queue)
        /\ channel \in [Isolate -> Nat]
    BY <1>1, OwnQueue DEF TasksInv, TypeOK
  <1>3. /\ run' = [run EXCEPT ![i] = run[i]] /\ queues' = [queues EXCEPT ![own[i]] = o]
        /\ ran' = ran /\ OnlyLoop
    BY <1>2 DEF Poll, EndRun
  <1>4. ran \subseteq [task : Task, by : Isolate] /\ RanHome'
    BY <1>3 DEF TasksInv, TypeOK, RanHome
  <1>5. o.tasks # << >> => o.ready
    <2>1. \A j \in Isolate : own[j] = own[i] => j = i
      BY <1>1 DEF TasksInv, Owning
    <2> QED BY <1>1, <1>2, <2>1 DEF TasksInv, ReadyRises
  <1>6. PICK l \in {"off", "turn", "blocked"}, c \in Nat :
           /\ loop' = [loop EXCEPT ![i] = l] /\ channel' = [channel EXCEPT ![i] = c]
           /\ l = "blocked" => ~o.ready
    <2>1. CASE EndRun(i)
      BY <1>2, <2>1 DEF EndRun
    <2>2. CASE Poll(i)
      <3> DEFINE l == IF channel[i] > 0 THEN "turn" ELSE "blocked"
                 c == IF channel[i] > 0 THEN channel[i] - 1 ELSE 0
      <3>1. loop' = [loop EXCEPT ![i] = l] /\ channel' = [channel EXCEPT ![i] = c]
        BY <1>2, <2>2 DEF Poll
      <3>2. c \in Nat /\ l \in {"turn", "blocked"} /\ (l = "blocked" => ~o.ready)
        BY <1>1, <1>2
      <3> QED BY <3>1, <3>2
    <2> QED BY <2>1, <2>2
  <1> QED BY <1>1, <1>2, <1>3, <1>4, <1>5, <1>6, LoopMoves

-----------------------------------------------------------------------------
(* Posts and promotions.                                                   *)

LEMMA SignalQueue ==
    ASSUME TypeOK, NEW n \in 1 .. Len(queues), NEW ts \in Seq(Task), NEW ds \in Seq(Delayed),
           Signal(n, ts, ds)
    PROVE  /\ queues' \in Seq(Queue) /\ Len(queues') = Len(queues)
           /\ \A m \in 1 .. Len(queues) : m # n => queues'[m] = queues[m]
           /\ queues'[n].tasks = ts /\ queues'[n].delayed = ds /\ queues'[n].ready
           /\ queues'[n].closed = queues[n].closed /\ queues'[n].waker = queues[n].waker
  <1> DEFINE q == [queues[n] EXCEPT !.tasks = ts, !.delayed = ds, !.ready = TRUE]
  <1>1. queues \in Seq(Queue) /\ queues[n] \in Queue
    BY Queued
  <1>2. /\ q \in Queue /\ q.tasks = ts /\ q.delayed = ds /\ q.ready
        /\ q.closed = queues[n].closed /\ q.waker = queues[n].waker
    <2>1. q \in Queue
      BY <1>1, Zenon DEF Queue
    <2>2. q.ready
      BY <1>1, Zenon DEF Queue
    <2>3. /\ q.tasks = ts /\ q.delayed = ds
          /\ q.closed = queues[n].closed /\ q.waker = queues[n].waker
      BY <1>1 DEF Queue
    <2> QED BY <2>1, <2>2, <2>3
  <1>3. queues' = [queues EXCEPT ![n] = q]
    BY <1>1 DEF Signal
  <1> HIDE DEF q
  <1>4. /\ queues' \in Seq(Queue) /\ Len(queues') = Len(queues)
        /\ \A m \in 1 .. Len(queues) : queues'[m] = IF m = n THEN q ELSE queues[m]
    BY <1>2, <1>3, QueueBecomes
  <1> QED BY <1>2, <1>4

LEMMA SignalInv ==
    ASSUME TasksInv, NEW n \in 1 .. Len(queues), NEW ts \in Seq(Task), NEW ds \in Seq(Delayed),
           Signal(n, ts, ds), UNCHANGED <<isolateVars, loop, run, posted, ran, destroyed>>,
           UNCHANGED <<arming, wakes, asleep, clock>>,
           posting' \subseteq posting, promoting' \subseteq promoting, DelayedAreTimed',
           \A t \in ToSet(ts) \cup {d.task : d \in ToSet(ds)} :
               \/ t \in HeldBy(n)
               \/ \E p \in posting : p.task = t /\ p.queue = n /\ ~queues[n].closed
    PROVE  TasksInv'
  <1>1. /\ queues' \in Seq(Queue) /\ Len(queues') = Len(queues)
        /\ \A m \in 1 .. Len(queues) : m # n => queues'[m] = queues[m]
        /\ queues'[n].tasks = ts /\ queues'[n].delayed = ds /\ queues'[n].ready
        /\ queues'[n].closed = queues[n].closed /\ queues'[n].waker = queues[n].waker
    BY SignalQueue DEF TasksInv
  <1>2. /\ channel' \in [Isolate -> Nat] /\ \A j \in Isolate : channel'[j] >= channel[j]
        /\ \A j \in Isolate : /\ ~queues[n].ready /\ run[j] # 0
                              /\ queues[n].waker = [isolate |-> j, run |-> run[j]]
                              => channel'[j] > 0
    <2>1. channel \in [Isolate -> Nat]
      BY DEF TasksInv, TypeOK
    <2>2. CASE queues[n].ready
      BY <2>1, <2>2 DEF Signal
    <2>3. CASE ~queues[n].ready
      <3>1. channel' = Wakes(queues[n].waker)
        BY <2>3 DEF Signal
      <3> QED BY <2>1, <2>3, <3>1 DEF Wakes, NoWaker
    <2> QED BY <2>2, <2>3
  <1>3. TypeOK'
    BY <1>1, <1>2 DEF TasksInv, TypeOK, isolateVars
  <1>4. Owning' /\ QueuedHome' /\ PostsHome'
    <2>1. \A m \in 1 .. Len(queues) : queues'[m].closed = queues[m].closed
      BY <1>1
    <2>2. \A m \in 1 .. Len(queues) : m # n => HeldBy(m)' = HeldBy(m)
      BY <1>1 DEF HeldBy
    <2>3. HeldBy(n)' = ToSet(ts) \cup {d.task : d \in ToSet(ds)}
      BY <1>1 DEF HeldBy
    <2> QED BY <1>1, <2>1, <2>2, <2>3, HomesKept
  <1>5. stage' = stage /\ own' = own
    BY DEF isolateVars
  <1>6. Loops'
    <2>1. SUFFICES ASSUME NEW j \in Isolate, loop[j] # "off"
                   PROVE  /\ stage[j] = "live" /\ run[j] # 0
                          /\ queues'[own[j]].waker = [isolate |-> j, run |-> run[j]]
                          /\ loop[j] # "turn" /\ queues'[own[j]].ready => channel'[j] > 0
      BY <1>5, Zenon DEF Loops
    <2>2. /\ stage[j] = "live" /\ run[j] # 0
          /\ queues[own[j]].waker = [isolate |-> j, run |-> run[j]]
          /\ loop[j] # "turn" /\ queues[own[j]].ready => channel[j] > 0
      BY <2>1 DEF TasksInv, Loops
    <2>3. own[j] \in 1 .. Len(queues) /\ channel[j] \in Nat /\ channel'[j] \in Nat
      BY <1>2, <2>2, OwnQueue DEF TasksInv, TypeOK
    <2>4. CASE own[j] # n
      <3>1. queues'[own[j]] = queues[own[j]]
        BY <1>1, <2>3, <2>4
      <3> QED BY <1>2, <2>2, <2>3, <3>1
    <2>5. CASE own[j] = n
      BY <1>1, <1>2, <2>2, <2>3, <2>5
    <2> QED BY <2>4, <2>5
  <1>7. ReadyRises'
    BY <1>1, <1>5 DEF TasksInv, ReadyRises
  <1>8. RanHome' /\ NothingSwallowed' /\ IsFiniteSet(posted')
    BY <1>5 DEF TasksInv, RanHome, NothingSwallowed
  <1> QED BY <1>3, <1>4, <1>6, <1>7, <1>8 DEF TasksInv

LEMMA AppendedSet ==
    ASSUME NEW S, NEW s \in Seq(S), NEW x \in S
    PROVE  Append(s, x) \in Seq(S) /\ ToSet(Append(s, x)) = ToSet(s) \cup {x}
  <1> DEFINE a == Append(s, x)
  <1>1. /\ a \in Seq(S) /\ Len(a) = Len(s) + 1 /\ Len(s) \in Nat
        /\ \A k \in 1 .. Len(s) : a[k] = s[k]
        /\ a[Len(s) + 1] = x
    OBVIOUS
  <1> HIDE DEF a
  <1>2. ASSUME NEW y \in ToSet(a) PROVE y \in ToSet(s) \cup {x}
    <2>1. PICK k \in 1 .. Len(a) : y = a[k]
      BY <1>1, <1>2, SetOf
    <2>2. CASE k = Len(s) + 1
      BY <1>1, <2>1, <2>2
    <2>3. CASE k \in 1 .. Len(s)
      BY <1>1, <2>1, <2>3, SetOf
    <2> QED BY <1>1, <2>1, <2>2, <2>3
  <1>3. ASSUME NEW y \in ToSet(s) \cup {x} PROVE y \in ToSet(a)
    <2>1. CASE y = x
      <3>1. Len(s) + 1 \in 1 .. Len(a)
        BY <1>1
      <3> QED BY <1>1, <2>1, <3>1, SetOf
    <2>2. CASE y \in ToSet(s)
      <3>1. PICK k \in 1 .. Len(s) : y = s[k]
        BY <2>2, SetOf
      <3>2. k \in 1 .. Len(a) /\ y = a[k]
        BY <1>1, <3>1
      <3> QED BY <1>1, <3>2, SetOf
    <2> QED BY <1>3, <2>1, <2>2
  <1> QED BY <1>1, <1>2, <1>3 DEF a

LEMMA PostInv == ASSUME TasksInv, NEW p \in posting, Post(p) PROVE TasksInv'
  <1> DEFINE n == p.queue
             o == queues[n]
  <1>0. /\ n \in 1 .. Len(queues) /\ o \in Queue /\ p.task \in Task /\ p.due \in Nat
        /\ queues \in Seq(Queue) /\ TypeOK /\ p.task.of \in Isolate
    BY Queued DEF TasksInv, TypeOK, Task
  <1>1. /\ posting' = posting \ {p} /\ UNCHANGED <<isolateVars, loop, run, posted, ran>>
        /\ UNCHANGED <<wakes, asleep, promoting, clock>>
    BY DEF Post
  <1>2. o.tasks \in Seq(Task) /\ o.delayed \in Seq(Delayed)
    BY <1>0 DEF Queue
  <1>3. CASE o.closed
    <2>1. destroyed' = destroyed \cup {p.task} /\ UNCHANGED <<queues, channel, arming>>
      BY <1>3 DEF Post
    <2>2. p.task \in posted /\ stage[p.task.of] = "closed"
      BY <1>0, <1>3 DEF TasksInv, PostsHome, Home, Building, Owning
    <2>3. TypeOK'
      BY <1>1, <2>1, <2>2 DEF TasksInv, TypeOK, isolateVars
    <2>4. Owning' /\ QueuedHome' /\ PostsHome'
      BY <1>1, <2>1, HomesKept DEF HeldBy
    <2>5. Loops' /\ ReadyRises' /\ DelayedAreTimed' /\ RanHome' /\ IsFiniteSet(posted')
      BY <1>1, <2>1
         DEF TasksInv, Loops, ReadyRises, DelayedAreTimed, RanHome, isolateVars
    <2>6. NothingSwallowed'
      BY <1>1, <2>1, <2>2 DEF TasksInv, NothingSwallowed, isolateVars
    <2> QED BY <2>3, <2>4, <2>5, <2>6 DEF TasksInv
  <1>4. CASE ~o.closed /\ p.due = Now
    <2> DEFINE ts == Append(o.tasks, p.task)
    <2>1. /\ Signal(n, ts, o.delayed) /\ UNCHANGED <<arming, destroyed>>
      BY <1>4 DEF Post
    <2>2. ts \in Seq(Task) /\ ToSet(ts) = ToSet(o.tasks) \cup {p.task}
      BY <1>0, <1>2, AppendedSet
    <2> HIDE DEF ts
    <2>3. /\ Len(queues') = Len(queues) /\ queues'[n].delayed = o.delayed
          /\ \A m \in 1 .. Len(queues) : m # n => queues'[m] = queues[m]
      BY <1>0, <1>2, <2>1, <2>2, SignalQueue
    <2>4. DelayedAreTimed'
      BY <1>1, <2>1, <2>3, TimedKept
    <2>5. \A t \in ToSet(ts) \cup {d.task : d \in ToSet(o.delayed)} :
             t \in HeldBy(n) \/ t = p.task
      BY <2>2 DEF HeldBy
    <2> QED BY <1>0, <1>1, <1>2, <1>4, <2>1, <2>2, <2>4, <2>5, SignalInv
  <1>5. CASE ~o.closed /\ p.due # Now
    <2> DEFINE x == [task |-> p.task, due |-> p.due]
               ds == Append(o.delayed, x)
               q == [o EXCEPT !.delayed = ds]
    <2>1. /\ queues' = [queues EXCEPT ![n] = q] /\ UNCHANGED <<channel, destroyed>>
          /\ arming' = arming \cup {[queue |-> n, due |-> p.due]}
      BY <1>0, <1>5 DEF Post
    <2>2. x \in Delayed /\ x.task = p.task /\ x.due = p.due
      BY <1>0 DEF Delayed
    <2> HIDE DEF x
    <2>3. ds \in Seq(Delayed) /\ ToSet(ds) = ToSet(o.delayed) \cup {x}
      BY <1>2, <2>2, AppendedSet
    <2> HIDE DEF ds
    <2>4. /\ q \in Queue /\ q.tasks = o.tasks /\ q.delayed = ds /\ q.closed = o.closed
          /\ q.ready = o.ready /\ q.waker = o.waker
      BY <1>0, <2>3 DEF Queue
    <2> HIDE DEF q
    <2>5. /\ queues' \in Seq(Queue) /\ Len(queues') = Len(queues)
          /\ \A m \in 1 .. Len(queues) : queues'[m] = IF m = n THEN q ELSE queues[m]
      BY <1>0, <2>1, <2>4, QueueBecomes
    <2>6. TypeOK'
      BY <1>0, <1>1, <2>1, <2>5 DEF TasksInv, TypeOK, isolateVars
    <2>7. \A m \in 1 .. Len(queues) :
             /\ queues'[m].closed = queues[m].closed /\ queues'[m].ready = queues[m].ready
             /\ queues'[m].waker = queues[m].waker /\ queues'[m].tasks = queues[m].tasks
      BY <2>4, <2>5
    <2>8. Owning' /\ QueuedHome' /\ PostsHome'
      <3>1. \A m \in 1 .. Len(queues) : m # n => HeldBy(m)' = HeldBy(m)
        BY <2>5 DEF HeldBy
      <3>2. \A t \in HeldBy(n)' : t \in HeldBy(n) \/ t = p.task
        BY <1>0, <2>2, <2>3, <2>4, <2>5 DEF HeldBy
      <3> QED BY <1>1, <1>5, <2>5, <2>7, <3>1, <3>2, HomesKept
    <2>9. DelayedAreTimed'
      <3>1. ASSUME NEW m \in 1 .. Len(queues), NEW d \in ToSet(queues'[m].delayed)
            PROVE  \/ d \in ToSet(queues[m].delayed)
                   \/ [queue |-> m, due |-> d.due] \in arming'
        <4>1. CASE m # n
          BY <2>5, <3>1, <4>1
        <4>2. CASE m = n
          BY <1>0, <2>1, <2>2, <2>3, <2>4, <2>5, <3>1, <4>2
        <4> QED BY <4>1, <4>2
      <3> QED BY <1>1, <2>1, <2>5, <3>1, TimedKept
    <2>10. Loops' /\ ReadyRises'
      <3>1. \A j \in Isolate : loop[j] # "off" => own[j] \in 1 .. Len(queues)
        BY OwnQueue DEF TasksInv, Loops
      <3> QED BY <1>1, <2>1, <2>5, <2>7, <3>1 DEF TasksInv, Loops, ReadyRises, isolateVars
    <2>11. RanHome' /\ NothingSwallowed' /\ IsFiniteSet(posted')
      BY <1>1, <2>1 DEF TasksInv, RanHome, NothingSwallowed, isolateVars
    <2> QED BY <2>6, <2>8, <2>9, <2>10, <2>11 DEF TasksInv
  <1> QED BY <1>3, <1>4, <1>5

LEMMA JoinedSet ==
    ASSUME NEW S, NEW s \in Seq(S), NEW t \in Seq(S)
    PROVE  s \o t \in Seq(S) /\ ToSet(s \o t) \subseteq ToSet(s) \cup ToSet(t)
  <1> DEFINE a == s \o t
  <1>1. /\ a \in Seq(S) /\ Len(a) = Len(s) + Len(t) /\ Len(s) \in Nat /\ Len(t) \in Nat
        /\ \A k \in 1 .. Len(a) : a[k] = IF k <= Len(s) THEN s[k] ELSE t[k - Len(s)]
    OBVIOUS
  <1> HIDE DEF a
  <1>2. ASSUME NEW y \in ToSet(a) PROVE y \in ToSet(s) \cup ToSet(t)
    <2>1. PICK k \in 1 .. Len(a) : y = a[k]
      BY <1>1, <1>2, SetOf
    <2>2. CASE k <= Len(s)
      <3>1. k \in 1 .. Len(s) /\ y = s[k]
        BY <1>1, <2>1, <2>2
      <3> QED BY <3>1, SetOf
    <2>3. CASE ~(k <= Len(s))
      <3>1. k - Len(s) \in 1 .. Len(t) /\ y = t[k - Len(s)]
        BY <1>1, <2>1, <2>3
      <3> QED BY <3>1, SetOf
    <2> QED BY <2>2, <2>3
  <1> QED BY <1>1, <1>2 DEF a

LEMMA PromoteInv == ASSUME TasksInv, NEW p \in promoting, PromoteDue(p) PROVE TasksInv'
  <1> DEFINE n == p.queue
             o == queues[n]
             D == 1 .. Len(o.delayed)
             due == {x \in D : o.delayed[x].due <= p.now}
  <1>0. /\ n \in 1 .. Len(queues) /\ o \in Queue /\ p.now \in Nat
        /\ queues \in Seq(Queue) /\ TypeOK
    BY Queued DEF TasksInv, TypeOK
  <1>1. /\ promoting' = promoting \ {p} /\ UNCHANGED <<isolateVars, loop, run, posted, ran>>
        /\ UNCHANGED <<arming, wakes, asleep, clock, posting, destroyed>>
    BY DEF PromoteDue
  <1>2. /\ o.tasks \in Seq(Task) /\ o.delayed \in Seq(Delayed) /\ DOMAIN o.delayed = D
        /\ Len(o.delayed) \in Nat /\ \A x \in D : o.delayed[x] \in Delayed
    BY <1>0 DEF Queue
  <1>3. /\ \A d \in ToSet(o.delayed) : d \in Delayed /\ d.due \in Nat
        /\ \A d : d \in ToSet(o.delayed) <=> \E x \in D : d = o.delayed[x]
    <2>1. ToSet(o.delayed) \subseteq Delayed
      BY <1>2, SetOf
    <2>2. \A d : d \in ToSet(o.delayed) <=> \E x \in D : d = o.delayed[x]
      BY <1>2 DEF ToSet
    <2> QED BY <2>1, <2>2 DEF Delayed
  (* What is left has a witness that is not p.                             *)
  <1>5. ASSUME NEW m \in 1 .. Len(queues), NEW d \in ToSet(queues[m].delayed),
               m = n => ~(d.due <= p.now)
        PROVE  \/ [queue |-> m, due |-> d.due] \in arming \cup wakes
               \/ \E v \in promoting' : v.queue = m /\ d.due <= v.now
    BY <1>1, <1>5 DEF TasksInv, DelayedAreTimed
  <1>6. CASE due = {}
    <2>1. UNCHANGED <<queues, channel>>
      BY <1>2, <1>6 DEF PromoteDue
    <2>2. TypeOK'
      BY <1>1, <2>1 DEF TasksInv, TypeOK, isolateVars
    <2>3. DelayedAreTimed'
      <3>1. \A d \in ToSet(o.delayed) : ~(d.due <= p.now)
        BY <1>3, <1>6
      <3> QED BY <1>1, <1>5, <2>1, <3>1 DEF TasksInv, DelayedAreTimed
    <2> QED BY <1>1, <2>1, <2>2, <2>3, TimerOnly DEF loopVars
  <1>7. CASE due # {}
    <2> DEFINE c == Cardinality(due)
               k == Cardinality(D \ due)
    <2>1. PICK order \in [1 .. c -> due], kept \in [1 .. k -> D \ due] :
             Signal(n, o.tasks \o [x \in DOMAIN order |-> o.delayed[order[x]].task],
                    [x \in DOMAIN kept |-> o.delayed[kept[x]]])
      <3> DEFINE first(x, y) ==
                    \/ o.delayed[x].due < o.delayed[y].due
                    \/ o.delayed[x].due = o.delayed[y].due /\ x < y
      <3>1. due = {x \in DOMAIN o.delayed : o.delayed[x].due <= p.now}
        BY <1>2
      <3>2. PICK order \in Orders(due, first), kept \in InOrder(DOMAIN o.delayed \ due) :
               Signal(n, o.tasks \o [x \in DOMAIN order |-> o.delayed[order[x]].task],
                      [x \in DOMAIN kept |-> o.delayed[kept[x]]])
        BY <1>7, <3>1, Zenon DEF PromoteDue
      <3>3. order \in [1 .. c -> due] /\ kept \in [1 .. k -> D \ due]
        BY <1>2, <3>2, Zenon DEF Orders, InOrder
      <3> QED BY <3>2, <3>3, Zenon
    <2>2. c \in Nat /\ k \in Nat
      <3>1. IsFiniteSet(D)
        BY <1>2, FS_Interval
      <3> QED BY <3>1, FS_Subset, FS_CardinalityType
    <2> HIDE DEF c, k
    <2> DEFINE ps == [x \in DOMAIN order |-> o.delayed[order[x]].task]
               ds == [x \in DOMAIN kept |-> o.delayed[kept[x]]]
               ts == o.tasks \o ps
    <2>3. ps \in Seq(Task) /\ \A t \in ToSet(ps) : \E x \in due : t = o.delayed[x].task
      <3>1. /\ DOMAIN order = 1 .. c
            /\ \A x \in 1 .. c : order[x] \in due /\ o.delayed[order[x]].task \in Task
        BY <1>2, <2>1 DEF Delayed
      <3>2. ps \in Seq(Task) /\ DOMAIN ps = 1 .. c
        BY <2>2, <3>1
      <3>3. ASSUME NEW t \in ToSet(ps) PROVE \E x \in due : t = o.delayed[x].task
        <4>1. PICK x \in 1 .. c : t = ps[x]
          BY <3>2, <3>3 DEF ToSet
        <4>2. ps[x] = o.delayed[order[x]].task
          BY <3>1, <4>1
        <4> QED BY <3>1, <4>1, <4>2
      <3> QED BY <3>2, <3>3
    <2>4. ds \in Seq(Delayed) /\ \A d \in ToSet(ds) : \E x \in D \ due : d = o.delayed[x]
      <3>1. /\ DOMAIN kept = 1 .. k
            /\ \A x \in 1 .. k : kept[x] \in D \ due /\ o.delayed[kept[x]] \in Delayed
        BY <1>2, <2>1
      <3>2. ds \in Seq(Delayed) /\ DOMAIN ds = 1 .. k
        BY <2>2, <3>1
      <3>3. ASSUME NEW d \in ToSet(ds) PROVE \E x \in D \ due : d = o.delayed[x]
        <4>1. PICK x \in 1 .. k : d = ds[x]
          BY <3>2, <3>3 DEF ToSet
        <4>2. ds[x] = o.delayed[kept[x]]
          BY <3>1, <4>1
        <4> QED BY <3>1, <4>1, <4>2
      <3> QED BY <3>2, <3>3
    <2>5. Signal(n, ts, ds)
      BY <2>1
    <2>6. \A d \in ToSet(ds) : d \in ToSet(o.delayed) /\ ~(d.due <= p.now)
      BY <1>3, <2>4
    <2>7. \A t \in ToSet(ps) : \E d \in ToSet(o.delayed) : t = d.task
      BY <1>3, <2>3
    <2> HIDE DEF ps, ds, due
    <2>8. ts \in Seq(Task) /\ ToSet(ts) \subseteq ToSet(o.tasks) \cup ToSet(ps)
      BY <1>2, <2>3, JoinedSet
    <2> HIDE DEF ts
    <2>9. /\ Len(queues') = Len(queues) /\ queues'[n].delayed = ds
          /\ \A m \in 1 .. Len(queues) : m # n => queues'[m] = queues[m]
      BY <1>0, <2>4, <2>5, <2>8, SignalQueue
    <2>10. DelayedAreTimed'
      <3>1. ASSUME NEW m \in 1 .. Len(queues), NEW d \in ToSet(queues'[m].delayed)
            PROVE  d \in ToSet(queues[m].delayed) /\ (m = n => ~(d.due <= p.now))
        BY <2>6, <2>9, <3>1
      <3>2. ASSUME NEW m \in 1 .. Len(queues), NEW d \in ToSet(queues'[m].delayed)
            PROVE  \/ [queue |-> m, due |-> d.due] \in arming \cup wakes
                   \/ \E v \in promoting' : v.queue = m /\ d.due <= v.now
        BY <1>5, <3>1, <3>2
      <3> QED BY <1>1, <2>9, <3>2 DEF TasksInv, DelayedAreTimed
    <2>11. \A t \in ToSet(ts) \cup {d.task : d \in ToSet(ds)} : t \in HeldBy(n)
      BY <2>6, <2>7, <2>8 DEF HeldBy
    <2> QED BY <1>0, <1>1, <2>4, <2>5, <2>8, <2>10, <2>11, SignalInv
  <1> QED BY <1>6, <1>7

-----------------------------------------------------------------------------
(* An isolate's life.                                                      *)

LEMMA CreateInv ==
    ASSUME TasksInv, NEW i \in Isolate, NEW k \in Key, CreateIsolate(i, k)
    PROVE  TasksInv'
  <1>1. /\ stage[i] = "unborn" /\ addr[i] = None /\ own[i] = None /\ loop[i] = "off"
        /\ \A j \in Isolate : addr[j] = k => stage[j] \in {"disposed", "dropped"}
    BY DEF CreateIsolate, TasksInv, Owning, Loops
  <1>2. /\ stage' = [stage EXCEPT ![i] = "creating"] /\ addr' = [addr EXCEPT ![i] = k]
        /\ UNCHANGED <<own, registry, queues, posting, posted, ran, destroyed>>
        /\ UNCHANGED <<timerVars, loopVars>>
    BY DEF CreateIsolate
  <1>3. \A j \in Isolate : /\ stage'[j] = IF j = i THEN "creating" ELSE stage[j]
                           /\ addr'[j] = IF j = i THEN k ELSE addr[j]
    BY <1>2 DEF TasksInv, TypeOK
  <1>4. TypeOK'
    BY <1>2 DEF TasksInv, TypeOK, timerVars, loopVars
  <1>5. Owning'
    BY <1>1, <1>2, <1>3 DEF TasksInv, Owning, Gone
  <1>6. \A j \in Isolate : \A n : Home(j, n) => Home(j, n)'
    BY <1>1, <1>2, <1>3 DEF Home, Building
  <1>7. QueuedHome' /\ PostsHome'
    <2>1. \A n \in 1 .. Len(queues) : \A t \in HeldBy(n) : t.of \in Isolate
      BY HeldTasks DEF TasksInv
    <2>2. \A p \in posting : p.task.of \in Isolate
      BY DEF TasksInv, TypeOK, Task
    <2>3. QueuedHome'
      BY <1>2, <1>6, <2>1 DEF TasksInv, QueuedHome, HeldBy
    <2> QED BY <1>1, <1>2, <1>3, <1>6, <2>2, <2>3 DEF TasksInv, PostsHome
  <1>8. Loops' /\ ReadyRises' /\ DelayedAreTimed' /\ RanHome' /\ IsFiniteSet(posted')
    BY <1>1, <1>2, <1>3
       DEF TasksInv, Loops, ReadyRises, DelayedAreTimed, RanHome, timerVars, loopVars
  <1>9. NothingSwallowed'
    <2>1. \A t \in destroyed : t.of \in Isolate
      BY DEF TasksInv, TypeOK, Task
    <2> QED BY <1>1, <1>2, <1>3, <2>1 DEF TasksInv, NothingSwallowed
  <1> QED BY <1>4, <1>5, <1>7, <1>8, <1>9 DEF TasksInv

LEMMA DisposeInv == ASSUME TasksInv, NEW i \in Isolate, Dispose(i) PROVE TasksInv'
  <1>1. stage[i] = "closed" /\ loop[i] = "off" /\ \A p \in posting : p.task.of # i
    BY DEF Dispose, TasksInv, Loops
  <1>2. /\ stage' = [stage EXCEPT ![i] = "disposed"]
        /\ UNCHANGED <<addr, own, registry, queues, posting, posted, ran, destroyed>>
        /\ UNCHANGED <<timerVars, loopVars>>
    BY DEF Dispose
  <1>3. \A j \in Isolate : stage'[j] = IF j = i THEN "disposed" ELSE stage[j]
    BY <1>2 DEF TasksInv, TypeOK
  <1>4. TypeOK'
    BY <1>2 DEF TasksInv, TypeOK, timerVars, loopVars
  <1>5. Owning'
    BY <1>1, <1>2, <1>3 DEF TasksInv, Owning, Gone
  <1>6. \A j \in Isolate : \A n : Home(j, n) => Home(j, n)'
    BY <1>1, <1>2, <1>3 DEF Home, Building
  <1>7. QueuedHome' /\ PostsHome'
    <2>1. \A n \in 1 .. Len(queues) : \A t \in HeldBy(n) : t.of \in Isolate
      BY HeldTasks DEF TasksInv
    <2>2. \A p \in posting : p.task.of \in Isolate
      BY DEF TasksInv, TypeOK, Task
    <2>3. QueuedHome'
      BY <1>2, <1>6, <2>1 DEF TasksInv, QueuedHome, HeldBy
    <2> QED BY <1>1, <1>2, <1>3, <1>6, <2>2, <2>3 DEF TasksInv, PostsHome
  <1>8. Loops' /\ ReadyRises' /\ DelayedAreTimed' /\ RanHome' /\ IsFiniteSet(posted')
    BY <1>1, <1>2, <1>3
       DEF TasksInv, Loops, ReadyRises, DelayedAreTimed, RanHome, timerVars, loopVars
  <1>9. NothingSwallowed'
    <2>1. \A t \in destroyed : t.of \in Isolate
      BY DEF TasksInv, TypeOK, Task
    <2> QED BY <1>1, <1>2, <1>3, <2>1 DEF TasksInv, NothingSwallowed
  <1> QED BY <1>4, <1>5, <1>7, <1>8, <1>9 DEF TasksInv

(* A queue is closed, with its isolate or, empty, with its registration.   *)
LEMMA DestroyInv ==
    ASSUME TasksInv, NEW i \in Isolate, Destroy(i), loop[i] = "off",
           NEW s \in {"closed", "dropped"}, stage' = [stage EXCEPT ![i] = s],
           stage[i] = IF s = "closed" THEN "live" ELSE "disposed",
           UNCHANGED <<addr, own, posting, timerVars, loopVars, posted, ran>>,
           DOMAIN registry' \subseteq DOMAIN registry,
           \A k \in DOMAIN registry' : registry'[k] = registry[k],
           \A k \in DOMAIN registry \ DOMAIN registry' :
               k = addr[i] /\ registry[k] = own[i] /\ s = "dropped"
    PROVE  TasksInv'
  <1> DEFINE n == own[i]
             o == queues[n]
             q == [NewQueue EXCEPT !.closed = TRUE]
             lost == ToSet(o.tasks) \cup {d.task : d \in ToSet(o.delayed)}
  <1>0. TypeOK /\ Owning /\ n \in 1 .. Len(queues) /\ o \in Queue /\ n # None
    BY OwnQueue DEF TasksInv, None
  <1>1. q \in Queue /\ q.tasks = << >> /\ q.delayed = << >> /\ q.closed /\ ~q.ready
    BY Tombstone
  <1>2. queues' = [queues EXCEPT ![n] = q] /\ destroyed' = destroyed \cup lost
    BY DEF Destroy
  <1> HIDE DEF q
  <1>3. /\ queues' \in Seq(Queue) /\ Len(queues') = Len(queues)
        /\ \A m \in 1 .. Len(queues) : queues'[m] = IF m = n THEN q ELSE queues[m]
    BY <1>0, <1>1, <1>2, QueueBecomes
  <1>4. \A j \in Isolate : stage'[j] = IF j = i THEN s ELSE stage[j]
    BY DEF TasksInv, TypeOK
  (* What is destroyed is the isolate's, and nothing when it is gone.      *)
  <1>5. \A t \in lost : t \in posted /\ t.of = i /\ s = "closed"
    <2>1. SUFFICES ASSUME NEW t \in lost PROVE t \in posted /\ t.of = i /\ stage[i] = "live"
      OBVIOUS
    <2>2. t \in HeldBy(n)
      BY DEF HeldBy
    <2>3. t \in posted /\ t.of \in Isolate /\ Home(t.of, n)
      BY <1>0, <2>2, HeldTasks DEF TasksInv, QueuedHome
    <2> QED BY <1>0, <2>3, HomeAlone
  <1> HIDE DEF lost
  <1>6. TypeOK'
    <2>1. stage' \in [Isolate -> {"unborn", "creating", "live", "closed", "disposed", "dropped"}]
      BY DEF TasksInv, TypeOK
    <2>2. destroyed' \subseteq posted
      BY <1>2, <1>5 DEF TasksInv, TypeOK
    <2>3. DOMAIN registry' \subseteq Key /\ \A k \in DOMAIN registry' : registry'[k] \in 1 .. Len(queues)
      BY DEF TasksInv, TypeOK
    <2> QED BY <1>3, <2>1, <2>2, <2>3 DEF TasksInv, TypeOK, timerVars, loopVars
  <1>7. \A j \in Isolate : j # i /\ own[j] # None =>
           own[j] # n /\ own[j] \in 1 .. Len(queues) /\ queues'[own[j]] = queues[own[j]]
    BY <1>0, <1>3, Queued DEF TypeOK, Owning, None
  <1>8. Owning'
    <2>1. ASSUME NEW j \in Isolate, stage'[j] \in {"live", "closed"}
          PROVE  addr[j] \in DOMAIN registry' /\ registry'[addr[j]] = own[j]
      <3>1. addr[j] \in DOMAIN registry /\ registry[addr[j]] = own[j] /\ own[j] # None
        BY <1>0, <1>4, <2>1 DEF Owning
      <3> QED BY <1>0, <1>4, <1>7, <2>1, <3>1
    <2>2. ASSUME NEW j \in Isolate
          PROVE  /\ stage'[j] = "live" => ~queues'[own[j]].closed
                 /\ stage'[j] \in {"closed", "disposed", "dropped"} => queues'[own[j]].closed
      <3>1. CASE j = i
        BY <1>0, <1>1, <1>3, <1>4, <3>1
      <3>2. CASE j # i /\ own[j] # None
        BY <1>0, <1>4, <1>7, <3>2 DEF Owning
      <3>3. CASE j # i /\ own[j] = None
        BY <1>0, <1>4, <3>3 DEF Owning
      <3> QED BY <3>1, <3>2, <3>3
    <2>3. \A k, l \in DOMAIN registry' : registry'[k] = registry'[l] => k = l
      BY <1>0 DEF Owning
    <2>4. ASSUME NEW j \in Isolate
          PROVE  /\ stage'[j] = "unborn" => addr[j] = None
                 /\ stage'[j] # "unborn" => addr[j] \in Key
                 /\ stage'[j] \in {"unborn", "creating"} => own[j] = None
                 /\ stage'[j] \notin {"unborn", "creating"} => own[j] # None
      BY <1>0, <1>4 DEF Owning
    <2>5. \A j \in Isolate : Gone(j) => Gone(j)'
      BY <1>4 DEF Gone
    <2>6. ASSUME NEW j \in Isolate, NEW l \in Isolate, j # l
          PROVE  /\ own[j] = own[l] => own[j] = None
                 /\ addr[j] = addr[l] => addr[j] = None \/ Gone(j)' \/ Gone(l)'
      BY <1>0, <2>5, <2>6 DEF Owning
    <2> QED BY <2>1, <2>2, <2>3, <2>4, <2>6, Zenon DEF Owning
  <1>9. \A j \in Isolate, m \in 1 .. Len(queues) :
           j # i /\ Home(j, m) => m # n /\ Home(j, m)'
    <2>1. SUFFICES ASSUME NEW j \in Isolate, NEW m \in 1 .. Len(queues), j # i, Home(j, m)
                   PROVE  m # n /\ Home(j, m)'
      OBVIOUS
    <2>2. m # n
      BY <1>0, <2>1, HomeAlone
    <2>3. queues'[m] = queues[m] /\ stage'[j] = stage[j]
      BY <1>3, <1>4, <2>1, <2>2
    <2>4. Building(j, m) => addr[j] \in DOMAIN registry' /\ registry'[addr[j]] = m
      BY <2>2 DEF Building
    <2> QED BY <2>1, <2>2, <2>3, <2>4 DEF Home, Building
  <1>10. QueuedHome'
    <2>1. SUFFICES ASSUME NEW m \in 1 .. Len(queues), NEW t \in HeldBy(m)'
                   PROVE  t \in posted /\ Home(t.of, m)'
      BY <1>3 DEF QueuedHome
    <2>2. m # n
      BY <1>1, <1>3, <2>1, HeldNone DEF HeldBy
    <2>3. t \in HeldBy(m)
      BY <1>3, <2>1, <2>2 DEF HeldBy
    <2>4. t \in posted /\ Home(t.of, m) /\ t.of \in Isolate
      BY <1>0, <2>3, HeldTasks DEF TasksInv, QueuedHome
    <2>5. t.of # i
      BY <2>2, <2>4 DEF Home, Building
    <2> QED BY <1>9, <2>4, <2>5
  <1>11. PostsHome'
    <2>1. SUFFICES ASSUME NEW p \in posting
                   PROVE  /\ p.task \in posted
                          /\ \/ Home(p.task.of, p.queue)'
                             \/ stage'[p.task.of] = "closed" /\ own[p.task.of] = p.queue
      BY DEF PostsHome
    <2>2. /\ p.task \in posted /\ p.task.of \in Isolate /\ p.queue \in 1 .. Len(queues)
          /\ \/ Home(p.task.of, p.queue)
             \/ stage[p.task.of] = "closed" /\ own[p.task.of] = p.queue
      BY DEF TasksInv, PostsHome, TypeOK, Task
    <2>3. CASE p.task.of = i
      BY <1>4, <2>2, <2>3 DEF Home, Building
    <2>4. CASE p.task.of # i
      BY <1>4, <1>9, <2>2, <2>4
    <2> QED BY <2>3, <2>4
  <1>12. Loops'
    <2>1. SUFFICES ASSUME NEW j \in Isolate, loop[j] # "off"
                   PROVE  /\ stage'[j] = "live" /\ run[j] # 0
                          /\ queues'[own[j]].waker = [isolate |-> j, run |-> run[j]]
                          /\ loop[j] # "turn" /\ queues'[own[j]].ready => channel[j] > 0
      BY Zenon DEF Loops, loopVars
    <2>2. j # i /\ stage[j] = "live" /\ own[j] # None
      BY <1>0, <2>1 DEF TasksInv, Loops, Owning
    <2>3. queues'[own[j]] = queues[own[j]] /\ stage'[j] = stage[j]
      BY <1>4, <1>7, <2>2
    <2> QED BY <2>1, <2>2, <2>3 DEF TasksInv, Loops
  <1>13. ReadyRises'
    <2>1. ASSUME NEW m \in 1 .. Len(queues), queues'[m].tasks # << >>
          PROVE  queues'[m] = queues[m]
      BY <1>1, <1>3, <2>1
    <2> QED BY <1>3, <2>1 DEF TasksInv, ReadyRises, loopVars
  <1>14. DelayedAreTimed'
    <2>1. ToSet(q.delayed) = {}
      BY <1>1 DEF ToSet
    <2>2. \A m \in 1 .. Len(queues) : ToSet(queues'[m].delayed) \subseteq ToSet(queues[m].delayed)
      BY <1>3, <2>1
    <2> QED BY <1>3, <2>2, TimedKept DEF timerVars
  <1>15. NothingSwallowed'
    <2>1. \A t \in destroyed : t.of \in Isolate
      BY DEF TasksInv, TypeOK, Task
    <2>2. \A t \in destroyed : stage'[t.of] \in {"closed", "disposed", "dropped"}
      BY <1>4, <2>1 DEF TasksInv, NothingSwallowed
    <2>3. \A t \in lost : stage'[t.of] \in {"closed", "disposed", "dropped"}
      BY <1>4, <1>5
    <2> QED BY <1>2, <2>2, <2>3 DEF NothingSwallowed
  <1>16. RanHome' /\ IsFiniteSet(posted')
    BY DEF TasksInv, RanHome
  <1> QED BY <1>6, <1>8, <1>10, <1>11, <1>12, <1>13, <1>14, <1>15, <1>16 DEF TasksInv

LEMMA CloseInv ==
    ASSUME TasksInv, NEW i \in Isolate, Close(i) \/ DropRegistration(i)
    PROVE  TasksInv'
  <1>1. CASE Close(i)
    BY <1>1, DestroyInv DEF Close
  <1>2. CASE DropRegistration(i)
    <2>1. loop[i] = "off"
      BY <1>2 DEF TasksInv, Loops, DropRegistration
    <2>2. /\ DOMAIN registry' \subseteq DOMAIN registry
          /\ \A k \in DOMAIN registry' : registry'[k] = registry[k]
          /\ \A k \in DOMAIN registry \ DOMAIN registry' :
                k = addr[i] /\ registry[k] = own[i]
      <3>1. CASE IsOwn(i)
        <4>1. registry' = [k \in DOMAIN registry \ {addr[i]} |-> registry[k]]
          BY <1>2, <3>1 DEF DropRegistration, Drop
        <4> QED BY <3>1, <4>1 DEF IsOwn
      <3>2. CASE ~IsOwn(i)
        BY <1>2, <3>2 DEF DropRegistration
      <3> QED BY <3>1, <3>2
    <2> QED BY <1>2, <2>1, <2>2, DestroyInv DEF DropRegistration
  <1> QED BY <1>1, <1>2

(* A queue is found, or one is made for an isolate that is being built.    *)
Found(i, n) ==
    /\ addr[i] \in DOMAIN registry /\ n = registry[addr[i]]
    /\ stage[i] = "creating" => ~queues[n].closed
    /\ UNCHANGED <<registry, queues>>

Made(i, n) ==
    /\ stage[i] = "creating"
    /\ addr[i] \in DOMAIN registry => queues[registry[addr[i]]].closed
    /\ n = Len(queues) + 1
    /\ queues' = Append(queues, NewQueue) /\ registry' = Put(registry, addr[i], n)

LEMMA LookedUp ==
    ASSUME TasksInv, NEW i \in Isolate, stage[i] \in {"creating", "live", "closed"},
           NEW n, Found(i, n) \/ Made(i, n)
    PROVE  /\ queues' \in Seq(Queue) /\ Len(queues') \in Nat /\ Len(queues') >= Len(queues)
           /\ n \in 1 .. Len(queues')
           /\ \A m \in 1 .. Len(queues) : queues'[m] = queues[m]
           /\ \A m \in 1 .. Len(queues') : m \notin 1 .. Len(queues) => queues'[m] = NewQueue
           /\ DOMAIN registry' = DOMAIN registry \cup {addr[i]}
           /\ registry'[addr[i]] = n
           /\ \A k \in DOMAIN registry : k # addr[i] => registry'[k] = registry[k]
           /\ \A k \in DOMAIN registry' : k \in Key /\ registry'[k] \in 1 .. Len(queues')
           /\ \A k, l \in DOMAIN registry' : registry'[k] = registry'[l] => k = l
           /\ stage[i] = "creating" => ~queues'[n].closed /\ \A j \in Isolate : own[j] # n
           /\ stage[i] # "creating" => n = own[i]
           /\ \A m : Building(i, m) => m = n
  <1>0. /\ queues \in Seq(Queue) /\ Len(queues) \in Nat /\ TypeOK /\ Owning
        /\ DOMAIN registry \subseteq Key /\ addr[i] \in Key
        /\ \A k \in DOMAIN registry : registry[k] \in 1 .. Len(queues)
    BY Queued DEF TasksInv, TypeOK, Owning
  <1>1. CASE Found(i, n)
    <2>1. /\ registry' = registry /\ queues' = queues /\ n \in 1 .. Len(queues)
          /\ addr[i] \in DOMAIN registry /\ n = registry[addr[i]]
      BY <1>0, <1>1 DEF Found
    <2>2. ASSUME stage[i] = "creating" PROVE ~queues[n].closed /\ \A j \in Isolate : own[j] # n
      <3>1. ~queues[n].closed /\ Home(i, n) /\ own[i] = None
        BY <1>0, <1>1, <2>1, <2>2 DEF Found, Home, Building, Owning
      <3>2. n # None
        BY <1>0, <2>1 DEF None
      <3>3. \A j \in Isolate : own[j] = n => j = i
        BY <1>0, <3>1, <3>2, HomeAlone
      <3> QED BY <3>1, <3>2, <3>3
    <2>3. stage[i] # "creating" => n = own[i]
      BY <1>0, <2>1 DEF Owning
    <2>4. \A k, l \in DOMAIN registry : registry[k] = registry[l] => k = l
      BY <1>0 DEF Owning
    <2>5. \A m : Building(i, m) => m = n
      BY <2>1 DEF Building
    <2>6. DOMAIN registry' = DOMAIN registry \cup {addr[i]}
      BY <2>1
    <2> QED BY <1>0, <2>1, <2>2, <2>3, <2>4, <2>5, <2>6
  <1>2. CASE Made(i, n)
    <2>1. /\ queues' \in Seq(Queue) /\ Len(queues') = Len(queues) + 1 /\ queues'[n] = NewQueue
          /\ n = Len(queues) + 1 /\ stage[i] = "creating"
          /\ \A m \in 1 .. Len(queues) : queues'[m] = queues[m]
      BY <1>0, <1>2, QueueAdded DEF Made
    <2>2. registry' = [x \in DOMAIN registry \cup {addr[i]} |-> IF x = addr[i] THEN n ELSE registry[x]]
      BY <1>2 DEF Made, Put
    <2>3. /\ DOMAIN registry' = DOMAIN registry \cup {addr[i]} /\ registry'[addr[i]] = n
          /\ \A k \in DOMAIN registry : k # addr[i] => registry'[k] = registry[k]
      BY <2>2
    <2>4. \A k \in DOMAIN registry' : k \in Key /\ registry'[k] \in 1 .. Len(queues')
      BY <1>0, <2>1, <2>3
    <2>5. \A k, l \in DOMAIN registry' : registry'[k] = registry'[l] => k = l
      BY <1>0, <2>1, <2>3 DEF Owning
    <2>6. \A j \in Isolate : own[j] # n
      BY <1>0, <2>1 DEF TypeOK
    <2>7. ~queues'[n].closed
      BY <2>1, NewQueueType
    <2>8. \A m : ~Building(i, m)
      BY <1>2 DEF Made, Building
    <2> QED BY <1>0, <2>1, <2>3, <2>4, <2>5, <2>6, <2>7, <2>8
  <1> QED BY <1>1, <1>2

(* Queues are only added.                                                  *)
LEMMA GrowsInv ==
    ASSUME TasksInv, Len(queues') \in Nat, Len(queues') >= Len(queues),
           \A m \in 1 .. Len(queues) : queues'[m] = queues[m],
           \A m \in 1 .. Len(queues') : m \notin 1 .. Len(queues) => queues'[m] = NewQueue,
           UNCHANGED <<timerVars, loopVars, ran, destroyed>>,
           \A j \in Isolate : stage[j] # "creating" => stage'[j] = stage[j] /\ own'[j] = own[j]
    PROVE  Loops' /\ ReadyRises' /\ DelayedAreTimed' /\ RanHome' /\ NothingSwallowed'
  <1>1. ASSUME NEW j \in Isolate, loop[j] # "off"
        PROVE  /\ stage'[j] = stage[j] /\ own'[j] = own[j] /\ own[j] \in 1 .. Len(queues)
               /\ queues'[own[j]] = queues[own[j]]
    <2>1. stage[j] = "live"
      BY <1>1 DEF TasksInv, Loops
    <2> QED BY <2>1, OwnQueue
  <1>2. Loops'
    <2>1. SUFFICES ASSUME NEW j \in Isolate, loop[j] # "off"
                   PROVE  /\ stage[j] = "live" /\ run[j] # 0
                          /\ queues[own[j]].waker = [isolate |-> j, run |-> run[j]]
                          /\ loop[j] # "turn" /\ queues[own[j]].ready => channel[j] > 0
      BY <1>1 DEF Loops, loopVars
    <2> QED BY <2>1 DEF TasksInv, Loops
  <1>3. ReadyRises'
    <2>1. SUFFICES ASSUME NEW m \in 1 .. Len(queues'), queues'[m].tasks # << >>
                   PROVE  queues'[m].ready \/ \E j \in Isolate : own'[j] = m /\ loop[j] = "take"
      BY DEF ReadyRises, loopVars
    <2>2. m \in 1 .. Len(queues) /\ queues'[m] = queues[m]
      BY <2>1, NewQueueType
    <2>3. queues[m].ready \/ \E j \in Isolate : own[j] = m /\ loop[j] = "take"
      BY <2>1, <2>2 DEF TasksInv, ReadyRises
    <2> QED BY <1>1, <2>2, <2>3
  <1>4. DelayedAreTimed'
    <2>1. ToSet(NewQueue.delayed) = {}
      BY NewQueueType DEF ToSet
    <2>2. \A m \in 1 .. Len(queues') : \A d \in ToSet(queues'[m].delayed) :
             m \in 1 .. Len(queues) /\ d \in ToSet(queues[m].delayed)
      BY <2>1
    <2> QED BY <2>2, TimedKept DEF timerVars
  <1>5. NothingSwallowed'
    <2>1. \A t \in destroyed : t.of \in Isolate
      BY DEF TasksInv, TypeOK, Task
    <2> QED BY <2>1 DEF TasksInv, NothingSwallowed
  <1> QED BY <1>2, <1>3, <1>4, <1>5 DEF TasksInv, RanHome

LEMMA GrowsTypes ==
    ASSUME TypeOK, Len(queues') \in Nat, Len(queues') >= Len(queues)
    PROVE  /\ posting \subseteq [task : Task, due : Nat, queue : 1 .. Len(queues')]
           /\ arming \cup wakes \subseteq [queue : 1 .. Len(queues'), due : Nat]
           /\ promoting \subseteq [queue : 1 .. Len(queues'), now : Nat]
           /\ own \in [Isolate -> 0 .. Len(queues')]
  <1>1. 1 .. Len(queues) \subseteq 1 .. Len(queues') /\ 0 .. Len(queues) \subseteq 0 .. Len(queues')
    BY Queued
  <1> QED BY <1>1 DEF TypeOK

(* Tasks stay at home when their isolate finds its queue, or registers it. *)
LEMMA LookUpHomes ==
    ASSUME TasksInv, NEW i \in Isolate, stage[i] \in {"creating", "live", "closed"},
           NEW n, Found(i, n) \/ Made(i, n), addr' = addr,
           \A j \in Isolate : j # i => stage'[j] = stage[j] /\ own'[j] = own[j],
           \/ stage'[i] = stage[i] /\ own'[i] = own[i]
           \/ stage[i] = "creating" /\ stage'[i] = "live" /\ own'[i] = n
    PROVE  /\ Owning'
           /\ \A j \in Isolate, m \in 1 .. Len(queues) : Home(j, m) => Home(j, m)'
           /\ Home(i, n)' \/ (stage'[i] = "closed" /\ own'[i] = n)
  <1>0. /\ TypeOK /\ Owning /\ Len(queues) \in Nat /\ addr[i] \in Key /\ addr[i] # None
    BY Queued, PlatformTasksAssumption DEF TasksInv, Owning
  <1>1. /\ Len(queues') \in Nat /\ Len(queues') >= Len(queues) /\ n \in 1 .. Len(queues')
        /\ \A m \in 1 .. Len(queues) : queues'[m] = queues[m]
        /\ DOMAIN registry' = DOMAIN registry \cup {addr[i]} /\ registry'[addr[i]] = n
        /\ \A k \in DOMAIN registry : k # addr[i] => registry'[k] = registry[k]
        /\ \A k, l \in DOMAIN registry' : registry'[k] = registry'[l] => k = l
        /\ stage[i] = "creating" => ~queues'[n].closed /\ \A j \in Isolate : own[j] # n
        /\ stage[i] # "creating" => n = own[i]
        /\ \A m : Building(i, m) => m = n
    BY LookedUp
  <1>2. \A j \in Isolate : own[j] # None =>
           own[j] \in 1 .. Len(queues) /\ queues'[own[j]] = queues[own[j]]
    BY <1>0, <1>1 DEF TypeOK, None
  (* Nobody else is at the address.                                        *)
  <1>3. \A j \in Isolate : j # i /\ stage[j] \in {"creating", "live", "closed"} => addr[j] # addr[i]
    BY <1>0 DEF Owning, Gone
  <1>4. n # None
    BY <1>1 DEF None
  <1>5. ASSUME NEW j \in Isolate
        PROVE  /\ stage'[j] = "unborn" => addr[j] = None
               /\ stage'[j] # "unborn" => addr[j] \in Key
               /\ stage'[j] \in {"unborn", "creating"} => own'[j] = None
               /\ stage'[j] \notin {"unborn", "creating"} => own'[j] # None
    BY <1>0, <1>4, <1>5 DEF Owning
  <1>6. ASSUME NEW j \in Isolate, stage'[j] \in {"live", "closed"}
        PROVE  addr[j] \in DOMAIN registry' /\ registry'[addr[j]] = own'[j]
    <2>1. CASE j = i
      BY <1>0, <1>1, <1>6, <2>1
    <2>2. CASE j # i
      <3>1. /\ stage[j] \in {"live", "closed"} /\ addr[j] \in DOMAIN registry
            /\ registry[addr[j]] = own[j] /\ own'[j] = own[j]
        BY <1>0, <1>6, <2>2 DEF Owning
      <3> QED BY <1>1, <1>3, <2>2, <3>1
    <2> QED BY <2>1, <2>2
  <1>7. ASSUME NEW j \in Isolate
        PROVE  /\ stage'[j] = "live" => ~queues'[own'[j]].closed
               /\ stage'[j] \in {"closed", "disposed", "dropped"} => queues'[own'[j]].closed
    <2>1. CASE stage'[j] = stage[j] /\ own'[j] = own[j]
      BY <1>0, <1>2, <2>1 DEF Owning
    <2>2. CASE j = i /\ stage[i] = "creating" /\ stage'[i] = "live" /\ own'[i] = n
      BY <1>1, <2>2
    <2> QED BY <1>7, <2>1, <2>2
  <1>8. ASSUME NEW j \in Isolate, NEW l \in Isolate, j # l
        PROVE  /\ own'[j] = own'[l] => own'[j] = None
               /\ addr[j] = addr[l] => addr[j] = None \/ Gone(j)' \/ Gone(l)'
    <2>1. own'[j] = own'[l] => own'[j] = None
      <3>1. CASE own'[i] = own[i]
        BY <1>0, <1>8, <3>1 DEF Owning
      <3>2. CASE stage[i] = "creating" /\ own'[i] = n
        BY <1>0, <1>1, <1>8, <3>2 DEF Owning
      <3> QED BY <3>1, <3>2
    <2>2. \A m \in Isolate : Gone(m) => Gone(m)'
      BY DEF Gone
    <2> QED BY <1>0, <1>8, <2>1, <2>2 DEF Owning
  <1>9. Owning'
    BY <1>1, <1>5, <1>6, <1>7, <1>8, Zenon DEF Owning
  <1>10. ASSUME NEW j \in Isolate, NEW m \in 1 .. Len(queues), Home(j, m)
         PROVE  Home(j, m)'
    <2>1. CASE stage[j] = "live" /\ own[j] = m
      BY <2>1 DEF Home
    <2>2. CASE Building(j, m) /\ j # i
      <3>1. /\ addr[j] \in DOMAIN registry' /\ registry'[addr[j]] = m /\ stage'[j] = "creating"
            /\ queues'[m] = queues[m]
        BY <1>1, <1>3, <1>10, <2>2 DEF Building
      <3> QED BY <2>2, <3>1 DEF Home, Building
    <2>3. CASE Building(j, m) /\ j = i
      <3>1. m = n /\ ~queues'[n].closed /\ stage[i] = "creating"
        BY <1>1, <2>3 DEF Building
      <3> QED BY <1>1, <2>3, <3>1 DEF Home, Building
    <2> QED BY <1>10, <2>1, <2>2, <2>3 DEF Home
  <1>11. Home(i, n)' \/ (stage'[i] = "closed" /\ own'[i] = n)
    BY <1>1 DEF Home, Building
  <1> QED BY <1>9, <1>10, <1>11

LEMMA AddedHeld ==
    ASSUME TypeOK, \A m \in 1 .. Len(queues) : queues'[m] = queues[m],
           \A m \in 1 .. Len(queues') : m \notin 1 .. Len(queues) => queues'[m] = NewQueue
    PROVE  \A m \in 1 .. Len(queues') : \A t \in HeldBy(m)' :
              m \in 1 .. Len(queues) /\ t \in HeldBy(m)
  BY NewQueueType, HeldNone DEF HeldBy

LEMMA RegisterInv == ASSUME TasksInv, NEW i \in Isolate, Register(i) PROVE TasksInv'
  <1> DEFINE n == QueueFor(addr[i], TRUE)
  <1>1. /\ stage[i] = "creating" /\ (\A p \in posting : p.task.of # i)
        /\ own' = [own EXCEPT ![i] = n] /\ stage' = [stage EXCEPT ![i] = "live"]
        /\ UNCHANGED <<addr, posting, posted, ran, destroyed>> /\ UNCHANGED <<timerVars, loopVars>>
    BY DEF Register
  <1>2. Found(i, n) \/ Made(i, n)
    <2>1. CASE Usable(addr[i], TRUE)
      BY <2>1 DEF Register, LookUp, QueueFor, Usable, Found
    <2>2. CASE ~Usable(addr[i], TRUE)
      BY <1>1, <2>2 DEF Register, LookUp, QueueFor, Usable, Made
    <2> QED BY <2>1, <2>2
  <1> HIDE DEF n
  <1>3. /\ queues' \in Seq(Queue) /\ Len(queues') \in Nat /\ Len(queues') >= Len(queues)
        /\ n \in 1 .. Len(queues')
        /\ \A m \in 1 .. Len(queues) : queues'[m] = queues[m]
        /\ \A m \in 1 .. Len(queues') : m \notin 1 .. Len(queues) => queues'[m] = NewQueue
        /\ \A k \in DOMAIN registry' : k \in Key /\ registry'[k] \in 1 .. Len(queues')
    BY <1>1, <1>2, LookedUp
  <1>4. \A j \in Isolate : /\ stage'[j] = IF j = i THEN "live" ELSE stage[j]
                           /\ own'[j] = IF j = i THEN n ELSE own[j]
    BY <1>1 DEF TasksInv, TypeOK
  <1>5. /\ Owning'
        /\ \A j \in Isolate, m \in 1 .. Len(queues) : Home(j, m) => Home(j, m)'
    BY <1>1, <1>2, <1>4, LookUpHomes
  <1>6. TypeOK'
    <2>1. /\ posting \subseteq [task : Task, due : Nat, queue : 1 .. Len(queues')]
          /\ arming \cup wakes \subseteq [queue : 1 .. Len(queues'), due : Nat]
          /\ promoting \subseteq [queue : 1 .. Len(queues'), now : Nat]
          /\ own \in [Isolate -> 0 .. Len(queues')]
      BY <1>3, GrowsTypes DEF TasksInv
    <2>2. own' \in [Isolate -> 0 .. Len(queues')] /\ DOMAIN registry' \subseteq Key
      BY <1>1, <1>3, <2>1
    <2> QED BY <1>1, <1>3, <2>1, <2>2 DEF TasksInv, TypeOK, timerVars, loopVars
  <1>7. Loops' /\ ReadyRises' /\ DelayedAreTimed' /\ RanHome' /\ NothingSwallowed'
    BY <1>1, <1>3, <1>4, GrowsInv
  <1>8. QueuedHome'
    <2>1. SUFFICES ASSUME NEW m \in 1 .. Len(queues'), NEW t \in HeldBy(m)'
                   PROVE  t \in posted /\ Home(t.of, m)'
      BY <1>1 DEF QueuedHome
    <2>2. m \in 1 .. Len(queues) /\ t \in HeldBy(m)
      BY <1>3, <2>1, AddedHeld DEF TasksInv
    <2>3. t \in posted /\ Home(t.of, m) /\ t.of \in Isolate
      BY <2>2, HeldTasks DEF TasksInv, QueuedHome
    <2> QED BY <1>5, <2>2, <2>3
  <1>9. PostsHome'
    <2>1. \A p \in posting : p.task.of \in Isolate /\ p.queue \in 1 .. Len(queues)
      BY DEF TasksInv, TypeOK, Task
    <2> QED BY <1>1, <1>4, <1>5, <2>1 DEF TasksInv, PostsHome
  <1>10. IsFiniteSet(posted')
    BY <1>1 DEF TasksInv
  <1> QED BY <1>5, <1>6, <1>7, <1>8, <1>9, <1>10 DEF TasksInv

LEMMA PostTaskInv ==
    ASSUME TasksInv, NEW i \in Isolate, NEW due \in Nat, PostTask(i, due)
    PROVE  TasksInv'
  <1> DEFINE c == stage[i] = "creating"
  <1>0. PICK n, task, post : /\ n = QueueFor(addr[i], c)
                             /\ task = [of |-> i, n |-> Cardinality(posted) + 1]
                             /\ post = [task |-> task, due |-> due, queue |-> n]
    OBVIOUS
  <1>1. /\ stage[i] \in {"creating", "live", "closed"} /\ Cardinality(posted) < MaxPosts
        /\ posting' = posting \cup {post} /\ posted' = posted \cup {task}
        /\ UNCHANGED <<stage, addr, own, ran, destroyed>> /\ UNCHANGED <<timerVars, loopVars>>
        /\ LookUp(addr[i], c)
    BY <1>0 DEF PostTask
  <1>2. Found(i, n) \/ Made(i, n)
    <2>1. CASE Usable(addr[i], c)
      BY <1>0, <1>1, <2>1 DEF LookUp, QueueFor, Usable, Found
    <2>2. CASE ~Usable(addr[i], c)
      <3>1. stage[i] = "creating"
        BY <1>1, <2>2 DEF TasksInv, Owning, Usable
      <3> QED BY <1>0, <1>1, <2>2, <3>1 DEF LookUp, QueueFor, Usable, Made
    <2> QED BY <2>1, <2>2
  <1>3. /\ queues' \in Seq(Queue) /\ Len(queues') \in Nat /\ Len(queues') >= Len(queues)
        /\ n \in 1 .. Len(queues')
        /\ \A m \in 1 .. Len(queues) : queues'[m] = queues[m]
        /\ \A m \in 1 .. Len(queues') : m \notin 1 .. Len(queues) => queues'[m] = NewQueue
        /\ \A k \in DOMAIN registry' : k \in Key /\ registry'[k] \in 1 .. Len(queues')
    BY <1>1, <1>2, LookedUp
  <1>4. task \in Task /\ task.of = i
    <2>1. Cardinality(posted) \in Nat
      BY FS_CardinalityType DEF TasksInv
    <2> QED BY <1>0, <1>1, <2>1, PlatformTasksAssumption DEF Task
  <1>5. /\ Owning'
        /\ \A j \in Isolate, m \in 1 .. Len(queues) : Home(j, m) => Home(j, m)'
        /\ Home(i, n)' \/ (stage'[i] = "closed" /\ own'[i] = n)
    <2>1. /\ addr' = addr /\ stage'[i] = stage[i] /\ own'[i] = own[i]
          /\ \A j \in Isolate : j # i => stage'[j] = stage[j] /\ own'[j] = own[j]
      BY <1>1
    <2> QED BY <1>1, <1>2, <2>1, LookUpHomes
  <1>6. TypeOK'
    <2>1. /\ posting \subseteq [task : Task, due : Nat, queue : 1 .. Len(queues')]
          /\ arming \cup wakes \subseteq [queue : 1 .. Len(queues'), due : Nat]
          /\ promoting \subseteq [queue : 1 .. Len(queues'), now : Nat]
          /\ own \in [Isolate -> 0 .. Len(queues')]
      BY <1>3, GrowsTypes DEF TasksInv
    <2>2. /\ posting' \subseteq [task : Task, due : Nat, queue : 1 .. Len(queues')]
          /\ DOMAIN registry' \subseteq Key /\ posted' \subseteq Task /\ destroyed \subseteq posted'
      BY <1>0, <1>1, <1>3, <1>4, <2>1 DEF TasksInv, TypeOK
    <2> QED BY <1>1, <1>3, <2>1, <2>2 DEF TasksInv, TypeOK, timerVars, loopVars
  <1>7. Loops' /\ ReadyRises' /\ DelayedAreTimed' /\ RanHome' /\ NothingSwallowed'
    BY <1>1, <1>3, GrowsInv
  <1>8. QueuedHome'
    <2>1. SUFFICES ASSUME NEW m \in 1 .. Len(queues'), NEW t \in HeldBy(m)'
                   PROVE  t \in posted /\ Home(t.of, m)'
      BY <1>1 DEF QueuedHome
    <2>2. m \in 1 .. Len(queues) /\ t \in HeldBy(m)
      BY <1>3, <2>1, AddedHeld DEF TasksInv
    <2>3. t \in posted /\ Home(t.of, m) /\ t.of \in Isolate
      BY <2>2, HeldTasks DEF TasksInv, QueuedHome
    <2> QED BY <1>5, <2>2, <2>3
  <1>9. PostsHome'
    <2>1. \A p \in posting : p.task.of \in Isolate /\ p.queue \in 1 .. Len(queues)
      BY DEF TasksInv, TypeOK, Task
    <2>2. post.task = task /\ post.queue = n
      BY <1>0
    <2>3. ASSUME NEW p \in posting
          PROVE  /\ p.task \in posted'
                 /\ \/ Home(p.task.of, p.queue)'
                    \/ stage'[p.task.of] = "closed" /\ own'[p.task.of] = p.queue
      BY <1>1, <1>5, <2>1, <2>3 DEF TasksInv, PostsHome
    <2>4. /\ post.task \in posted'
          /\ \/ Home(post.task.of, post.queue)'
             \/ stage'[post.task.of] = "closed" /\ own'[post.task.of] = post.queue
      BY <1>1, <1>4, <1>5, <2>2
    <2> QED BY <1>1, <2>3, <2>4, Zenon DEF PostsHome
  <1>10. IsFiniteSet(posted')
    BY <1>1, FS_AddElement DEF TasksInv
  <1> QED BY <1>5, <1>6, <1>7, <1>8, <1>9, <1>10 DEF TasksInv

-----------------------------------------------------------------------------
LEMMA TasksNextInv == TasksInv /\ [Next]_vars => TasksInv'
  <1> SUFFICES ASSUME TasksInv, [Next]_vars PROVE TasksInv'
    OBVIOUS
  <1>1. CASE UNCHANGED vars
    <2>1. TypeOK' /\ DelayedAreTimed'
      BY <1>1 DEF vars, isolateVars, timerVars, loopVars, TasksInv, TypeOK, DelayedAreTimed
    <2> QED BY <1>1, <2>1, TimerOnly DEF vars
  <1>2. ASSUME NEW i \in Isolate, NEW due \in {Now} \cup clock + 1 .. MaxClock, PostTask(i, due)
        PROVE  TasksInv'
    <2>1. due \in Nat
      BY <1>2, PlatformTasksAssumption DEF TasksInv, TypeOK, Now
    <2> QED BY <1>2, <2>1, PostTaskInv
  <1>3. CASE Timer
    BY <1>3, TimerRunInv, TimesOutInv, PromoteInv DEF Timer
  <1>4. CASE Tick
    BY <1>4, TickInv
  <1>5. CASE (\E p \in posting : Post(p)) \/ (\E a \in arming : Schedule(a))
    BY <1>5, PostInv, ScheduleInv
  <1>6. CASE \E i \in Isolate, k \in Key : CreateIsolate(i, k)
    BY <1>6, CreateInv
  <1>7. CASE \E i \in Isolate : Register(i) \/ Close(i) \/ Dispose(i) \/ DropRegistration(i)
    BY <1>7, RegisterInv, CloseInv, DisposeInv
  <1>8. CASE \E i \in Isolate : SetWaker(i) \/ HasReady(i) \/ TakeReady(i) \/ Poll(i) \/ EndRun(i)
    BY <1>8, SetWakerInv, HasReadyInv, TakeReadyInv, PollInv
  <1> QED BY <1>1, <1>2, <1>3, <1>4, <1>5, <1>6, <1>7, <1>8 DEF Next

LEMMA TasksInvariant == Spec => []TasksInv
  BY TasksInitInv, TasksNextInv, PTL DEF Spec

(***************************************************************************)
(* Every queue, post, wake and deadline of platform.rs is of its type.     *)
(***************************************************************************)
THEOREM TasksTypeCorrect == Spec => []TypeOK
  <1>1. TasksInv => TypeOK
    BY DEF TasksInv
  <1> QED BY <1>1, TasksInvariant, PTL

(***************************************************************************)
(* However addresses are reused, a task runs on the loop of the isolate    *)
(* V8 posted it for, and the queue of a live isolate holds its tasks only  *)
(* (queue_for, register and Registration::drop).                           *)
(***************************************************************************)
THEOREM TasksKeepHome == Spec => []TasksStayHome
  <1>1. ASSUME TasksInv PROVE TasksStayHome
    <2>1. ASSUME NEW i \in Isolate, stage[i] = "live", NEW t \in HeldBy(own[i])
          PROVE  t.of = i
      <3>1. own[i] \in 1 .. Len(queues) /\ own[i] # None
        BY <1>1, <2>1, OwnQueue DEF None
      <3>2. t.of \in Isolate /\ Home(t.of, own[i])
        BY <1>1, <2>1, <3>1, HeldTasks DEF TasksInv, QueuedHome
      <3> QED BY <1>1, <2>1, <3>1, <3>2, HomeAlone DEF TasksInv
    <2> QED BY <1>1, <2>1 DEF TasksStayHome, TasksInv, RanHome
  <1> QED BY <1>1, TasksInvariant, PTL

(***************************************************************************)
(* No tombstone swallows a task of an isolate that is not closed.          *)
(***************************************************************************)
THEOREM TasksNotSwallowed == Spec => []NothingSwallowed
  <1>1. TasksInv => NothingSwallowed
    BY DEF TasksInv
  <1> QED BY <1>1, TasksInvariant, PTL

(***************************************************************************)
(* The flag, the lock and the channel lose no wake: the loop never blocks  *)
(* over a task that is ready (take_ready against signal).                  *)
(***************************************************************************)
THEOREM WakesNotLost == Spec => []NoLostWake
  <1>1. ASSUME TasksInv PROVE NoLostWake
    <2>1. SUFFICES ASSUME NEW i \in Isolate, loop[i] = "blocked", queues[own[i]].tasks # << >>
                   PROVE  channel[i] > 0
      BY DEF NoLostWake
    <2>2. stage[i] = "live" /\ (queues[own[i]].ready => channel[i] > 0)
      BY <1>1, <2>1 DEF TasksInv, Loops
    <2>3. own[i] \in 1 .. Len(queues)
      BY <1>1, <2>2, OwnQueue
    <2>4. \A j \in Isolate : own[j] = own[i] => j = i
      BY <1>1, <2>2 DEF TasksInv, Owning
    <2> QED BY <1>1, <2>1, <2>2, <2>3, <2>4 DEF TasksInv, ReadyRises
  <1> QED BY <1>1, TasksInvariant, PTL

(***************************************************************************)
(* The timer thread knows, or will be told, the deadline of every delayed  *)
(* task, and sleeps past none.                                             *)
(***************************************************************************)
THEOREM DeadlinesKept == Spec => []DelayedAreTimed
  <1>1. TasksInv => DelayedAreTimed
    BY DEF TasksInv
  <1> QED BY <1>1, TasksInvariant, PTL

(***************************************************************************)
(* Once an isolate is closed no queue holds a task of it and none runs.    *)
(***************************************************************************)
THEOREM TasksEndWithIsolate == Spec => NothingOutlivesIsolate
  <1>1. ASSUME TasksInv, TasksInv', [Next]_vars,
               NEW i \in Isolate, stage[i] \in {"closed", "disposed", "dropped"}
        PROVE  /\ \A n \in 1 .. Len(queues) : \A t \in HeldBy(n) : t.of # i
               /\ \A r \in ran' \ ran : r.task.of # i
    <2>1. \A n \in 1 .. Len(queues) : \A t \in HeldBy(n) : t.of # i
      BY <1>1 DEF TasksInv, QueuedHome, Home, Building
    <2>2. ASSUME NEW r \in ran' \ ran PROVE r.task.of # i
      <3>1. \E j \in Isolate : TakeReady(j)
        BY <1>1, <2>2
           DEF Next, vars, Timer, TimerRun, TimerTimesOut, PromoteDue, Tick, Post, Schedule,
               CreateIsolate, Register, Close, Dispose, DropRegistration, PostTask, SetWaker,
               HasReady, Poll, EndRun
      <3>2. PICK j \in Isolate : TakeReady(j)
        BY <3>1
      <3>3. r.by = j /\ stage[j] = "live"
        <4>1. /\ loop[j] = "take"
              /\ ran' = ran \cup {[task |-> t, by |-> j] : t \in ToSet(queues[own[j]].tasks)}
          BY <3>2 DEF TakeReady
        <4>2. r.by = j
          BY <2>2, <4>1
        <4> QED BY <1>1, <4>1, <4>2 DEF TasksInv, Loops
      <3>4. r.by = r.task.of
        BY <1>1, <2>2 DEF TasksInv, RanHome
      <3> QED BY <1>1, <3>3, <3>4
    <2> QED BY <2>1, <2>2
  <1>2. TasksInv /\ TasksInv' /\ [Next]_vars =>
           [\A i \in Isolate : stage[i] \in {"closed", "disposed", "dropped"} =>
              /\ \A n \in 1 .. Len(queues) : \A t \in HeldBy(n) : t.of # i
              /\ \A r \in ran' \ ran : r.task.of # i]_vars
    BY <1>1
  <1> QED BY <1>2, TasksInvariant, PTL DEF Spec, NothingOutlivesIsolate
=============================================================================
