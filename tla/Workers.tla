------------------------------ MODULE Workers ------------------------------
(***************************************************************************)
(* Workers: the pool of pre-warmed isolates behind oam.fork()              *)
(* (crates/oam_engine/src/fork.rs), the threads that run workers           *)
(* (crates/oam_engine/src/worker.rs) and the parent's registry of them     *)
(* (crates/oam_core/src/worker.rs).                                        *)
(*                                                                         *)
(* A slot is a thread with a channel that holds one request.  The request  *)
(* may be buffered there before the thread is warm, and a thread may panic *)
(* before it receives (fork.rs names the case) or while the script runs.   *)
(* Panics are the fault model.  A worker's last sender goes with whatever  *)
(* held it, and the parent's receive loop, in node_compat.js, takes the    *)
(* end of the channel for the end of the worker.                           *)
(*                                                                         *)
(* fork pops a slot and sends on it without a lock between, but only the   *)
(* parent's thread forks and a slot that dies between the two is as dead   *)
(* as one that died before, so Fork is one step.                           *)
(***************************************************************************)
EXTENDS Integers, Sequences, FiniteSets, SequencesExt

CONSTANTS
    MaxWorkers,  \* bound on the workers the parent starts
    Capacity,    \* ForkPool::capacity
    MaxPanics,   \* bound on the threads that panic
    MaxPosts     \* bound on the messages queued in a channel

ASSUME WorkersAssumption ==
    MaxWorkers \in Nat /\ Capacity \in Nat /\ MaxPanics \in Nat /\ MaxPosts \in Nat

Worker == 1 .. MaxWorkers
NoWorker == 0

(* Every slot is one of the first Capacity or replaces one that was used.  *)
Slots == 1 .. Capacity + MaxWorkers

VARIABLES
    alive,       \* the parent's isolate, and with it the pool
    warmed,      \* warm_started
    pool,        \* the slots, by number; fork takes the first
    slot,        \* slot -> its thread
    request,     \* slot -> the worker whose request its channel or run holds
    where,       \* worker -> what holds its event sender
    script,      \* worker -> what its script does
    mail,        \* worker -> messages its parent posted and it did not read
    events,      \* worker -> events it sent and the parent did not read
    handles,     \* WorkerState::handles
    receivers,   \* WorkerState::receivers
    closed,      \* WorkerState::closed
    recv,        \* worker -> its receive loop: idle, blocked, got, ended
    got,         \* worker -> the event a receive took off the channel
    panics       \* threads that panicked so far

poolVars == <<alive, warmed, pool, slot, request, panics>>
threadVars == <<where, script, mail>>
parentVars == <<handles, receivers, closed, recv, got>>
workerVars == <<poolVars, threadVars, events, parentVars>>

Thread == {"none", "warming", "ready", "running", "dead"}
Holder == {"new", "slot", "warm", "cold", "gone"}

(* Online, Message, Error, Thrown and the outputs are one here: the loop   *)
(* hands each on and receives again.                                       *)
Event == {"note", "exit"}

WorkersInit ==
    /\ alive = TRUE /\ warmed = FALSE
    /\ pool = << >>
    /\ slot = [s \in Slots |-> "none"]
    /\ request = [s \in Slots |-> NoWorker]
    /\ where = [w \in Worker |-> "new"]
    /\ script = [w \in Worker |-> "starts"]
    /\ mail = [w \in Worker |-> 0]
    /\ events = [w \in Worker |-> << >>]
    /\ handles = {} /\ receivers = {} /\ closed = {}
    /\ recv = [w \in Worker |-> "idle"]
    /\ got = [w \in Worker |-> "note"]
    /\ panics = 0

-----------------------------------------------------------------------------
(* The pool.                                                               *)

NextSlot(sl) == CHOOSE s \in Slots : sl[s] = "none" /\ \A t \in 1 .. s - 1 : sl[t] # "none"

(* add_slot, on the threads sl and the pool p.                             *)
AddSlot(sl, p) ==
    /\ slot' = [sl EXCEPT ![NextSlot(sl)] = "warming"]
    /\ pool' = Append(p, NextSlot(sl))

(* ensure_warm: the pool as fork finds it.                                 *)
WarmPool == IF warmed THEN pool ELSE [n \in 1 .. Capacity |-> n]
WarmSlots == IF warmed THEN slot
             ELSE [s \in Slots |-> IF s <= Capacity THEN "warming" ELSE "none"]

(* op_fork_spawn and op_worker_new: the next id, and the parent's ends of  *)
(* the worker's channels.                                                  *)
Registers(w) ==
    /\ alive /\ where[w] = "new" /\ \A v \in 1 .. w - 1 : where[v] # "new"
    /\ handles' = handles \cup {w}
    /\ receivers' = receivers \cup {w}
    /\ UNCHANGED <<closed, recv, got>>

(* fork, when the first slot's thread has a receiver: try_send buffers the *)
(* request, warm or not.                                                   *)
ForkWarm(w) ==
    /\ WarmPool # << >>
    /\ WarmSlots[Head(WarmPool)] # "dead"
    /\ slot' = WarmSlots /\ pool' = Tail(WarmPool)
    /\ request' = [request EXCEPT ![Head(WarmPool)] = w]
    /\ where' = [where EXCEPT ![w] = "slot"]

(* fork, when try_send is told Disconnected: a cold spawn, and a new slot  *)
(* for the dead one.                                                       *)
ForkDead(w) ==
    /\ WarmPool # << >>
    /\ WarmSlots[Head(WarmPool)] = "dead"
    /\ AddSlot(WarmSlots, Tail(WarmPool))
    /\ where' = [where EXCEPT ![w] = "cold"]
    /\ UNCHANGED request

(* fork, when the pool is empty: a cold spawn.                             *)
\* A bug: a slot is added for it, on top of the refills to come.
ForkEmptyRefills(w) ==
    /\ WarmPool = << >>
    /\ AddSlot(WarmSlots, WarmPool)
    /\ where' = [where EXCEPT ![w] = "cold"]
    /\ UNCHANGED request
ForkEmpty(w) ==
    /\ WarmPool = << >>
    /\ slot' = WarmSlots /\ pool' = WarmPool
    /\ where' = [where EXCEPT ![w] = "cold"]
    /\ UNCHANGED request

Fork(w) ==
    /\ Registers(w)
    /\ ForkWarm(w) \/ ForkDead(w) \/ ForkEmpty(w)
    /\ warmed' = TRUE
    /\ UNCHANGED <<alive, panics, script, mail, events>>

(* new Worker(...): spawn_worker, no pool.                                 *)
NewWorker(w) ==
    /\ Registers(w)
    /\ where' = [where EXCEPT ![w] = "cold"]
    /\ UNCHANGED <<poolVars, script, mail, events>>

(* A slot's thread has built its runtime and waits in recv.                *)
Warm(s) ==
    /\ slot[s] = "warming"
    /\ slot' = [slot EXCEPT ![s] = "ready"]
    /\ UNCHANGED <<alive, warmed, pool, request, panics, threadVars, events, parentVars>>

(* recv returns the request, and run_fork_request starts.                  *)
Receive(s) ==
    /\ slot[s] = "ready" /\ request[s] # NoWorker
    /\ slot' = [slot EXCEPT ![s] = "running"]
    /\ where' = [where EXCEPT ![request[s]] = "warm"]
    /\ script' = [script EXCEPT ![request[s]] = "runs"]
    /\ UNCHANGED <<alive, warmed, pool, request, panics, mail, events, parentVars>>

(* The pool is gone: recv fails and the thread exits.                      *)
PoolGone(s) ==
    /\ slot[s] = "ready" /\ request[s] = NoWorker /\ ~alive
    /\ slot' = [slot EXCEPT ![s] = "dead"]
    /\ UNCHANGED <<alive, warmed, pool, request, panics, threadVars, events, parentVars>>

(* What a thread that unwinds drops: the request it was sent or runs, or a *)
(* cold worker's options, and the event sender and the inbox in it.        *)
\* A bug: fork keeps a sender of its own alive.
UnwindsKept(w) == UNCHANGED threadVars
Unwinds(w) ==
    IF w = NoWorker THEN UNCHANGED threadVars
    ELSE /\ where' = [where EXCEPT ![w] = "gone"]
         /\ mail' = [mail EXCEPT ![w] = 0]
         /\ script' = [script EXCEPT ![w] = "ends"]

Panic(s) ==
    /\ slot[s] \in {"warming", "running"}
    /\ panics < MaxPanics
    /\ panics' = panics + 1
    /\ slot' = [slot EXCEPT ![s] = "dead"]
    /\ Unwinds(request[s])
    /\ request' = [request EXCEPT ![s] = NoWorker]
    /\ UNCHANGED <<alive, warmed, pool, events, parentVars>>

ColdPanics(w) ==
    /\ where[w] = "cold"
    /\ panics < MaxPanics
    /\ panics' = panics + 1
    /\ Unwinds(w)
    /\ UNCHANGED <<alive, warmed, pool, slot, request, events, parentVars>>

(* The parent's isolate is dropped: the pool, the registry, its loops.     *)
DropParent ==
    /\ alive
    /\ alive' = FALSE
    /\ pool' = << >>
    /\ handles' = {} /\ receivers' = {}
    /\ recv' = [w \in Worker |-> "ended"]
    /\ events' = [w \in Worker |-> << >>]
    /\ got' = [w \in Worker |-> "note"]
    /\ UNCHANGED <<warmed, slot, request, panics, threadVars, closed>>

-----------------------------------------------------------------------------
(* A worker's thread.                                                      *)

Runs(w) == where[w] \in {"warm", "cold"}

(* A send is lost once the receiver was dropped.                           *)
Listens(w) ==
    \/ w \in receivers
    \/ recv[w] = "blocked"
    \/ recv[w] = "got" /\ w \notin closed
Send(w, es) == events' = IF Listens(w) THEN [events EXCEPT ![w] = @ \o es] ELSE events

(* parentPort.postMessage: worker_post.                                    *)
WorkerPost(w) ==
    /\ Runs(w) /\ script[w] = "runs"
    /\ Len(events[w]) < MaxPosts
    /\ Send(w, <<"note">>)
    /\ UNCHANGED <<poolVars, threadVars, parentVars>>

(* worker_recv takes the inbox and blocks on it.                           *)
WorkerRecv(w) ==
    /\ Runs(w) /\ script[w] = "runs"
    /\ script' = [script EXCEPT ![w] = "waits"]
    /\ UNCHANGED <<poolVars, where, mail, events, parentVars>>

(* The blocked receive: a message, or the sender is gone with its handle.  *)
WorkerRecvDone(w) ==
    /\ Runs(w) /\ script[w] = "waits"
    /\ \/ /\ mail[w] > 0
          /\ mail' = [mail EXCEPT ![w] = @ - 1]
          /\ script' = [script EXCEPT ![w] = "runs"]
       \/ /\ mail[w] = 0 /\ w \notin handles
          /\ script' = [script EXCEPT ![w] = "ends"]
          /\ UNCHANGED mail
    /\ UNCHANGED <<poolVars, where, events, parentVars>>

(* run_worker: the thread is up and its entry not yet looked for.          *)
Online(w) ==
    /\ where[w] = "cold" /\ script[w] = "starts"
    /\ Send(w, <<"note">>)
    /\ script' = [script EXCEPT ![w] = "runs"]
    /\ UNCHANGED <<poolVars, where, mail, parentVars>>

(* The end of a script: Exit, after an Error when it failed (a missing     *)
(* entry is one); the senders and the inbox go with the thread.            *)
ScriptEnds(w, last) ==
    /\ script[w] # "waits"
    /\ Send(w, last)
    /\ where' = [where EXCEPT ![w] = "gone"]
    /\ mail' = [mail EXCEPT ![w] = 0]
    /\ script' = [script EXCEPT ![w] = "ends"]
    /\ UNCHANGED <<alive, warmed, panics, parentVars>>

(* run_worker and spawn_worker.  Options that are refused end it before it *)
(* is up, with no error.                                                   *)
ColdEnds(w) ==
    /\ where[w] = "cold"
    /\ \/ ScriptEnds(w, <<"exit">>)
       \/ script[w] # "starts" /\ ScriptEnds(w, <<"note", "exit">>)
    /\ UNCHANGED <<pool, slot, request>>

(* run_fork_request; the thread then refills the pool, if there is one.    *)
WarmEnds(s) ==
    LET died == [slot EXCEPT ![s] = "dead"] IN
    /\ slot[s] = "running"
    /\ ScriptEnds(request[s], <<"exit">>) \/ ScriptEnds(request[s], <<"note", "exit">>)
    /\ request' = [request EXCEPT ![s] = NoWorker]
    /\ IF alive THEN AddSlot(died, pool) ELSE slot' = died /\ UNCHANGED pool

-----------------------------------------------------------------------------
(* The parent.                                                             *)

(* parent_post: refused without a handle or once the worker's inbox is     *)
(* gone.                                                                   *)
ParentPost(w) ==
    /\ w \in handles /\ where[w] # "gone"
    /\ mail[w] < MaxPosts
    /\ mail' = [mail EXCEPT ![w] = @ + 1]
    /\ UNCHANGED <<poolVars, where, script, events, parentVars>>

(* parent_recv takes the receiver out of the registry and blocks on it; a  *)
(* worker without one has no more to say, and its loop ends.               *)
Recv(w) ==
    /\ where[w] # "new" /\ recv[w] = "idle"
    /\ receivers' = receivers \ {w}
    /\ recv' = [recv EXCEPT ![w] = IF w \in receivers THEN "blocked" ELSE "ended"]
    /\ UNCHANGED <<poolVars, threadVars, events, handles, closed, got>>

(* The blocked receive returns an event, or that no sender is left.        *)
RecvEvent(w) ==
    /\ recv[w] = "blocked" /\ events[w] # << >>
    /\ got' = [got EXCEPT ![w] = Head(events[w])]
    /\ events' = [events EXCEPT ![w] = Tail(@)]
    /\ recv' = [recv EXCEPT ![w] = "got"]
    /\ UNCHANGED <<poolVars, threadVars, handles, receivers, closed>>

RecvGone(w) ==
    /\ recv[w] = "blocked" /\ events[w] = << >> /\ where[w] = "gone"
    /\ recv' = [recv EXCEPT ![w] = "ended"]
    /\ UNCHANGED <<poolVars, threadVars, events, handles, receivers, closed, got>>

(* reinsert_receiver: a worker terminated meanwhile gets it back no more.  *)
\* A bug: the receiver goes back whatever happened while it was out.
ReinsertAlways(w) == receivers' = receivers \cup {w}
ReinsertReceiver(w) == receivers' = IF w \in closed THEN receivers ELSE receivers \cup {w}

(* The event is handed to the receive loop, which ends on an exit.         *)
RecvReturn(w) ==
    /\ recv[w] = "got"
    /\ ReinsertReceiver(w)
    /\ recv' = [recv EXCEPT ![w] = IF got[w] = "exit" THEN "ended" ELSE "idle"]
    /\ got' = [got EXCEPT ![w] = "note"]
    /\ events' = IF w \in closed THEN [events EXCEPT ![w] = << >>] ELSE events
    /\ UNCHANGED <<poolVars, threadVars, handles, closed>>

(* parent_terminate.                                                       *)
Terminate(w) ==
    /\ alive /\ where[w] # "new" /\ w \notin closed
    /\ handles' = handles \ {w}
    /\ receivers' = receivers \ {w}
    /\ closed' = closed \cup {w}
    /\ events' = IF recv[w] = "blocked" THEN events ELSE [events EXCEPT ![w] = << >>]
    /\ UNCHANGED <<poolVars, threadVars, recv, got>>

-----------------------------------------------------------------------------
SlotStep(s) == Warm(s) \/ Receive(s) \/ PoolGone(s) \/ WarmEnds(s)
WorkerStep(w) == Online(w) \/ WorkerRecvDone(w) \/ ColdEnds(w)
RecvStep(w) == Recv(w) \/ RecvEvent(w) \/ RecvGone(w) \/ RecvReturn(w)

WorkersNext ==
    \/ \E s \in Slots : SlotStep(s) \/ Panic(s)
    \/ \E w \in Worker : \/ Fork(w) \/ NewWorker(w) \/ Terminate(w) \/ ParentPost(w)
                         \/ WorkerPost(w) \/ WorkerRecv(w) \/ ColdPanics(w)
                         \/ WorkerStep(w) \/ RecvStep(w)
    \/ DropParent

WorkersSpec == WorkersInit /\ [][WorkersNext]_workerVars

-----------------------------------------------------------------------------
WorkersTypeOK ==
    /\ alive \in BOOLEAN /\ warmed \in BOOLEAN
    /\ pool \in Seq(Slots) /\ IsInjective(pool)
    /\ slot \in [Slots -> Thread]
    /\ request \in [Slots -> Worker \cup {NoWorker}]
    /\ where \in [Worker -> Holder]
    /\ script \in [Worker -> {"starts", "runs", "waits", "ends"}]
    /\ mail \in [Worker -> 0 .. MaxPosts]
    /\ events \in [Worker -> Seq(Event)]
    /\ handles \subseteq Worker /\ receivers \subseteq Worker /\ closed \subseteq Worker
    /\ recv \in [Worker -> {"idle", "blocked", "got", "ended"}]
    /\ got \in [Worker -> Event]
    /\ panics \in 0 .. MaxPanics

(***************************************************************************)
(* The pool holds its capacity at most, however forks, deaths and refills  *)
(* interleave: slots to hand out and threads that will refill one, the     *)
(* ones a request went to, never exceed it.  A refill too many would keep  *)
(* an isolate for the life of the program.                                 *)
(***************************************************************************)
PoolNeverGrows ==
    Len(pool) + Cardinality({s \in Slots : request[s] # NoWorker}) <= Capacity

(***************************************************************************)
(* The receive loop of a worker that was not terminated ends only when the *)
(* worker is gone: a receive that had the receiver out put it back, and    *)
(* no second one found the registry empty and reported an exit.  And       *)
(* terminate is for good: a receive that was blocked when it came does not *)
(* put the receiver back, so no event sent later reaches the parent.       *)
(***************************************************************************)
EndIsReal ==
    /\ \A w \in Worker :
          recv[w] = "ended" /\ alive => w \in closed \/ where[w] = "gone"
    /\ closed \cap receivers = {}

HasThread(w) == where[w] = "cold" \/ \E s \in Slots : request[s] = w

(***************************************************************************)
(* A worker whose thread is over, by its exit or by a panic that took its  *)
(* request along, ends its receive loop, and so does one that was          *)
(* terminated, at the latest when the receive that was blocked meanwhile   *)
(* returns: the parent does not wait for ever for an exit that cannot      *)
(* come.  A thread need not end: nothing stops a terminated worker's, and  *)
(* a receive blocked on one that is silent stays blocked.                  *)
(***************************************************************************)
EndDue(w) == \/ where[w] # "new" /\ ~HasThread(w)
             \/ w \in closed /\ recv[w] # "blocked"
Unseen == {w \in Worker : EndDue(w) /\ recv[w] # "ended"}
WorkerEndSeen == Unseen # {} ~> Unseen = {}
=============================================================================
