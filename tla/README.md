# oam: a verification of the runtime's event loop and services

oam is a JavaScript and TypeScript runtime: V8 inside a Rust host that
reimplements Node's interfaces. This directory models two parts of it. The core
decides *when things run and when the process ends*: the event loop and the
queues it serves. That is where Node's ordering rules are re-created by hand,
and where a wrong count means a process that hangs or one that exits over work
it still owed. Around it are the services whose own threads, tasks and processes
meet in shared state: workers and the fork pool, the HTTP client's pool and
fetch, a server connection, stdin, signals, the code cache, the type-check
daemon.

## The system

| Component | State | Operations | Meets |
| --- | --- | --- | --- |
| Event loop (`oam_engine/modules.rs`, `pump_event_loop`) | what ran last, progress of the turn, the beforeExit guard, the wait's deadline | one turn: debugger commands, a tick point, one due callback, V8's tasks, one completion; then deferred ticks, beforeExit, exit or a wait | everything below, on the isolate's thread |
| Timers (`oam_engine/timers.rs`) | heap of timers, FIFO of immediates, pending callbacks, live timers, ref count, running phase | set, clear, ref, unref, timerPending, pop_due, peek_due, next_deadline | JavaScript and the loop |
| Op runtime (`oam_core/lib.rs`, `CoreRuntime`) | ids, in-flight count, unref'd ops, handle map and reverse index, completion channel | spawn, ref/unref/close of a handle, receive | JavaScript, the loop, tokio's threads |
| Op settlement (`oam_engine/ops.rs`) | parked promises and callbacks | settle | the loop |
| V8's tasks (`oam_engine/platform.rs`) | a queue per isolate in a registry by address, a flag, a waker, delayed tasks, one timer thread | post, delayed post, promote, take, attach waker, close, register, drop | any V8 thread, the timer thread, every isolate's loop |
| nextTick queue (`js/node_compat.js`) | queued ticks | drain, one tick at a time | the loop's tick points |
| Inspector | commands not yet dispatched | poll | the loop, a websocket thread |
| Fork pool, workers | warm isolates; registry of receivers | fork, refill; receive, post, terminate | threads of their own |
| HTTP client (`oam_core/http_client`) | idle connections by origin, shared h2 sessions, resend allowances | checkout, park, expire, destroy; send, resend, redirect | tokio's tasks |
| HTTP server (`http_conn.rs`, `http_server.rs`) | phase and generation of each connection | timeouts, dispatch, upgrade | tokio's tasks, JavaScript |
| Connection attempts, sockets, pipes, TLS, DNS | handles in registries | connect, read, write, close | tokio's tasks |
| stdin gate, signals, child processes, file watching | read state; watchers counted per signal; OS handles | read/cancel/hold; watch/unwatch | blocking threads, the OS |
| Type-check daemon (`oam_ts/daemon.rs`) | state file, spawn-failed marker; one cached answer with its fingerprint and file list | find, ping, check, spawn, retire, stop; serve, idle exit | other oam processes, an editor |
| Caches, loader, installer, self-update | files on disk | load, store, sweep; resolve; install | other oam processes |
| Permissions, codecs, crypto, N-API, replay, CLI, MCP | little or none | conversions and dispatch | their callers |

The hard behaviours: completions, posts and wakes from other threads at every
point of a turn; JavaScript that re-enters every queue from every callback;
throws that a listener takes, which leave work queued; unref'd work that must
not keep the process alive, beside work that must; addresses and ids that are
reused; waits that must end.

What makes the core correct: the two counters the loop decides on are exact; no
timer, completion, task or tick is lost, run twice or run early; what is ready
is eventually run; timers do not starve I/O; the loop ends only when drained and
tells `beforeExit` once per drain; a rejected entry stops the run; a task never
crosses from one isolate to another. Of the services: a worker's end is seen
once it happened and only then, whatever died; a connection has one owner, and a
request the server may act on twice is sent once; a message being received stays
under its timeouts (but for the head that `unchecked_head` is about, below); a close, a fetch and a read all go on; a signal kills exactly
when nobody listens; what is read from a cache was written whole; an answer the
daemon gives again is still true.

## Modules

* `AsyncOps` and `NodeTimers`: what the ops and the timers promise, to JavaScript
  and to the loop, without the code's means. An op is waited for until its one
  completion is taken, and a handle's ops count exactly while it is ref'd; a
  timer that is cleared is gone at once, and what runs is the earliest due. Both
  say in one variable, `alive`, whether the loop has a reason to go on. A pending
  callback that an immediate queued promises little in `NodeTimers`, because the
  code does not keep what its comment says of it (`pending_phase`, below).
* `OpRuntime`: `CoreRuntime` and `PendingOps`. Completions are ids on a FIFO
  channel; `Complete` is a tokio thread, `SendSentinel` a signal or a wake,
  everything else the isolate's thread. `Settle` is receive, `note_settled` and
  `settle_completion` in one step: nothing else runs on that thread in between.
* `TimerQueue`: both queues are sets of `(time, seq, id)` entries, whose minimum
  is the front. Entries of cancelled timers stay until `Skim` or a purge removes
  them, as in the code. `pop_due` is three actions, by what it returns. Time is
  in clock units, `Ms` of them to a millisecond. The fields `seq` of a timer and
  `born`, `from`, `phase` of a pending callback, and the variable `check`, are
  history that only properties read. `SeenTimers` and `SeenPending` map its state
  to `NodeTimers`': the live timers, each with what its entry says, and what each
  pending callback still waits for. `OpRuntime` maps its own with `Counting`,
  `Filed` and `Unrefd`.
* `EventLoop`: the loop as a program counter over instances of the two. While
  `pc = "js"` the user's code makes any calls it likes, returns, throws to a
  listener, throws for good or (in a promise job) rejects the entry; `site` says
  for whom it runs and so where the loop goes on. A drain of ticks and
  microtasks is a loop of its own that takes one tick at a time. V8's tasks are
  abstracted to one asynchronous compile that is in the background or ready.
  `ran`, `quiet` and `phase` are history.
* `PlatformTasks`: the queues themselves, in steps of what one lock makes
  atomic, with isolates that are created at reused addresses, closed, disposed
  of and whose registrations are dropped late.
* `Workers`: `fork.rs`, both `worker.rs` and the receive loop in
  `node_compat.js`. A slot is a thread with a channel for one request, which may
  be sent to it before it is warm. Who holds a worker's event sender is state
  (`where`), because its drop is what the parent sees as the end. Threads may
  panic, a slot's while it warms and any while it runs a script.
* `StdinGate`: `ReadGate`, the reading thread and the thread that switches the
  console's mode, with one step for each atomic operation and each lock. The
  console is external: users type, other programs read, an injected Enter fails.
* `Signals`: handles, the process-wide count of watchers, and the task that acts
  out the default. A handle's flag and the count change in two steps.
  `before`, `handling` and `owed` are history.
* `CodeCache`: one key on a disk that several processes share: load with seeds
  and tombstones, store as three system calls, the sweep as look and remove.
  Processes may be killed at any step. `torn` is history.
* `HttpConn`: `ConnWatch` and the select loop of `serve_http1` for one HTTP/1
  connection; hyper is external and serves one exchange at a time. `age` is how
  many of a message's two timeouts it has outlived. `hyper.head` says that bytes
  of a next request are read and its headers are not in yet, whatever the watch
  made of them; `hyper.ahead`, that they all came before the end of the request
  before was reported, is history.
* `HttpPool`: `pool.rs` for one origin, with requests, parking tasks, the
  reaper, the peer and `destroy()` as processes. A `destroy()` is three steps (the
  generation, the queue, the HTTP/2 entry) and the reaper's round two, as they are
  locked. Where the code compares instants the model chooses. `inUse` is history.
* `HttpFetch`: the request loop of `send.rs` over `HttpPool`, whose requests are
  its sends: parks for the lookup hook, resends, retries, redirects, cancel,
  headersTimeout. `wire` (how often the server may have read the hop's request)
  is history.
* `TsDaemon`: `oam check` and `oam daemon stop` as clients, daemons with their
  accept thread, watchdog and check worker, and the state file they meet in. A
  daemon may die at any step, and every timeout may come at any time. The tree
  is two counts of edits: of the files under the project's root that a
  fingerprint always walks (not `node_modules`, `.git`, `.oam`, `target`, nor what
  tsc cannot load), and of one file outside, which the root's first edit
  imports and which a fingerprint has only if tsgo listed it. A fill's listing,
  fingerprint, check and store are four steps, each of one moment. A rewrite that
  keeps size and modification time is outside the documented envelope
  (`daemon.rs:402-407`) and is no edit. `answered`,
  and `asked` of a client, are history.
* `PartialMaps`: insert and drop on the code's `HashMap`s, as functions.
* `Orderings`: the ways to go through a finite set in an order, for
  `VecDeque::retain` and the pops of a `BinaryHeap`. It is a set to choose from
  rather than a fold, so that the proofs can use what the chosen order is.
* `OpRuntimeProofs`, `TimerQueueProofs`, `EventLoopProofs`,
  `PlatformTasksProofs`, `WorkersProofs`, `HostProofs` (`StdinGate`, `Signals`,
  `HttpConn`, `CodeCache`, `TsDaemon`), `HttpFetchProofs` (`HttpPool`,
  `HttpFetch`), `ServicesProofs` (their composition): theorems.
* `MC...`: the instances TLC checks. A definition introduced by "A bug:" is not
  part of the system: it is a wrong version of the definition after it, used to
  see that a property notices.

`EventLoop` and `PlatformTasks` meet at the wake: what `EventLoop!V8Posts` puts
into the op channel in one step is what `PlatformTasks` shows of `post`,
`signal` and the waker in several. `Signals` refines what `EventLoop!Signal`
leaves open, who is told of a signal. The other services reach the loop only as
ops that complete (a fetch's result, a received message, a read), which
`OpRuntime!Complete` allows at any time and in any order.

The services share no state with each other, so `MCServices` checks them side by
side: `part` is chosen once and says which of them moves. The state space is the
sum of the parts' and not their product, and no interleaving is lost that a
property could tell. That each part behaves in the composition as it does alone
is a theorem (`ServicesAreParts`). The pool is checked twice, under requests of any kind and
under a fetch, and so is the daemon: with clients that start and retire several
and hand over no check, and with one daemon that checks while files are edited.

## Runs

| Run | Instance | What it shows |
| --- | --- | --- |
| `queues` | ops: 2 symmetric handles, 4 ops, 1 sentinel queued; timers: 2 ids, 3 schedulings, 2 units to a ms, clock to 4 | the in-flight count is exact, the maps agree and prune themselves, and all of it implements `AsyncOps` (`BehavesAsPromised`); no timer lost, early or counted wrongly, pending callbacks are not overtaken, and until ids wrap the queue implements `NodeTimers` (`BehavesAsNode`) |
| `event_loop` | programs of 3 calls (2 with a debugger, plus its command), 1 signal, clock to 2 | exits drained, beforeExit once per drain, polls between timer phases, stops at a rejection |
| `event_loop_live` | programs of 2 calls, fair | completions settle, due timers run |
| `platform_tasks` | 2 isolates at 1 address, 2 tasks, 2 runs each, clock to 2, fair | no lost wake, no task swallowed, misdelivered, forgotten or outliving its isolate; tasks run |
| `services` | per part, below; fair | `PoolNeverGrows`, `EndIsReal`, `WorkerEndSeen`: the fork pool keeps its capacity, and a worker's end that happened reaches the parent, none is made up; `DeliveredUnderMode`, `ReaderResumes`: stdin results belong to the mode in force and a switch strands no reader; `NoDeathUnderListener`, `UnwatchedKills`: a signal does its default exactly when nobody watched; `NeverTorn`: no load reads half a blob; `StaysUnderCheck`, `CloseGoesOn`: a message stays under its timeouts (item 7 below is the exception), a waiting close goes on; `OneOwner`: two requests never share an HTTP/1 connection; `NeverSentTwice`, `FetchSettles`: a fetch resends only what may be resent, and ends; `RootEditsSeen`, `OldDaemonGone`: no check is answered from before an edit under the root, and no daemon is advertised beside an outdated one |
| `pending_phase`, `deferred_ticks`, `stale_deadline`, `rejected_entry`, `destroyed_agent`, `late_import`, `unchecked_head` | the smallest that shows it | seven places where the code and its comments disagree, below |

Bounds. Two handles show an unref'd and a referenced one at once, and one closed
and opened again while an op of its first life is out. Two timer ids make the
third scheduling reuse one, so that `BehavesAsNode` speaks of the first two (with
three ids it holds of all three schedulings, 1.5 million states); two clock units to the millisecond put deadlines
inside the millisecond a pending callback waits out; `PurgeAt` is 1 where the
code has 64, so that purges happen. Three calls are enough for a timer, an op
and a tick in one program, or a timer that sets a timer that sets an immediate.
Two isolates suffice for a reused address; two tasks for a later deadline that
is told to the timer thread before an earlier one; two runs for a wake on a
channel that is gone. `MaxSeq`, `MaxClock`, `MaxPending`, `MaxSentinels`,
`MaxCalls`, `MaxOutside`, `MaxPosts` and `MaxRuns` bound what would grow for
ever. Deadlock is not checked, because a program may end and the bounds run out.
The ops and the timers share no state, so `MCQueues` checks them side by side, as
`MCServices` does the services: `part` is chosen once and says which moves.

Bounds of `services`. Two workers over a fork pool of one slot: one takes the
slot, the other finds it dead, busy or gone; one panic, one message queued each
way. Two mode switches and one line typed: the second switch meets the read that
the first discarded or gave up. Two listening isolates, two deliveries, four
listeners added or removed. Two processes with one store each, of which the one
named in `Killable` may be killed (the processes are alike), and one file or
stamp that becomes old. Two requests on a server connection, so that one may be
received while the other's body is read. Two connections and two requests in the
pool, one `destroy()`; it may start with a connection parked, which stands for
all that earlier requests left. One fetch, which may be redirected once; an h2
retry is allowed once where `MAX_H2_RETRIES` is 2; requests of any kind meet a
`destroy()` between its steps, the fetch before or after it (`FetchClient`). Two clients and two daemons,
of which the first may be of another version and running already: both clients
may retire it, and the one that is late meets the other's new daemon. One edit
under the root, before, between or after the two checks and at any step of one.

Fairness. `EventLoop!FairSpec`: the isolate's thread keeps running and the
JavaScript it runs ends (one of `Return`, `ThrowHandled`, `ThrowFatal`), V8
finishes what it compiles, time passes. An op may stay out for ever: nothing in
the code bounds it. `PlatformTasks!FairSpec`: a loop that is running goes on, a
post that has begun ends (a lock), the timer thread is scheduled, time passes.
V8 need not post, nor a run or an isolate end. `MCServices!Fairness`: of the
workers, only the parent's receive (a blocked one that has an event or no sender
left returns, and the loop goes on to the next). No worker's thread is fair: its
script need not end, and nothing in the code makes it. Of the rest, every thread
and task that can go on does: the reader and the thread that switches, the
default's task and an isolate that has yet to adjust the count, the select loop
and the timeout check between its check and its close, the parking tasks, a
`destroy()` that has begun. So far it is weak fairness of threads and tasks that
are scheduled, whose steps wait for nothing outside the runtime. A fetch needs
more, and goes on through its hook and its peer: the hook answers or fails, and a
peer that does not answer is cut off by headersTimeout. Nobody need type, post,
raise a signal, answer on a server, close or cancel.

### Where code and comments disagree

1. `pending_phase`: an immediate's turn time stands for the start of its check
   phase (`timers.rs:287`), so a pending callback that a later immediate of a
   phase queues is overtaken by immediates queued during the phase.
2. `deferred_ticks`: a completion settled in the blocking wait does not set
   `last_ran`, so ticks left by a handled throw in the first callback of a run
   are waited over.
3. `stale_deadline`: a debugger command run inside the timer wait may set an
   earlier timer; the wait keeps its old deadline.
4. `rejected_entry`: a tick drain before the turn's callback may reject the
   entry, and the callback still runs.
5. `destroyed_agent`: a connection in use at `destroy()` is to close with its
   request. Its generation is read when the response's head arrives
   (`pool.rs:778`), so a head that comes after the destroy reads the new one and
   the connection is parked again.
6. `late_import`: the daemon lists the program's files, then fingerprints the
   list (`daemon.rs:1119-1122`). A file outside the root that an edit imports in
   between is checked and is not in the key, so its later edits are answered
   from the cache.
7. `unchecked_head`: a request is to be under the check from its first byte
   (`http_conn.rs:281-283`). Bytes of a next head that are read with the end of
   the body before it, or earlier, begin no request, and `message_complete` then
   clears `active` (`http_conn.rs:624-627`): until more is read, the partial head
   is under neither headersTimeout nor requestTimeout, only under the socket's own
   timeout. `StaysUnderCheck` is what remains true.

Smaller things met on the way, which no property states. `parent_terminate` only
drops the worker's entries (`oam_core/worker.rs:211-216`) and stops no thread, so
a receive that is already blocked (152-156) waits as long as a terminated worker's
script runs and is silent; `WorkerEndSeen` says when the end is due. Timer ids wrap: after
2^32 timers a new one may get the id of a cancelled one whose entry is still
queued, and run at its time (before the wrap it cannot, as proved). A slot whose thread
panics with a request buffered or running is never replaced, so the fork pool can
shrink (it never grows). A stdin read that settles between `mark_discard` and
the lock in `arm_cancel` makes the switch wait its whole timeout and leaves the
injected Enter to the next read. A `setTimeout` on a server's socket between the
deadline's check and the store of `fired` (`http_conn.rs:817`) is not armed until
the next activity. Two containers that share a cache directory may have the same
process id, which is what keeps their temporary files apart. A check that
times out on a daemon found running makes the client spawn another and wait
`check_timeout` once more, where its comment says "never longer". `stop` does
not wait for the daemon's end as `retire` does, two clients that retire at once
remove the state file whoever wrote it, and `remove_state_if_owned` looks before
it removes: in each a new daemon can lose its file, and then ends when idle.

## Proofs

Every safety property of the passing runs is also a theorem, for every value of
the constants: any number of handles, timers, isolates, workers, processes,
requests, clients and edits, and any value of the named bounds. Each theorem has
the same shape: an inductive invariant that holds at first, one lemma per action
that the step keeps it, and the property from it.

* `OpRuntimeProofs`: `TypeCorrect`, `InflightIsExact`, `HandlesAgree`,
  `NoPromiseLost`, `ImplementsPromised`. The inductive invariant `IInv` is the
  conjunction of the first four with `SentOnce` (an op is running or has
  one completion queued, never both) and `IdsBelowNext` (an id is fresh when it
  is handed out). None of
  them is inductive alone: `set_handle_ref` moves the count by the ops of a set,
  which is right only if that set holds live ops whose membership in
  `unref_ops` follows the handle (`HandleIndexAgrees`, `RefAgrees`), and
  `note_settled` is right only if a completion is not queued twice. One lemma
  per action; the cardinality steps are the library's facts on finite sets.
  `ImplementsPromised` is the refinement of `AsyncOps`: the ops filed under a
  handle there are the set in its entry here (`OpsOfEntry`), a handle without an
  entry is a ref'd one (`EntryUnrefd`), so that dropping the entry at the last
  settlement is no change, and the counter is positive exactly while a promise
  that counts waits (`InflightAlive`).
* `TimerQueueProofs`: `TypeCorrect`, `RefCountIsExact`, `TimersAreKept`,
  `EntriesOwnUntilWrap`, `NeverEarly`, `NotOvertaken`, `ImplementsNode`,
  `ImplementsNodeSpec`. The invariant has
  two halves. `QueueInv` adds `SeqsUnique` (an entry's seq is its own and not
  above the counter) and `NoWrapYet` (until the ids have gone round, every id in
  use is below `next_id`, so a fresh id finds no old entry). `PhaseInv` adds that
  a turn's time never passes the clock and `GatesClosed`: what a pending callback
  waits for ends before anything set after it can be due, although its gate may
  lie almost a millisecond ahead of the clock. `ImplementsNode` is the refinement
  of `NodeTimers`: until the ids wrap a live id has one entry, so the timers seen
  are well defined; skims and purges are stutters, a pop takes a first one of its
  kind, and what a gate lets pass is what the pending callback waits for. The
  step condition is `seq' <= IdMax`, and `ImplementsNodeSpec` says that without a
  wrap nothing is left of it: every behaviour is one of `NodeTimers!Spec`.
* `EventLoopProofs`: `LoopTypeCorrect`, `RejectionReported`, `LoopExitsDrained`,
  `BeforeExitOnce`, `TimersDoNotStarve`, `LoopKeepsCounts`, `LoopNeverEarly`,
  `LoopNotOvertaken`, `LoopImplementsNode`, `LoopImplementsPromised`. The loop is a composition, and so is `LoopInv`: it contains
  the invariants of the two modules above, taken over through `INSTANCE`, whose
  step lemmas are cited and not proved again. The loop does not refine
  `TimerQueue` and `OpRuntime` literally (it skims a queue in the step that ends
  a callback, and V8 sends wakes without the component's bound), but it refines
  what they promise: the last two theorems are `NodeTimers` and `AsyncOps`,
  implemented by the whole loop, and the three before them carry the components'
  other properties over. JavaScript under the loop issues ops without a handle,
  so what `AsyncOps` says of handles is `ImplementsPromised`'s to show. The
  rest of `LoopInv` relates where the loop is to what was decided before.
  `Rejecting` lists where the loop can be once the entry has rejected.
  `Latched`, `Reset` and `Quiet` say why the beforeExit latch and "something
  ran" can differ: the turn is not over, or a wake of V8's has reset the latch
  and its task is still to run. `Phases` is why `begin_turn` cannot starve the
  poll: a timers phase goes on only with a first entry that was due when it
  began, and whatever is set during the phase is due after that. In
  `LoopExitsDrained` the exit for "no deadline" is shown to need no live
  reference, because a referenced timer has an entry and so a deadline.
* `PlatformTasksProofs`: `TasksTypeCorrect`, `TasksKeepHome`,
  `TasksNotSwallowed`, `WakesNotLost`, `DeadlinesKept`, `TasksEndWithIsolate`.
  That a task runs in its own isolate says nothing about the queue it is in when
  an address is reused, so `TasksInv` follows the task from the post: `Owning`
  (who owns a queue, and until when the registry leads to it), `QueuedHome` and
  `PostsHome` (a queued task is at home, and a post under way has found the home
  or its own isolate's tombstone), `Loops` (a running loop has its own waker, and
  past the flag a flag that is up has its wake in the channel) and `ReadyRises`.
* `WorkersProofs`: `WorkersTypeCorrect`, `WorkersPoolNeverGrows`,
  `WorkersEndIsReal`. `fork` works on the pool `ensure_warm` leaves, which is no
  state of its own, so `PoolGood` is about values and its lemmas are applied one
  after the other. It bounds the slots pooled or holding a request by the
  capacity, and the threads ever started by the capacity and the workers that
  used one up. `Ending` says that an exit event is only of a worker that is gone
  and that a loop which waits to receive has a receiver.
* `HostProofs`: `StdinDeliversUnderMode`, `SignalsNoDeathUnderListener`,
  `ConnStaysUnderCheck`, `CacheNeverTorn`, `TsRootEditsSeen`, `TsOldDaemonGone`,
  and the five type invariants. stdin: the property is
  about results delivered, the invariant about the read still out
  (`PendingUnderMode`: under the mode in force or, between mark and flip, one
  whose cancel was given up), which needs that the hold keeps new reads away
  (`HeldBySwitch`) and that every settle answers a mark (`SettlesMarked`).
  Signals: the task decides by a count that lags behind the flags, so
  `CountExact` says which handles it counts. Connection: a message is known by
  its generation, so the invariant says that they are new and how many there are;
  `HeadsBegun` ties the bytes hyper has of a next head to the generation the watch
  began for them, and `MessageChecked` says that a message begun and not reported
  as all in is under the check.
  Cache: only an open makes a file partial, and the name it
  takes is that of no store under way (`TmpsNamed`), so what a store has written
  stays whole until its rename (`WrittenWhole`, `BlobWhole`). Daemon: a key is
  taken before tsgo reads, so an answer is never older than its key
  (`KeyBeforeCheck`, `CachedKeys`). While an outdated daemon is up and nobody
  stops daemons the state file is its own, and no client gets as far as a spawn
  (`OldAlone`).
* `HttpFetchProofs`: `PoolOneOwner`, `FetchOneOwner`, `FetchNeverSentTwice`, and
  the type invariant. `RequestsHold`, `ParkingOpen` and `EntryOpen` say that a
  connection somebody has is open, which is what keeps its number from being
  given to a new one. The fetch's invariant contains the pool's; `WireCounted`
  bounds what the server may have read by the send under way and one resend,
  which was of a request that may repeat (`StaleMayRepeat`).
* `ServicesProofs`: `ServicesAreParts`, `ServicesTypeCorrect`, `ServicesSafe`.
  Whichever part moves, every other sees a stutter, so a behaviour of the
  composition satisfies each part's specification (the pool's alone or the
  fetch's, by `part`), and the parts' theorems give its invariants.

Assumptions: each module's named one (`OpIdMaxAssumption`, `TimerAssumption`,
`EventLoopAssumption`, `PlatformTasksAssumption`, `WorkersAssumption`,
`StdinAssumption`, `SignalsAssumption`, `HttpConnAssumption`,
`CodeCacheAssumption`, `TsDaemonAssumption`, `HttpPoolAssumption`,
`HttpFetchAssumption`): that bounds are natural numbers (`IdMax`, `Ms`,
`OpIdMax`, `MaxCalls`, `MaxDaemons` positive), that the listeners are finitely
many, that `None` is no address and every fetch a request. TLC evaluates all of
them on the runs.

Model-checked only: liveness (`CompletionsSettle`, `DueTimersRun`, `TasksRun`,
`WorkerEndSeen`, `ReaderResumes`, `UnwatchedKills`, `CloseGoesOn`,
`FetchSettles`), which under fairness is outside what the prover handles.

## Not modelled

The replay mode (completions swapped for recorded ones and a clock a day ahead),
the unhandled-rejection ledger (a fatal throw stands for its effect on the
loop), `report_unhandled = false` (the REPL's and test runner's pumps), which
differs in the ledger and beforeExit only, and what each op does.

Of the services: connections that a dispatcher's `connect` function supplies
(used once, never pooled); the marks of origins that close early, which only
narrow what a checkout may take; the socket's inactivity timeout, upgrades and
the bytes of a farewell on a server connection; the HTTP/2 server and the h2
session's limits; Windows' console events; a worker's resource limits, stdio and
message contents; the transpile cache, which stores as the code cache does.
Of the daemon: the recorded reason of a failed start, `status`, the removal of
an old marker, a kill that fails or finds its process id reused, and a process
probe (`ps`, `tasklist`) that cannot run: `daemon_process_alive` then answers
false (`daemon.rs:963-966`), so that `retire` does not wait. `OldDaemonGone` rests
on both.
Connection attempts (`net_connect.rs`) go through their addresses one after the
other in one task; what races there is tokio's timer with a socket.

Most of the repository's lines are conversions between Rust and JavaScript,
codecs, cryptography, TLS configuration, N-API, command-line handling and
Node's library in JavaScript: they keep little state and no order of their own,
and each is listed with its reason in `PROJECT.json`.

## Plan

1. Done: the modules above, each safety property model-checked and proved, the
   abstract specifications of timers and ops with their refinements, liveness
   model-checked.
2. What the proofs could still say: an abstract specification that the pool
   implements under fetches too (a fetch's steps are not literally `HttpPool`'s:
   it resets a request between two sends), abstract specifications of the fork
   pool and of `PlatformTasks`.
3. Further components, if any: the inactivity timeout of a server's socket, the
   installer's files.
